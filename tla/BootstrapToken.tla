--------------------------- MODULE BootstrapToken ---------------------------
(***************************************************************************)
(* The root token of a cluster.  The controller of HumioBootstrapToken     *)
(* makes a secret, runs a pod in which a command makes a token and its     *)
(* hash, and puts both into the secret; the controller of HumioCluster     *)
(* waits for that and gives the hash to its pods, which it replaces when   *)
(* the hash is another one.                                                *)
(*                                                                         *)
(* One action is one call, with the reads that lead to it.  Both           *)
(* controllers read the secret from one cache, which may lag behind.  The  *)
(* pods of the cluster are one pod; how they are replaced is in            *)
(* NodePoolRollout.  A resource keeps the secrets it refers to.            *)
(***************************************************************************)
EXTENDS Integers

CONSTANTS
  Specs,      \* the resources that may be made: a subset of SpecType
  Ids,        \* what the command may come up with, tokens and hashes
  Lag,        \* does the cache of secrets lag behind?
  FaultKinds, MaxFaults,  \* which failures may happen, and a bound on how many
  MaxEdits    \* bound on changes by users

\* Refers to a secret for the token, to one for the hash; is for an external cluster.
SpecType == [token : BOOLEAN, hashed : BOOLEAN, external : BOOLEAN]
Plain == [token |-> FALSE, hashed |-> FALSE, external |-> FALSE]

ASSUME BootstrapAssumption ==
  /\ Specs \subseteq SpecType
  /\ 0 \notin Ids
  /\ Lag \in BOOLEAN /\ MaxFaults \in Nat /\ MaxEdits \in Nat

VARIABLES
  spec,    \* the spec of the HumioBootstrapToken
  hbt,     \* the resource and its status; named: the status names the secrets
  secret,  \* the secret that the controller works on
  seen,    \* the same in the cache
  pod,     \* the one-time pod
  core,    \* the pod of the cluster: the hash it is marked with, the hash it was given
  op,      \* where the reconcile is, with what it has read and made
  faults, edits

vars == <<spec, hbt, secret, seen, pod, core, op, faults, edits>>

NoHash == [of |-> 0, run |-> 0]
Hash == [of : Ids \cup {0}, run : Ids \cup {0}]
\* "other": the values of the user, under keys of the user's choice.
Secret == [there : BOOLEAN, owner : Nat, token : Ids \cup {0}, hash : Hash, other : BOOLEAN]
NoSecret == [there |-> FALSE, owner |-> 0, token |-> 0, hash |-> NoHash, other |-> FALSE]
Token == [there : BOOLEAN, uid : Nat, state : {"", "NotReady", "Ready"}, named : BOOLEAN]
Pod == [phase : {"none", "starting", "running", "terminating"}, owner : Nat]
Core == [there : BOOLEAN, mark : Hash, env : Hash]
NoCore == [there |-> FALSE, mark |-> NoHash, env |-> NoHash]
Stages == {"idle", "secret", "hashed", "pod", "wait", "exec", "write", "image", "delete", "publish"}
Op == [pc : Stages, uid : Nat, read : Ids \cup {0}, token : Ids \cup {0}, hash : Hash,
       result : {"NotReady", "Ready"}]

(* Every variable has its type. *)
TypeOK ==
  /\ spec \in Specs /\ hbt \in Token
  /\ secret \in Secret /\ seen \in Secret
  /\ pod \in Pod /\ core \in Core /\ op \in Op
  /\ faults \in 0..MaxFaults /\ edits \in 0..MaxEdits

Fault(f) == f \in FaultKinds /\ faults < MaxFaults /\ faults' = faults + 1 /\ UNCHANGED edits
Edit == edits < MaxEdits /\ edits' = edits + 1 /\ UNCHANGED faults
Quiet == UNCHANGED <<faults, edits>>

\* Values that nobody holds.
InUse == {secret.token, secret.hash.run, seen.token, seen.hash.run, core.mark.run, core.env.run}
Unused == Ids \ InUse
Fresh == CHOOSE i \in Unused : TRUE

\* A write to the secret.
Save(new) == secret' = new /\ seen' = IF Lag THEN seen ELSE new

Given == [NoSecret EXCEPT !.there = TRUE]
GivenSecrets ==
  {NoSecret, [Given EXCEPT !.other = TRUE]}
    \cup {[Given EXCEPT !.token = i] : i \in Ids}
    \cup {[Given EXCEPT !.token = i, !.hash = [of |-> i, run |-> i]] : i \in Ids}

Init ==
  /\ spec \in Specs
  /\ hbt = [there |-> TRUE, uid |-> 1, state |-> "", named |-> FALSE]
  /\ secret \in IF spec.token THEN GivenSecrets ELSE {NoSecret}
  /\ seen = secret
  /\ pod = [phase |-> "none", owner |-> 0]
  /\ core = NoCore
  /\ op = [pc |-> "idle", uid |-> 1, read |-> 0, token |-> 0, hash |-> NoHash, result |-> "NotReady"]
  /\ faults = 0 /\ edits = 0

(***************************************************************************)
(* The controller of HumioBootstrapToken                                   *)
(***************************************************************************)
At(stage) == op.pc = stage
Goto(stage) == op' = [op EXCEPT !.pc = stage]
End(stage, result) == op' = [op EXCEPT !.pc = stage, !.result = result]

\* Without a managed cluster the reconcile ends at once.
Begin ==
  /\ At("idle") /\ hbt.there
  /\ op' = IF spec.external THEN op ELSE [op EXCEPT !.pc = "secret", !.uid = hbt.uid]
  /\ UNCHANGED <<spec, hbt, secret, seen, pod, core>> /\ Quiet

\* ensureBootstrapTokenSecret.  A secret that the spec refers to is looked for once more
\* where it was not found; a reference to a hash alone ends in a panic.
EnsureSecret ==
  /\ At("secret")
  /\ \/ seen.there /\ Goto("hashed") /\ UNCHANGED <<secret, seen>>
     \/ /\ ~seen.there /\ ~spec.token /\ ~spec.hashed /\ ~secret.there
        /\ Save([NoSecret EXCEPT !.there = TRUE, !.owner = op.uid])
        /\ Goto("hashed")
     \/ /\ ~seen.there /\ (spec.token \/ (secret.there /\ ~spec.hashed))
        /\ End("publish", "NotReady") /\ UNCHANGED <<secret, seen>>
     \/ /\ ~seen.there /\ ~spec.token /\ spec.hashed
        /\ Goto("idle") /\ UNCHANGED <<secret, seen>>
  /\ UNCHANGED <<spec, hbt, pod, core>> /\ Quiet

\* Mutant: a new pair is made for every reconcile.
ReadHash_Always ==
  /\ At("hashed")
  /\ op' = IF ~seen.there THEN [op EXCEPT !.pc = "publish", !.result = "NotReady"]
           ELSE [op EXCEPT !.pc = "pod", !.read = seen.token]
  /\ UNCHANGED <<spec, hbt, secret, seen, pod, core>> /\ Quiet

\* ensureBootstrapTokenHashedToken: from here on the pod is deleted at the end.
ReadHash ==
  /\ At("hashed")
  /\ op' = IF ~seen.there THEN [op EXCEPT !.pc = "publish", !.result = "NotReady"]
           ELSE IF seen.hash # NoHash THEN [op EXCEPT !.pc = "delete", !.result = "Ready"]
           ELSE [op EXCEPT !.pc = "pod", !.read = seen.token]
  /\ UNCHANGED <<spec, hbt, secret, seen, pod, core>> /\ Quiet

\* A pod that is there is used, be it one that an earlier reconcile has deleted.
CreatePod ==
  /\ At("pod")
  /\ pod' = IF pod.phase = "none" THEN [phase |-> "starting", owner |-> op.uid] ELSE pod
  /\ Goto("wait")
  /\ UNCHANGED <<spec, hbt, secret, seen, core>> /\ Quiet

WaitForPod ==
  /\ At("wait")
  /\ \/ pod.phase \in {"running", "terminating"} /\ Goto("exec")
     \/ pod.phase = "none" /\ End("delete", "NotReady")
  /\ UNCHANGED <<spec, hbt, secret, seen, pod, core>> /\ Quiet

\* The command makes a hash, and a token if it is not given one.
ExecCommand ==
  /\ At("exec")
  /\ IF pod.phase = "none" THEN End("delete", "NotReady")
     ELSE /\ Unused # {}
          /\ LET token == IF op.read = 0 THEN Fresh ELSE op.read
             IN op' = [op EXCEPT !.pc = "write", !.token = token,
                                 !.hash = [of |-> token, run |-> Fresh]]
  /\ UNCHANGED <<spec, hbt, secret, seen, pod, core>> /\ Quiet

\* Mutant: only the hash is put into the secret.
WriteSecret_HashOnly ==
  /\ At("write")
  /\ IF seen.there /\ seen = secret
     THEN Save([secret EXCEPT !.hash = op.hash]) /\ Goto("image")
     ELSE UNCHANGED <<secret, seen>> /\ End("delete", "NotReady")
  /\ UNCHANGED <<spec, hbt, pod, core>> /\ Quiet

\* The secret is read once more.  The write replaces all that it holds, and is refused if
\* the secret has changed.
WriteSecret ==
  /\ At("write")
  /\ IF seen.there /\ seen = secret
     THEN Save([secret EXCEPT !.token = op.token, !.hash = op.hash, !.other = FALSE]) /\ Goto("image")
     ELSE UNCHANGED <<secret, seen>> /\ End("delete", "NotReady")
  /\ UNCHANGED <<spec, hbt, pod, core>> /\ Quiet

Alive == hbt.there /\ hbt.uid = op.uid

\* updateStatusImage.
WriteImage ==
  /\ At("image")
  /\ End("delete", IF Alive THEN "Ready" ELSE "NotReady")
  /\ UNCHANGED <<spec, hbt, secret, seen, pod, core>> /\ Quiet

DeletePod ==
  /\ At("delete")
  /\ pod' = IF pod.phase = "none" THEN pod ELSE [pod EXCEPT !.phase = "terminating"]
  /\ Goto("publish")
  /\ UNCHANGED <<spec, hbt, secret, seen, core>> /\ Quiet

\* updateStatus: the names are set once it is ready.
Publish ==
  /\ At("publish")
  /\ hbt' = IF Alive THEN [hbt EXCEPT !.state = op.result, !.named = @ \/ op.result = "Ready"] ELSE hbt
  /\ Goto("idle")
  /\ UNCHANGED <<spec, secret, seen, pod, core>> /\ Quiet

\* Any call fails, or the pod takes too long.
CallFails ==
  /\ op.pc \notin {"idle", "publish"}
  /\ Fault("call")
  /\ \/ op.pc \in {"secret", "hashed"} /\ End("publish", "NotReady")
     \/ op.pc \in {"pod", "wait", "exec", "write", "image"} /\ End("delete", "NotReady")
     \/ At("delete") /\ Goto("publish")
  /\ UNCHANGED <<spec, hbt, secret, seen, pod, core>>

\* The operator dies, or the write of the status fails.
Stop ==
  /\ ~At("idle")
  /\ Fault("stop")
  /\ Goto("idle")
  /\ UNCHANGED <<spec, hbt, secret, seen, pod, core>>

(***************************************************************************)
(* The controller of HumioCluster                                          *)
(***************************************************************************)
EnsureBootstrapToken ==
  /\ ~hbt.there
  /\ hbt' = [there |-> TRUE, uid |-> hbt.uid + 1, state |-> "", named |-> FALSE]
  /\ UNCHANGED <<spec, secret, seen, pod, core, op>> /\ Quiet

\* The status names the secret that the controller makes, not one the spec refers to.
Named(s) == IF hbt.named /\ ~spec.token THEN s ELSE NoSecret

\* getDesiredBootstrapTokenHash, after the wait for the token: without a hash an error.
DesiredHash == IF hbt.there /\ hbt.state = "Ready" THEN Named(seen).hash ELSE NoHash

CreateCore ==
  /\ ~core.there /\ DesiredHash # NoHash
  /\ core' = [there |-> TRUE, mark |-> DesiredHash, env |-> NoHash]
  /\ UNCHANGED <<spec, hbt, secret, seen, pod, op>> /\ Quiet

ReplaceCore ==
  /\ core.there /\ DesiredHash # NoHash /\ core.mark # DesiredHash
  /\ core' = NoCore
  /\ UNCHANGED <<spec, hbt, secret, seen, pod, op>> /\ Quiet

(***************************************************************************)
(* Kubernetes and the users                                                *)
(***************************************************************************)
\* The environment of a container is read from the secret when it starts.
StartCore ==
  /\ core.there /\ core.env = NoHash
  /\ Named(secret).hash # NoHash
  /\ core' = [core EXCEPT !.env = Named(secret).hash]
  /\ UNCHANGED <<spec, hbt, secret, seen, pod, op>> /\ Quiet

PodRuns ==
  /\ pod.phase = "starting"
  /\ pod' = [pod EXCEPT !.phase = "running"]
  /\ UNCHANGED <<spec, hbt, secret, seen, core, op>> /\ Quiet

PodEnds ==
  /\ pod.phase = "terminating"
  /\ pod' = [phase |-> "none", owner |-> 0]
  /\ UNCHANGED <<spec, hbt, secret, seen, core, op>> /\ Quiet

PodIsLost ==
  /\ pod.phase \in {"starting", "running"}
  /\ Fault("pod_lost")
  /\ pod' = [phase |-> "none", owner |-> 0]
  /\ UNCHANGED <<spec, hbt, secret, seen, core, op>>

CacheCatchesUp ==
  /\ seen # secret
  /\ seen' = secret
  /\ UNCHANGED <<spec, hbt, secret, pod, core, op>> /\ Quiet

Orphan(owner) == owner # 0 /\ ~(hbt.there /\ hbt.uid = owner)

CollectGarbage ==
  /\ \/ Orphan(secret.owner) /\ Save(NoSecret) /\ UNCHANGED pod
     \/ /\ Orphan(pod.owner) /\ pod.phase # "terminating"
        /\ pod' = [pod EXCEPT !.phase = "terminating"]
        /\ UNCHANGED <<secret, seen>>
  /\ UNCHANGED <<spec, hbt, core, op>> /\ Quiet

\* The cluster makes the resource again, without references.
DeleteToken ==
  /\ Edit
  /\ hbt.there /\ spec = Plain
  /\ hbt' = [hbt EXCEPT !.there = FALSE, !.state = "", !.named = FALSE]
  /\ UNCHANGED <<spec, secret, seen, pod, core, op>>

ChangeSecret ==
  /\ Edit
  /\ \/ secret.there /\ Save(NoSecret)
     \/ /\ secret.there \/ spec.token
        /\ Unused # {}
        /\ Save([secret EXCEPT !.there = TRUE, !.token = Fresh, !.hash = [of |-> Fresh, run |-> Fresh]])
  /\ UNCHANGED <<spec, hbt, pod, core, op>>

Reconcile ==
  \/ Begin \/ EnsureSecret \/ ReadHash \/ CreatePod \/ WaitForPod \/ ExecCommand \/ WriteSecret
  \/ WriteImage \/ DeletePod \/ Publish

Cluster == EnsureBootstrapToken \/ CreateCore \/ ReplaceCore

Next ==
  \/ Reconcile \/ Cluster \/ CallFails \/ Stop
  \/ StartCore \/ PodRuns \/ PodEnds \/ PodIsLost \/ CacheCatchesUp \/ CollectGarbage
  \/ DeleteToken \/ ChangeSecret

\* A reconcile is always requeued, after a while or after an error.
Fairness ==
  /\ WF_vars(Reconcile) /\ WF_vars(EnsureBootstrapToken) /\ WF_vars(CreateCore) /\ WF_vars(ReplaceCore)
  /\ WF_vars(StartCore) /\ WF_vars(PodRuns) /\ WF_vars(PodEnds)
  /\ WF_vars(CacheCatchesUp) /\ WF_vars(CollectGarbage)

Spec == Init /\ [][Next]_vars /\ Fairness

(***************************************************************************)
(* Properties                                                              *)
(***************************************************************************)
(* The hash in the secret is that of the token in it, whichever reconcile, after which
   failure, made which of the two. *)
PairsMatch == secret.hash # NoHash => secret.hash.of = secret.token

(* Once a pod of the cluster was started with the hash of a root token, the secret holds
   that hash, so that the operator can log in with the token next to it: with nobody
   editing the secret, and a cache that does not lag, no failure and no crash of either
   controller makes another pair. *)
RootTokenWorks == core.env # NoHash => secret.there /\ secret.hash = core.env

(* When the failures and the edits are over, the token becomes ready, its pod is gone, and
   the pods of the cluster run with the hash that is in the secret, and stay so. *)
Settled ==
  /\ hbt.there /\ secret.there /\ secret.hash # NoHash
  /\ core.there /\ core.mark = secret.hash /\ core.env = secret.hash
  /\ hbt.named
  /\ pod.phase = "none"
=============================================================================
