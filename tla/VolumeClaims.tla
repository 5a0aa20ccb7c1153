---------------------------- MODULE VolumeClaims ----------------------------
(***************************************************************************)
(* The claims that the pods of a node pool keep their data in: how a new   *)
(* pod is given one, and how the claims bound to a node of Kubernetes that *)
(* is gone are found and deleted.  A pod's node is remembered in the       *)
(* status of the HumioCluster by the name of the pod.  One reconcile is a  *)
(* sequence of steps, each of which lists what it needs again.             *)
(***************************************************************************)
EXTENDS Integers, FiniteSets

CONSTANTS
  Nodes,              \* nodes of Kubernetes
  Names,              \* names for pods
  NodeCount,          \* spec.nodeCount
  MaxClaims,          \* bound on claims made
  OnNodeDelete,       \* the reclaim type of the policy
  TLS,                \* are pods named by their certificates, or at random?
  Local,              \* are the volumes of the kind "local"?
  CacheLag,           \* may a list miss a new pod?
  Hurts, MaxHurts,    \* what may happen to nodes and pods, and how often
  MaxFaults

Claims == 1..MaxClaims
NoNode == "no node"
NoPod == [claim |-> 0]
Forgotten == [claim |-> 0]
Pod == [claim : Claims, node : Nodes \cup {NoNode}, phase : {"pending", "running", "lost"},
        unschedulable : BOOLEAN]

ClaimsAssumption ==
  /\ IsFiniteSet(Names) /\ NodeCount \in Nat \ {0} /\ MaxClaims \in Nat
  /\ {OnNodeDelete, TLS, Local, CacheLag} \subseteq BOOLEAN
  /\ Hurts \subseteq {"delete node", "cordon", "delete pod"}
  /\ MaxHurts \in Nat /\ MaxFaults \in Nat

VARIABLES
  node,        \* per node: "up", "cordoned" or "gone"
  claim,       \* the claims, and the node that one is bound to
  pod,         \* the pods
  unseen,      \* new pods that a list does not show yet
  podStatus,   \* status.podStatus, by the names of pods
  op,          \* where the reconcile is
  hurts, faults

vars == <<node, claim, pod, unseen, podStatus, op, hurts, faults>>

ClaimStates == {"new", "pending", "bound", "deleting", "gone"}
Idle == [pc |-> "idle", missing |-> 0, listed |-> {}, inUse |-> {}, made |-> {}]
(* Every variable has its type. *)
TypeOK ==
  /\ node \in [Nodes -> {"up", "cordoned", "gone"}]
  /\ claim \in [Claims -> [state : ClaimStates, node : Nodes \cup {NoNode}]]
  /\ pod \in [Names -> Pod \cup {NoPod}]
  /\ unseen \subseteq Names
  /\ podStatus \in [Names -> [claim : Claims, node : Nodes \cup {NoNode}] \cup {Forgotten}]
  /\ op \in [pc : {"idle", "claims", "pods", "create", "wait", "ready", "cleanup", "status"},
             missing : 0..NodeCount, listed : SUBSET Names, inUse : SUBSET Claims, made : SUBSET Names]
  /\ hurts \in 0..MaxHurts /\ faults \in 0..MaxFaults

Init ==
  /\ node = [n \in Nodes |-> "up"]
  /\ claim = [c \in Claims |-> [state |-> "new", node |-> NoNode]]
  /\ pod = [p \in Names |-> NoPod] /\ unseen = {}
  /\ podStatus = [p \in Names |-> Forgotten]
  /\ op = Idle /\ hurts = 0 /\ faults = 0

(***************************************************************************)
(* What the reconcile reads                                                *)
(***************************************************************************)
Goto(pc) == op' = [Idle EXCEPT !.pc = pc]
At(pc) == op.pc = pc
Alone == UNCHANGED <<node, hurts, faults>>

Pods == {p \in Names : pod[p] # NoPod}
Listed == Pods \ unseen
There(c) == claim[c].state \in {"pending", "bound", "deleting"}
BoundTo(c) == claim[c].node

\* The list fails when a local volume is on a node that is gone.
Unlistable == Local /\ \E c \in Claims : claim[c].state = "bound" /\ node[BoundTo(c)] = "gone"

\* FilterSchedulablePVCs looks at the node of a local volume only.
Schedulable ==
  {c \in Claims : \/ claim[c].state = "pending"
                  \/ claim[c].state = "bound" /\ ~(Local /\ node[BoundTo(c)] = "cordoned")}

\* What the pod list says is never used: findPodForPvc gives the pod without an error, and then
\* it is not looked at.  So the status alone tells.
Orphaned(c) == \E p \in Names : /\ podStatus[p].claim = c
                                /\ podStatus[p].node # NoNode /\ node[podStatus[p].node] = "gone"

OrphanedPods ==
  IF OnNodeDelete
  THEN {p \in Listed : pod[p].phase = "pending"
                       /\ (pod[p].claim \notin Schedulable \/ Orphaned(pod[p].claim))}
  ELSE {}

WaitingOnPods ==
  /\ Cardinality({p \in Listed : pod[p].phase = "running"}) < NodeCount \/ \E p \in Listed : pod[p].phase # "running"
  /\ ~\E p \in Listed : pod[p].unschedulable
  /\ OrphanedPods = {}

\* getPodsStatus needs the claims for pods that are pending.
StatusFails == Unlistable /\ \E p \in Listed : pod[p].phase = "pending"

(***************************************************************************)
(* The reconcile                                                           *)
(***************************************************************************)
EnsureMismatchedPodsAreDeleted ==
  /\ At("idle")
  /\ IF StatusFails THEN Goto("status") /\ UNCHANGED pod
     ELSE IF OrphanedPods # {}
     THEN /\ \E p \in OrphanedPods : pod' = [pod EXCEPT ![p] = NoPod]
          /\ Goto("status")
     ELSE Goto("claims") /\ UNCHANGED pod
  /\ UNCHANGED <<claim, unseen, podStatus>> /\ Alone

\* One claim at a time.
EnsureClaimsExist ==
  /\ At("claims")
  /\ IF Unlistable THEN Goto("status") /\ UNCHANGED claim
     ELSE /\ Goto("pods")
          /\ IF Cardinality(Schedulable) < NodeCount
             THEN \E c \in Claims : /\ claim[c].state = "new"
                                    /\ claim' = [claim EXCEPT ![c].state = "pending"]
             ELSE UNCHANGED claim
  /\ UNCHANGED <<pod, unseen, podStatus>> /\ Alone

EnsurePodsExist ==
  /\ At("pods")
  /\ IF Cardinality(Listed) < NodeCount
     THEN op' = [Idle EXCEPT !.pc = "create", !.missing = NodeCount - Cardinality(Listed),
                             !.listed = Listed, !.inUse = {pod[p].claim : p \in Listed}]
     ELSE Goto("ready")
  /\ UNCHANGED <<claim, pod, unseen, podStatus>> /\ Alone

\* A name at random is one that nothing knows of; a certificate gives the name of a pod that is not
\* seen to be there, and was not made just now.
FreeNames == IF TLS THEN Names \ (op.made \cup Listed)
             ELSE {p \in Names : pod[p] = NoPod /\ podStatus[p] = Forgotten}

\* Mutant: the claims given in this call are not noted.
NextClaims_Unnoted ==
  LET free == Schedulable \ {pod[p].claim : p \in op.listed \cap Pods}
      bound == {c \in free : claim[c].state = "bound"}
      first == IF bound # {} THEN bound ELSE free
  IN {c \in first : \A d \in first : c =< d}

\* The claims that are bound come first, then their names decide.
NextClaims ==
  LET free == Schedulable \ op.inUse
      bound == {c \in free : claim[c].state = "bound"}
      first == IF bound # {} THEN bound ELSE free
  IN {c \in first : \A d \in first : c =< d}

\* A pod whose name is taken by one that is not seen cannot be made.
CreatePod ==
  /\ At("create")
  /\ IF Unlistable \/ NextClaims = {} THEN Goto("status") /\ UNCHANGED <<pod, unseen>>
     ELSE \E c \in NextClaims, p \in FreeNames :
       IF pod[p] # NoPod THEN Goto("status") /\ UNCHANGED <<pod, unseen>>
       ELSE /\ pod' = [pod EXCEPT ![p] = [claim |-> c, node |-> NoNode, phase |-> "pending",
                                          unschedulable |-> FALSE]]
            /\ unseen' = IF CacheLag THEN unseen \cup {p} ELSE unseen
            /\ op' = [op EXCEPT !.pc = IF op.missing = 1 THEN "wait" ELSE "create",
                                !.missing = @ - 1, !.inUse = @ \cup {c}, !.made = @ \cup {p}]
  /\ UNCHANGED <<claim, podStatus>> /\ Alone

WaitForNewPods ==
  /\ At("wait") /\ op.made \cap unseen = {}
  /\ Goto("status")
  /\ UNCHANGED <<claim, pod, unseen, podStatus>> /\ Alone

NodePoolPodsReady ==
  /\ At("ready")
  /\ Goto(IF StatusFails \/ WaitingOnPods THEN "status" ELSE "cleanup")
  /\ UNCHANGED <<claim, pod, unseen, podStatus>> /\ Alone

\* Mutant: claims of pods that are not there are deleted.
Reclaimable_Unused(c) == c \notin {pod[p].claim : p \in Listed}

Reclaimable(c) == Orphaned(c)

EnsureOrphanedPvcsAreDeleted ==
  /\ At("cleanup")
  /\ LET orphans == {c \in Claims : There(c) /\ claim[c].state # "deleting" /\ Reclaimable(c)}
     IN IF OnNodeDelete /\ orphans # {}
        THEN /\ \E c \in orphans : claim' = [claim EXCEPT ![c].state = "deleting"]
             /\ UNCHANGED op
        ELSE Goto("status") /\ UNCHANGED claim
  /\ UNCHANGED <<pod, unseen, podStatus>> /\ Alone

\* Where a pod that does not run was before is taken from the entry of its name.
Remembered(p) ==
  IF OnNodeDelete /\ pod[p].phase = "pending" /\ podStatus[p] # Forgotten /\ podStatus[p].node # NoNode
  THEN podStatus[p].node ELSE pod[p].node

GetPodStatusList ==
  /\ At("status")
  /\ podStatus' = [p \in Names |-> IF p \in Listed THEN [claim |-> pod[p].claim, node |-> Remembered(p)]
                                   ELSE Forgotten]
  /\ op' = Idle
  /\ UNCHANGED <<claim, pod, unseen>> /\ Alone

Reconcile ==
  \/ EnsureMismatchedPodsAreDeleted \/ EnsureClaimsExist \/ EnsurePodsExist \/ CreatePod
  \/ WaitForNewPods \/ NodePoolPodsReady \/ EnsureOrphanedPvcsAreDeleted \/ GetPodStatusList

(***************************************************************************)
(* Kubernetes                                                              *)
(***************************************************************************)
Quiet == UNCHANGED <<podStatus, op, hurts, faults>>
CanRun(p, n) ==
  /\ node[n] = "up"
  /\ LET c == claim[pod[p].claim] IN c.state = "pending" \/ (c.state = "bound" /\ c.node = n)
Unscheduled(p) == p \in Pods /\ pod[p].phase = "pending" /\ pod[p].node = NoNode

Schedule(p) ==
  /\ Unscheduled(p)
  /\ \E n \in Nodes :
       /\ CanRun(p, n)
       /\ pod' = [pod EXCEPT ![p].node = n, ![p].unschedulable = FALSE]
       /\ claim' = [claim EXCEPT ![pod[p].claim] = [state |-> "bound", node |-> n]]
  /\ UNCHANGED <<node, unseen>> /\ Quiet

Unschedulable(p) ==
  /\ Unscheduled(p) /\ ~pod[p].unschedulable /\ ~\E n \in Nodes : CanRun(p, n)
  /\ pod' = [pod EXCEPT ![p].unschedulable = TRUE]
  /\ UNCHANGED <<node, claim, unseen>> /\ Quiet

Start(p) ==
  /\ p \in Pods /\ pod[p].phase = "pending" /\ pod[p].node # NoNode /\ node[pod[p].node] # "gone"
  /\ pod' = [pod EXCEPT ![p].phase = "running"]
  /\ UNCHANGED <<node, claim, unseen>> /\ Quiet

OnLostNode(p) == p \in Pods /\ pod[p].node # NoNode /\ node[pod[p].node] = "gone"

LosePod(p) ==
  /\ OnLostNode(p) /\ pod[p].phase = "running"
  /\ pod' = [pod EXCEPT ![p].phase = "lost"]
  /\ UNCHANGED <<node, claim, unseen>> /\ Quiet

CollectPod(p) ==
  /\ OnLostNode(p) /\ pod[p].phase # "running"
  /\ pod' = [pod EXCEPT ![p] = NoPod] /\ unseen' = unseen \ {p}
  /\ UNCHANGED <<node, claim>> /\ Quiet

\* A claim is kept as long as a pod on a node uses it.
RemoveClaim(c) ==
  /\ claim[c].state = "deleting"
  /\ ~\E p \in Pods : pod[p].claim = c /\ pod[p].node # NoNode
  /\ claim' = [claim EXCEPT ![c].state = "gone"]
  /\ UNCHANGED <<node, pod, unseen>> /\ Quiet

ShowPod(p) ==
  /\ p \in unseen
  /\ unseen' = unseen \ {p}
  /\ UNCHANGED <<node, claim, pod>> /\ Quiet

Kubernetes ==
  \/ \E p \in Names : Schedule(p) \/ Unschedulable(p) \/ Start(p) \/ LosePod(p) \/ CollectPod(p) \/ ShowPod(p)
  \/ \E c \in Claims : RemoveClaim(c)

(***************************************************************************)
(* Failures, and others                                                    *)
(***************************************************************************)
Hurt(h) == h \in Hurts /\ hurts < MaxHurts /\ hurts' = hurts + 1 /\ UNCHANGED <<unseen, podStatus, op, faults>>

DeleteNode(n) ==
  /\ Hurt("delete node") /\ node[n] # "gone"
  /\ \E m \in Nodes \ {n} : node[m] = "up"
  /\ node' = [node EXCEPT ![n] = "gone"]
  /\ UNCHANGED <<claim, pod>>

Cordon(n) ==
  /\ Hurt("cordon") /\ node[n] = "up"
  /\ \E m \in Nodes \ {n} : node[m] = "up"
  /\ node' = [node EXCEPT ![n] = "cordoned"]
  /\ UNCHANGED <<claim, pod>>

DeletePod(p) ==
  /\ Hurt("delete pod") /\ p \in Listed
  /\ pod' = [pod EXCEPT ![p] = NoPod]
  /\ UNCHANGED <<node, claim>>

Fault == faults < MaxFaults /\ faults' = faults + 1 /\ UNCHANGED <<node, claim, pod, podStatus, hurts>>

\* A call fails, or a wait takes too long; the status is written all the same.
Fail == op.pc \notin {"idle", "status"} /\ Goto("status") /\ UNCHANGED unseen /\ Fault

\* The operator is restarted, and reads all anew.
Restart == op # Idle /\ op' = Idle /\ unseen' = {} /\ Fault

Others ==
  \/ \E n \in Nodes : DeleteNode(n) \/ Cordon(n)
  \/ \E p \in Names : DeletePod(p)
  \/ Fail \/ Restart

Next == Reconcile \/ Kubernetes \/ Others

\* The reconcile goes on, and Kubernetes does what it does.
Fairness ==
  /\ WF_vars(Reconcile)
  /\ \A p \in Names : /\ WF_vars(Schedule(p)) /\ WF_vars(Unschedulable(p)) /\ WF_vars(Start(p))
                      /\ WF_vars(LosePod(p)) /\ WF_vars(CollectPod(p)) /\ WF_vars(ShowPod(p))
  /\ \A c \in Claims : WF_vars(RemoveClaim(c))

Spec == Init /\ [][Next]_vars /\ Fairness

(***************************************************************************)
(* Properties                                                              *)
(***************************************************************************)
(* Two pods never write to one volume: a claim is given to a single pod, whatever was listed before
   the others of the same reconcile were made. *)
NoSharedClaim == \A p, q \in Pods : p # q => pod[p].claim # pod[q].claim

(* Data goes only with its node: a claim that the operator deletes was bound to a node that is gone. *)
LiveKept ==
  \A c \in Claims : claim[c].state # "deleting" /\ claim'[c].state = "deleting"
                      => claim[c].node # NoNode /\ node[claim[c].node] = "gone"

(* In the end all pods of the pool run, after nodes and pods were taken away at any moment. *)
Settled == Cardinality({p \in Pods : pod[p].phase = "running"}) >= NodeCount
=============================================================================
