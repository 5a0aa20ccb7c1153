------------------------ MODULE BootstrapTokenProofs ------------------------
(***************************************************************************)
(* What holds of BootstrapToken for every set of resources, tokens and     *)
(* hashes, and for any number of failures and edits.                       *)
(***************************************************************************)
EXTENDS BootstrapToken, TLAPS

(***************************************************************************)
(* Types                                                                   *)
(***************************************************************************)
LEMMA FreshType == Unused # {} => Fresh \in Ids
BY DEF Fresh, Unused

LEMMA NoneType == NoHash \in Hash /\ NoSecret \in Secret /\ NoCore \in Core
BY DEF NoHash, Hash, NoSecret, Secret, NoCore, Core

LEMMA QuietType ==
  ASSUME TypeOK, Quiet
  PROVE  faults' \in 0..MaxFaults /\ edits' \in 0..MaxEdits
BY DEF TypeOK, Quiet

LEMMA FaultType ==
  ASSUME TypeOK, NEW f, Fault(f)
  PROVE  faults' \in 0..MaxFaults /\ edits' \in 0..MaxEdits
<1>1. faults' = faults + 1 /\ faults < MaxFaults /\ faults \in 0..MaxFaults /\ MaxFaults \in Nat
  BY BootstrapAssumption DEF TypeOK, Fault
<1>2. edits' \in 0..MaxEdits
  BY DEF TypeOK, Fault
<1> QED BY <1>1, <1>2

LEMMA EditType ==
  ASSUME TypeOK, Edit
  PROVE  faults' \in 0..MaxFaults /\ edits' \in 0..MaxEdits
<1>1. edits' = edits + 1 /\ edits < MaxEdits /\ edits \in 0..MaxEdits /\ MaxEdits \in Nat
  BY BootstrapAssumption DEF TypeOK, Edit
<1>2. faults' \in 0..MaxFaults
  BY DEF TypeOK, Edit
<1> QED BY <1>1, <1>2

LEMMA StageType ==
  ASSUME TypeOK, NEW s \in Stages, Goto(s)
  PROVE  op' \in Op
BY DEF TypeOK, Op, Goto

LEMMA EndType ==
  ASSUME TypeOK, NEW s \in Stages, NEW r \in {"NotReady", "Ready"}, End(s, r)
  PROVE  op' \in Op
BY DEF TypeOK, Op, End

LEMMA SaveType ==
  ASSUME TypeOK, NEW s \in Secret, Save(s)
  PROVE  secret' \in Secret /\ seen' \in Secret
BY DEF TypeOK, Save

(* In the initial states every variable has its type. *)
LEMMA InitType == Init => TypeOK
<1> SUFFICES ASSUME Init PROVE TypeOK
  OBVIOUS
<1>1. GivenSecrets \subseteq Secret
  <2>1. Given \in Secret /\ [Given EXCEPT !.other = TRUE] \in Secret
    BY NoneType DEF Given, Secret
  <2>2. \A i \in Ids : [Given EXCEPT !.token = i] \in Secret
    BY <2>1 DEF Secret
  <2>3. \A i \in Ids : [Given EXCEPT !.token = i, !.hash = [of |-> i, run |-> i]] \in Secret
    BY <2>1 DEF Secret, Hash
  <2> QED BY <2>1, <2>2, <2>3, NoneType DEF GivenSecrets
<1>2. secret \in Secret /\ seen \in Secret
  BY <1>1, NoneType DEF Init
<1>3. op \in Op
  BY NoneType DEF Init, Op, Stages
<1>4. faults \in 0..MaxFaults /\ edits \in 0..MaxEdits
  <2>1. faults = 0 /\ edits = 0
    BY DEF Init
  <2> QED BY <2>1, BootstrapAssumption
<1>5. hbt \in Token /\ pod \in Pod /\ core \in Core
  BY NoneType DEF Init, Token, Pod
<1>6. spec \in Specs
  BY DEF Init
<1> QED BY <1>2, <1>3, <1>4, <1>5, <1>6 DEF TypeOK

(* Every step keeps the types. *)
LEMMA NextType == TypeOK /\ [Next]_vars => TypeOK'
<1> SUFFICES ASSUME TypeOK, [Next]_vars PROVE TypeOK'
  OBVIOUS
<1>0. /\ op \in Op /\ hbt \in Token /\ secret \in Secret /\ seen \in Secret /\ pod \in Pod
      /\ core \in Core /\ hbt.uid \in Nat /\ op.uid \in Nat /\ seen.token \in Ids \cup {0}
  BY DEF TypeOK, Token, Op, Secret
<1>1. CASE Begin
  <2>1. op' \in Op
    BY <1>0, <1>1 DEF Begin, Op, Stages
  <2> QED BY <1>1, <2>1, QuietType DEF Begin, TypeOK
<1>2. CASE EnsureSecret
  <2>1. op' \in Op
    BY <1>2, StageType, EndType DEF EnsureSecret, Stages
  <2>2. [NoSecret EXCEPT !.there = TRUE, !.owner = op.uid] \in Secret
    BY <1>0, NoneType DEF Secret
  <2>3. secret' \in Secret /\ seen' \in Secret
    BY <1>0, <1>2, <2>2, SaveType DEF EnsureSecret
  <2> QED BY <1>2, <2>1, <2>3, QuietType DEF EnsureSecret, TypeOK
<1>3. CASE ReadHash
  <2>1. op' \in Op
    BY <1>0, <1>3 DEF ReadHash, Op, Stages
  <2> QED BY <1>3, <2>1, QuietType DEF ReadHash, TypeOK
<1>4. CASE CreatePod
  <2>1. op' \in Op
    BY <1>4, StageType DEF CreatePod, Stages
  <2>2. pod' \in Pod
    BY <1>0, <1>4 DEF CreatePod, Pod
  <2> QED BY <1>4, <2>1, <2>2, QuietType DEF CreatePod, TypeOK
<1>5. CASE WaitForPod
  <2>1. op' \in Op
    BY <1>5, StageType, EndType DEF WaitForPod, Stages
  <2> QED BY <1>5, <2>1, QuietType DEF WaitForPod, TypeOK
<1>6. CASE ExecCommand
  <2>1. op' \in Op
    <3>1. CASE pod.phase = "none"
      BY <1>6, <3>1, EndType DEF ExecCommand, Stages
    <3>2. CASE pod.phase # "none"
      <4>1. Fresh \in Ids
        BY <1>6, <3>2, FreshType DEF ExecCommand
      <4>2. op.read \in Ids \cup {0}
        BY <1>0 DEF Op
      <4> DEFINE token == IF op.read = 0 THEN Fresh ELSE op.read
      <4>3. token \in Ids
        BY <4>1, <4>2
      <4>4. op' = [op EXCEPT !.pc = "write", !.token = token, !.hash = [of |-> token, run |-> Fresh]]
        BY <1>6, <3>2 DEF ExecCommand
      <4>5. [of |-> token, run |-> Fresh] \in Hash
        BY <4>1, <4>3 DEF Hash
      <4> HIDE DEF token
      <4> QED BY <1>0, <4>3, <4>4, <4>5 DEF Op, Stages
    <3> QED BY <3>1, <3>2
  <2> QED BY <1>6, <2>1, QuietType DEF ExecCommand, TypeOK
<1>7. CASE WriteSecret
  <2>1. op' \in Op
    BY <1>7, StageType, EndType DEF WriteSecret, Stages
  <2>2. [secret EXCEPT !.token = op.token, !.hash = op.hash, !.other = FALSE] \in Secret
    BY <1>0 DEF Op, Secret
  <2>3. secret' \in Secret /\ seen' \in Secret
    BY <1>0, <1>7, <2>2, SaveType DEF WriteSecret
  <2> QED BY <1>7, <2>1, <2>3, QuietType DEF WriteSecret, TypeOK
<1>8. CASE WriteImage
  <2>1. op' \in Op
    BY <1>8, EndType DEF WriteImage, Stages
  <2> QED BY <1>8, <2>1, QuietType DEF WriteImage, TypeOK
<1>9. CASE DeletePod
  <2>1. op' \in Op
    BY <1>9, StageType DEF DeletePod, Stages
  <2>2. pod' \in Pod
    BY <1>0, <1>9 DEF DeletePod, Pod
  <2> QED BY <1>9, <2>1, <2>2, QuietType DEF DeletePod, TypeOK
<1>10. CASE Publish
  <2>1. op' \in Op
    BY <1>10, StageType DEF Publish, Stages
  <2>2. hbt' \in Token
    <3>1. (hbt.named \/ op.result = "Ready") \in BOOLEAN
      OBVIOUS
    <3>2. hbt' = [hbt EXCEPT !.state = op.result, !.named = hbt.named \/ op.result = "Ready"] \/ hbt' = hbt
      BY <1>10 DEF Publish
    <3>3. op.result \in {"", "NotReady", "Ready"}
      BY <1>0 DEF Op
    <3> QED BY <1>0, <3>1, <3>2, <3>3, Zenon DEF Token
  <2> QED BY <1>10, <2>1, <2>2, QuietType DEF Publish, TypeOK
<1>11. CASE CallFails
  <2>1. op' \in Op
    BY <1>11, StageType, EndType DEF CallFails, Stages
  <2> QED BY <1>11, <2>1, FaultType DEF CallFails, TypeOK
<1>12. CASE Stop
  <2>1. op' \in Op
    BY <1>12, StageType DEF Stop, Stages
  <2> QED BY <1>12, <2>1, FaultType DEF Stop, TypeOK
<1>13. CASE EnsureBootstrapToken
  <2>1. hbt' \in Token
    <3>1. hbt.uid + 1 \in Nat
      BY <1>0
    <3> QED BY <1>13, <3>1 DEF EnsureBootstrapToken, Token
  <2> QED BY <1>13, <2>1, QuietType DEF EnsureBootstrapToken, TypeOK
<1>14. CASE CreateCore
  <2>1. DesiredHash \in Hash
    BY <1>0, NoneType DEF DesiredHash, Named, Secret
  <2>2. core' \in Core
    BY <1>14, <2>1, NoneType DEF CreateCore, Core
  <2> QED BY <1>14, <2>2, QuietType DEF CreateCore, TypeOK
<1>15. CASE ReplaceCore
  BY <1>15, NoneType, QuietType DEF ReplaceCore, TypeOK
<1>16. CASE StartCore
  <2>1. Named(secret).hash \in Hash
    BY <1>0, NoneType DEF Named, Secret
  <2>2. core' \in Core
    BY <1>0, <1>16, <2>1 DEF StartCore, Core
  <2> QED BY <1>16, <2>2, QuietType DEF StartCore, TypeOK
<1>17. CASE PodRuns \/ PodEnds
  <2>1. pod' \in Pod
    BY <1>0, <1>17 DEF PodRuns, PodEnds, Pod
  <2> QED BY <1>17, <2>1, QuietType DEF PodRuns, PodEnds, TypeOK
<1>18. CASE PodIsLost
  <2>1. pod' \in Pod
    BY <1>18 DEF PodIsLost, Pod
  <2> QED BY <1>18, <2>1, FaultType DEF PodIsLost, TypeOK
<1>19. CASE CacheCatchesUp
  BY <1>19, QuietType DEF CacheCatchesUp, TypeOK
<1>20. CASE CollectGarbage
  <2>1. secret' \in Secret /\ seen' \in Secret
    BY <1>0, <1>20, SaveType, NoneType DEF CollectGarbage
  <2>2. pod' \in Pod
    BY <1>0, <1>20 DEF CollectGarbage, Pod
  <2> QED BY <1>20, <2>1, <2>2, QuietType DEF CollectGarbage, TypeOK
<1>21. CASE DeleteToken
  <2>1. hbt' \in Token
    BY <1>0, <1>21 DEF DeleteToken, Token
  <2> QED BY <1>21, <2>1, EditType DEF DeleteToken, TypeOK
<1>22. CASE ChangeSecret
  <2>1. Unused # {} =>
          [secret EXCEPT !.there = TRUE, !.token = Fresh, !.hash = [of |-> Fresh, run |-> Fresh]] \in Secret
    BY <1>0, FreshType DEF Secret, Hash
  <2>2. secret' \in Secret /\ seen' \in Secret
    BY <1>22, <2>1, SaveType, NoneType DEF ChangeSecret
  <2> QED BY <1>22, <2>2, EditType DEF ChangeSecret, TypeOK
<1>23. CASE UNCHANGED vars
  BY <1>23 DEF vars, TypeOK
<1> QED BY <1>1, <1>2, <1>3, <1>4, <1>5, <1>6, <1>7, <1>8, <1>9, <1>10, <1>11, <1>12, <1>13, <1>14,
           <1>15, <1>16, <1>17, <1>18, <1>19, <1>20, <1>21, <1>22, <1>23
        DEF Next, Reconcile, Cluster

(* Every variable keeps its type (what humiobootstraptoken_controller.go:73 to 125 and the
   pods of the cluster read and write). *)
THEOREM BootstrapTypeCorrect == Spec => []TypeOK
BY InitType, NextType, PTL DEF Spec

(***************************************************************************)
(* Pairs                                                                   *)
(***************************************************************************)
\* What is about to be written is a pair.
PairInv == PairsMatch /\ (At("write") => op.hash.of = op.token)

LEMMA PairInit == Init => PairInv
<1> SUFFICES ASSUME Init PROVE PairInv
  OBVIOUS
<1>1. op.pc = "idle"
  BY DEF Init
<1>2. \A s \in GivenSecrets : s.hash # NoHash => s.hash.of = s.token
  <2>1. NoSecret.hash = NoHash /\ Given.hash = NoHash /\ Given \in Secret
    BY NoneType DEF Given, NoSecret, Secret
  <2>2. [Given EXCEPT !.other = TRUE].hash = NoHash
    BY <2>1 DEF Secret
  <2>3. \A i \in Ids : [Given EXCEPT !.token = i].hash = NoHash
    BY <2>1 DEF Secret
  <2>4. \A i \in Ids : LET s == [Given EXCEPT !.token = i, !.hash = [of |-> i, run |-> i]]
                       IN  s.hash.of = s.token
    BY <2>1 DEF Secret
  <2> QED BY <2>1, <2>2, <2>3, <2>4 DEF GivenSecrets
<1>3. secret = NoSecret \/ secret \in GivenSecrets
  BY DEF Init
<1>4. NoSecret.hash = NoHash
  BY DEF NoSecret
<1> QED BY <1>1, <1>2, <1>3, <1>4 DEF PairInv, PairsMatch, At

(* Whoever writes to the secret writes a pair, or nothing of one. *)
LEMMA PairStep == TypeOK /\ PairInv /\ [Next]_vars => PairInv'
<1> SUFFICES ASSUME TypeOK, PairInv, [Next]_vars PROVE PairInv'
  OBVIOUS
<1> USE DEF PairInv, PairsMatch, At
<1>0. op \in Op /\ secret \in Secret /\ NoSecret.hash = NoHash /\ NoSecret \in Secret
  BY NoneType DEF TypeOK, NoSecret
<1>1. CASE EnsureSecret
  <2>1. op'.pc # "write"
    BY <1>0, <1>1 DEF EnsureSecret, Goto, End, Op
  <2>2. [NoSecret EXCEPT !.there = TRUE, !.owner = op.uid].hash = NoHash
    BY <1>0 DEF Secret
  <2> QED BY <1>1, <2>1, <2>2 DEF EnsureSecret, Save
<1>2. CASE ExecCommand
  <2>1. op'.pc = "write" => op'.hash.of = op'.token
    <3>1. CASE pod.phase = "none"
      BY <1>0, <1>2, <3>1 DEF ExecCommand, End, Op
    <3>2. CASE pod.phase # "none"
      <4> DEFINE token == IF op.read = 0 THEN Fresh ELSE op.read
      <4>1. op' = [op EXCEPT !.pc = "write", !.token = token, !.hash = [of |-> token, run |-> Fresh]]
        BY <1>2, <3>2 DEF ExecCommand
      <4> HIDE DEF token
      <4>2. op'.hash = [of |-> token, run |-> Fresh] /\ op'.token = token
        BY <1>0, <4>1 DEF Op
      <4> QED BY <4>2
    <3> QED BY <3>1, <3>2
  <2> QED BY <1>2, <2>1 DEF ExecCommand
<1>3. CASE WriteSecret
  <2>1. op'.pc # "write"
    BY <1>0, <1>3 DEF WriteSecret, Goto, End, Op
  <2>2. CASE secret' = secret
    BY <2>1, <2>2
  <2>3. CASE secret' = [secret EXCEPT !.token = op.token, !.hash = op.hash, !.other = FALSE]
    <3>1. secret'.hash = op.hash /\ secret'.token = op.token
      BY <1>0, <2>3 DEF Secret
    <3> QED BY <1>3, <2>1, <3>1 DEF WriteSecret
  <2> QED BY <1>3, <2>2, <2>3 DEF WriteSecret, Save
<1>4. CASE CollectGarbage
  BY <1>0, <1>4 DEF CollectGarbage, Save
<1>5. CASE ChangeSecret
  <2>1. CASE secret' = NoSecret
    BY <1>0, <1>5, <2>1 DEF ChangeSecret
  <2>2. CASE secret' = [secret EXCEPT !.there = TRUE, !.token = Fresh, !.hash = [of |-> Fresh, run |-> Fresh]]
    <3>1. secret'.hash.of = Fresh /\ secret'.token = Fresh
      BY <1>0, <2>2 DEF Secret
    <3> QED BY <1>5, <3>1 DEF ChangeSecret
  <2> QED BY <1>5, <2>1, <2>2 DEF ChangeSecret, Save
<1>6. CASE Begin \/ ReadHash \/ CreatePod \/ WaitForPod \/ WriteImage \/ DeletePod \/ Publish
           \/ CallFails \/ Stop
  <2>1. op'.pc # "write" \/ op' = op
    BY <1>0, <1>6 DEF Begin, ReadHash, CreatePod, WaitForPod, WriteImage, DeletePod, Publish,
                      CallFails, Stop, Goto, End, Op
  <2>2. secret' = secret
    BY <1>6 DEF Begin, ReadHash, CreatePod, WaitForPod, WriteImage, DeletePod, Publish, CallFails, Stop
  <2> QED BY <2>1, <2>2
<1>7. CASE Cluster \/ StartCore \/ PodRuns \/ PodEnds \/ PodIsLost \/ CacheCatchesUp \/ DeleteToken
           \/ UNCHANGED vars
  BY <1>7 DEF Cluster, EnsureBootstrapToken, CreateCore, ReplaceCore, StartCore, PodRuns, PodEnds,
              PodIsLost, CacheCatchesUp, DeleteToken, vars
<1> QED BY <1>1, <1>2, <1>3, <1>4, <1>5, <1>6, <1>7 DEF Next, Reconcile

(* The hash in the secret belongs to the token in it, also with a cache that lags and with
   users who edit it (the command of humiobootstraptoken_controller.go:370 and the write at
   :402). *)
THEOREM PairsAlwaysMatch == Spec => []PairsMatch
<1>1. PairInv => PairsMatch
  BY DEF PairInv
<1> QED BY <1>1, PairInit, PairStep, BootstrapTypeCorrect, PTL DEF Spec

(***************************************************************************)
(* The root token of the pods                                              *)
(***************************************************************************)
\* Without a lag the cache is the secret, and without edits the resource stays.
Current == seen = secret /\ hbt.there /\ edits = 0

\* What the operator makes belongs to the resource.
Owned == /\ secret.owner # 0 => secret.owner = hbt.uid
         /\ ~At("idle") => op.uid = hbt.uid

\* A new pair is made only while there is none.
OnlyWhenMissing == op.pc \in {"pod", "wait", "exec", "write"} => secret.hash = NoHash

RootInv ==
  /\ Current /\ Owned /\ OnlyWhenMissing
  /\ secret.hash # NoHash => secret.there
  /\ RootTokenWorks

LEMMA RootInit == Init => RootInv
<1> SUFFICES ASSUME Init PROVE RootInv
  OBVIOUS
<1>1. op.pc = "idle" /\ hbt.there /\ edits = 0 /\ seen = secret /\ core.env = NoHash
  BY DEF Init, NoCore
<1>2. \A s \in GivenSecrets : s.owner = 0 /\ (s.hash # NoHash => s.there)
  <2>1. /\ NoSecret.hash = NoHash /\ NoSecret.owner = 0
        /\ Given.there /\ Given.owner = 0 /\ Given \in Secret
    BY NoneType DEF Given, NoSecret, Secret
  <2>2. [Given EXCEPT !.other = TRUE].owner = 0 /\ [Given EXCEPT !.other = TRUE].there
    BY <2>1 DEF Secret
  <2>3. \A i \in Ids : [Given EXCEPT !.token = i].owner = 0 /\ [Given EXCEPT !.token = i].there
    BY <2>1 DEF Secret
  <2>4. \A i \in Ids : LET s == [Given EXCEPT !.token = i, !.hash = [of |-> i, run |-> i]]
                       IN  s.owner = 0 /\ s.there
    BY <2>1 DEF Secret
  <2> QED BY <2>1, <2>2, <2>3, <2>4 DEF GivenSecrets
<1>3. NoSecret.owner = 0 /\ NoSecret.hash = NoHash
  BY DEF NoSecret
<1>4. secret = NoSecret \/ secret \in GivenSecrets
  BY DEF Init
<1> QED BY <1>1, <1>2, <1>3, <1>4 DEF RootInv, Current, Owned, OnlyWhenMissing, RootTokenWorks, At

(* No failure makes another pair. *)
LEMMA RootStep ==
  ASSUME ~Lag, MaxEdits = 0, TypeOK, RootInv, [Next]_vars
  PROVE  RootInv'
<1> USE DEF RootInv, Current, Owned, OnlyWhenMissing, RootTokenWorks, At
<1>0. /\ op \in Op /\ secret \in Secret /\ hbt \in Token /\ core \in Core
      /\ NoSecret.hash = NoHash /\ NoSecret \in Secret
  BY NoneType DEF TypeOK, NoSecret
<1>1. CASE Begin
  <2>1. (op'.pc = "secret" /\ op'.uid = hbt.uid) \/ op' = op
    BY <1>0, <1>1 DEF Begin, Op
  <2> QED BY <1>1, <2>1 DEF Begin, Quiet
<1>2. CASE EnsureSecret
  <2>1. op'.pc \in {"hashed", "publish", "idle"} /\ op'.uid = op.uid
    BY <1>0, <1>2 DEF EnsureSecret, Goto, End, Op
  <2>2. CASE secret' = secret /\ seen' = seen
    BY <1>2, <2>1, <2>2 DEF EnsureSecret, Quiet
  <2>3. CASE /\ ~secret.there /\ seen' = secret'
             /\ secret' = [NoSecret EXCEPT !.there = TRUE, !.owner = op.uid]
    <3>1. secret'.there /\ secret'.owner = op.uid /\ secret'.hash = NoHash
      BY <1>0, <2>3 DEF Secret
    <3>2. core.env = NoHash
      BY <2>3
    <3> QED BY <1>2, <2>1, <2>3, <3>1, <3>2 DEF EnsureSecret, Quiet
  <2> QED BY <1>2, <2>2, <2>3 DEF EnsureSecret, Save
<1>3. CASE ReadHash
  <2>1. op'.uid = op.uid /\ op'.pc # "idle"
        /\ (op'.pc \in {"pod", "wait", "exec", "write"} => seen.hash = NoHash)
    BY <1>0, <1>3 DEF ReadHash, Op
  <2> QED BY <1>3, <2>1 DEF ReadHash, Quiet
<1>4. CASE CreatePod \/ WaitForPod \/ ExecCommand
  <2>1. op'.uid = op.uid /\ op'.pc # "idle" /\ op.pc \in {"pod", "wait", "exec"}
    BY <1>0, <1>4 DEF CreatePod, WaitForPod, ExecCommand, Goto, End, Op
  <2> QED BY <1>4, <2>1 DEF CreatePod, WaitForPod, ExecCommand, Quiet
<1>5. CASE WriteSecret
  <2>1. op'.uid = op.uid /\ op'.pc \in {"image", "delete"}
    BY <1>0, <1>5 DEF WriteSecret, Goto, End, Op
  <2>2. CASE secret' = secret /\ seen' = seen
    BY <1>5, <2>1, <2>2 DEF WriteSecret, Quiet
  <2>3. CASE /\ secret.there /\ seen' = secret'
             /\ secret' = [secret EXCEPT !.token = op.token, !.hash = op.hash, !.other = FALSE]
    <3>1. secret'.there /\ secret'.owner = secret.owner
      BY <1>0, <2>3 DEF Secret
    <3>2. core.env = NoHash
      BY <1>5 DEF WriteSecret
    <3> QED BY <1>5, <2>1, <2>3, <3>1, <3>2 DEF WriteSecret, Quiet
  <2> QED BY <1>5, <2>2, <2>3 DEF WriteSecret, Save
<1>6. CASE WriteImage \/ DeletePod \/ CallFails \/ Stop
  <2>1. op'.uid = op.uid /\ ~At("idle") /\ op'.pc \notin {"pod", "wait", "exec", "write"}
    BY <1>0, <1>6 DEF WriteImage, DeletePod, CallFails, Stop, Goto, End, Op
  <2>2. UNCHANGED <<secret, seen, hbt, core, edits>>
    BY <1>6 DEF WriteImage, DeletePod, CallFails, Stop, Fault, Quiet
  <2> QED BY <2>1, <2>2
<1>7. CASE Publish
  <2>1. hbt'.there = hbt.there /\ hbt'.uid = hbt.uid
    BY <1>0, <1>7 DEF Publish, Token
  <2>2. op'.pc = "idle"
    BY <1>0, <1>7 DEF Publish, Goto, Op
  <2> QED BY <1>7, <2>1, <2>2 DEF Publish, Quiet
<1>8. CASE StartCore
  <2>1. core'.env = Named(secret).hash /\ Named(secret).hash # NoHash
    BY <1>0, <1>8 DEF StartCore, Core
  <2>2. Named(secret) = secret
    BY <1>0, <2>1 DEF Named
  <2> QED BY <1>8, <2>1, <2>2 DEF StartCore, Quiet
<1>9. CASE CreateCore \/ ReplaceCore
  <2>1. core'.env = NoHash
    BY <1>9 DEF CreateCore, ReplaceCore, NoCore
  <2> QED BY <1>9, <2>1 DEF CreateCore, ReplaceCore, Quiet
<1>10. CASE CollectGarbage
  <2>1. ~Orphan(secret.owner)
    BY DEF Orphan
  <2> QED BY <1>10, <2>1 DEF CollectGarbage, Quiet
<1>11. CASE EnsureBootstrapToken \/ DeleteToken \/ ChangeSecret \/ CacheCatchesUp
  <2>1. ~(edits < MaxEdits)
    BY DEF TypeOK
  <2> QED BY <1>11, <2>1 DEF EnsureBootstrapToken, DeleteToken, ChangeSecret, CacheCatchesUp, Edit
<1>12. CASE PodRuns \/ PodEnds \/ PodIsLost \/ UNCHANGED vars
  BY <1>12 DEF PodRuns, PodEnds, PodIsLost, Fault, Quiet, vars
<1> QED BY <1>1, <1>2, <1>3, <1>4, <1>5, <1>6, <1>7, <1>8, <1>9, <1>10, <1>11, <1>12
        DEF Next, Reconcile, Cluster

(* Where the cache does not lag and nobody edits, a pod of the cluster that was started with
   a root token keeps it: a crash between the command and the write, or after it, makes no
   other pair once one is written (the test at humiobootstraptoken_controller.go:334). *)
THEOREM RootTokenKeepsWorking ==
  ASSUME ~Lag, MaxEdits = 0
  PROVE  Spec => []RootTokenWorks
<1>1. TypeOK /\ RootInv /\ [Next]_vars => RootInv'
  BY RootStep
<1>2. RootInv => RootTokenWorks
  BY DEF RootInv
<1> QED BY <1>1, <1>2, RootInit, BootstrapTypeCorrect, PTL DEF Spec
=============================================================================
