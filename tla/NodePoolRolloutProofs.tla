------------------------ MODULE NodePoolRolloutProofs ------------------------
(***************************************************************************)
(* What holds of NodePoolRollout for every number of pools and pods, every *)
(* set of templates, strategies and failures, and any number of them.      *)
(***************************************************************************)
EXTENDS NodePoolRollout, FiniteSetTheorems, WellFoundedInduction, TLAPS

(***************************************************************************)
(* Sets of slots and pools                                                 *)
(***************************************************************************)
(* The least element of a non-empty set of pod or pool numbers is one of them: what
   every "first pod of the sorted list" of the code comes to. *)
LEMMA MinIsMember ==
  ASSUME NEW n \in Nat, NEW S \in SUBSET (1..n), S # {}
  PROVE  Min(S) \in S
<1> DEFINE Below(x) == {y \in S : y < x}
           T == {Below(x) : x \in S}
           R == StrictSubsetOrdering(S)
<1>1. IsFiniteSet(S)
  <2>1. IsFiniteSet(1..n)
    BY 1 \in Int, n \in Int, FS_Interval
  <2> QED BY <2>1, FS_Subset
<1>2. IsWellFoundedOn(R, FiniteSubsetsOf(S))
  BY FS_StrictSubsetOrderingWellFounded
<1>3. T \subseteq FiniteSubsetsOf(S) /\ T # {}
  <2>1. \A x \in S : Below(x) \in SUBSET S
    OBVIOUS
  <2>2. SUBSET S = FiniteSubsetsOf(S)
    BY <1>1, FS_FiniteSubsetsOfFinite
  <2>3. T \subseteq SUBSET S
    BY <2>1
  <2>4. T # {}
    <3>1. PICK x \in S : TRUE
      OBVIOUS
    <3>2. Below(x) \in T
      BY <3>1
    <3> HIDE DEF T
    <3> QED BY <3>2
  <2> HIDE DEF T
  <2> QED BY <2>2, <2>3, <2>4
<1>4. PICK B \in T : \A C \in T : <<C, B>> \notin R
  <2> HIDE DEF T, R
  <2> QED BY <1>2, <1>3, WFMin
<1>5. PICK x \in S : B = Below(x)
  OBVIOUS
<1>6. \A y \in S : x =< y
  <2> SUFFICES ASSUME NEW y \in S, y < x PROVE FALSE
    OBVIOUS
  <2>0. \A z \in S : z \in Int
    OBVIOUS
  <2>1. Below(y) \subseteq Below(x)
    <3> SUFFICES ASSUME NEW z \in S, z < y PROVE z < x
      OBVIOUS
    <3> QED BY <2>0
  <2>2. y \in Below(x) /\ y \notin Below(y)
    BY <2>0
  <2>3. <<Below(y), B>> \in R
    BY <2>1, <2>2, <1>5 DEF StrictSubsetOrdering
  <2> QED BY <2>3, <1>4
<1> QED
  BY <1>6 DEF Min

(* The first slot of a set of slots, and the first pool of a set of pools. *)
LEMMA FirstSlot ==
  ASSUME NEW S \in SUBSET Slots, S # {}
  PROVE  Min(S) \in S
BY MinIsMember, MaxPodsAssumption DEF Slots

LEMMA FirstPool ==
  ASSUME NEW S \in SUBSET Pools, S # {}
  PROVE  Min(S) \in S
BY MinIsMember, PoolCountAssumption DEF Pools

(* The number of pods in a set of slots is a natural number. *)
LEMMA SlotCount ==
  ASSUME NEW S \in SUBSET Slots
  PROVE  Cardinality(S) \in Nat
<1>1. IsFiniteSet(Slots)
  BY MaxPodsAssumption, 1 \in Int, MaxPods \in Int, FS_Interval DEF Slots
<1> QED BY <1>1, FS_Subset, FS_CardinalityType

(***************************************************************************)
(* What the parts of the actions preserve                                  *)
(***************************************************************************)
(* A group of variables that a step leaves alone keeps its type. *)
LEMMA Unchanged ==
  /\ InputsOK /\ UNCHANGED inputs => InputsOK'
  /\ StatusOK /\ UNCHANGED <<state, status>> => StatusOK'
  /\ ObjectsOK /\ UNCHANGED objects => ObjectsOK'
  /\ OperatorOK /\ UNCHANGED operator => OperatorOK'
  /\ BudgetsOK /\ UNCHANGED budgets => BudgetsOK'
BY DEF InputsOK, StatusOK, ObjectsOK, OperatorOK, BudgetsOK,
       inputs, objects, operator, budgets

(* Moving on to another stage of the reconcile, of the same or of the next pool. *)
LEMMA GotoType ==
  ASSUME OperatorOK, NEW stage \in Stages, NEW p \in Pools, Goto(stage, p),
         mem' = mem
  PROVE  OperatorOK'
BY DEF OperatorOK, Goto

LEMMA NoManagersType == NoManagers \in [Pools -> Manager]
<1>1. (CHOOSE x \in PoolSpec : TRUE) \in PoolSpec
  <2>1. PICK t \in Templates, n \in Counts, u \in Strategies : TRUE
    BY TemplatesAssumption, CountsAssumption, StrategiesAssumption
  <2>2. [tmpl |-> t, count |-> n, strategy |-> u] \in PoolSpec
    BY DEF PoolSpec
  <2> QED BY <2>2
<1>2. NoEntry \in Entry
  BY DEF NoEntry, Entry, States, Hashes
<1> QED
  BY <1>1, <1>2 DEF NoManagers, Manager

LEMMA ReturnType ==
  ASSUME OperatorOK, Return
  PROVE  OperatorOK'
<1>1. 1 \in Pools
  BY PoolCountAssumption DEF Pools
<1> QED
  BY <1>1, NoManagersType DEF OperatorOK, Return, Goto, Stages

LEMMA NextPoolType ==
  ASSUME OperatorOK, NextPool
  PROVE  OperatorOK'
<1>1. 1 \in Pools /\ (pi < PoolCount => pi + 1 \in Pools)
  BY PoolCountAssumption DEF Pools, OperatorOK
<1>2. CASE pi < PoolCount
  <2>1. Goto("mismatch", pi + 1) /\ mem' = mem
    BY <1>2 DEF NextPool
  <2> QED BY <1>1, <1>2, <2>1, GotoType DEF Stages
<1>3. CASE ~(pi < PoolCount)
  <2>1. Goto("provision", 1) /\ mem' = mem
    BY <1>3 DEF NextPool
  <2> QED BY <1>1, <2>1, GotoType DEF Stages
<1> QED BY <1>2, <1>3

(* A write of a pool's status entry. *)
LEMMA WriteEntryType ==
  ASSUME StatusOK, NEW p \in Pools, NEW st \in States, NEW rev \in Nat,
         NEW hash \in Hashes, NEW zone \in Zones \cup {NoZone},
         WriteEntry(p, st, rev, hash, zone)
  PROVE  StatusOK'
BY DEF StatusOK, WriteEntry, Entry

LEMMA WriteStateType ==
  ASSUME StatusOK, OperatorOK, NEW p \in Pools, NEW st \in States,
         NEW zone \in Zones \cup {NoZone}, WriteState(p, st, zone)
  PROVE  StatusOK'
<1>1. mem[p].entry.rev \in Nat /\ mem[p].entry.hash \in Hashes
  BY DEF OperatorOK, Manager, Entry
<1> QED
  BY <1>1, WriteEntryType DEF WriteState

(* A failure is counted up to its bound. *)
LEMMA FaultType ==
  ASSUME BudgetsOK, NEW kind, Fault(kind)
  PROVE  BudgetsOK'
BY BoundsAssumption DEF BudgetsOK, Fault

(* The hash of a template somebody wrote is one of the hashes. *)
LEMMA PodHashType ==
  ASSUME NEW t \in Templates
  PROVE  PodHash(t) \in Hashes
BY DEF Hashes

(* What the handler lists are pods. *)
LEMMA ListedType ==
  ASSUME ObjectsOK, NEW p \in Pools
  PROVE  /\ Listed(p) \in SUBSET Slots
         /\ \A s \in Listed(p) : View(p)[s] \in Pod
<1>1. View(p) \in [Slots -> Pod \cup {NoPod}]
  BY DEF ObjectsOK, PodsOf, View
<1> QED
  BY <1>1 DEF Listed

(* Marking a pod for deletion leaves pods. *)
LEMMA DeletedType ==
  ASSUME ObjectsOK, NEW p \in Pools, NEW s \in Slots, Exists(p, s)
  PROVE  Deleted(p, s) \in PodsOf
<1>1. pods[p][s] \in Pod
  BY DEF ObjectsOK, PodsOf, Exists
<1>2. [pods[p][s] EXCEPT !.deleting = TRUE] \in Pod
  BY <1>1 DEF Pod
<1> QED
  BY <1>2 DEF ObjectsOK, PodsOf, Deleted

(* A pod that moves to another phase is a pod. *)
LEMMA PodMovesType ==
  ASSUME ObjectsOK, NEW p \in Pools, NEW s \in Slots, NEW from,
         NEW to \in PodPhases, PodMoves(p, s, from, to)
  PROVE  ObjectsOK'
<1>1. pods[p][s] \in Pod
  BY DEF ObjectsOK, PodsOf, PodMoves, Alive, Exists
<1>2. [pods[p][s] EXCEPT !.phase = to] \in Pod
  BY <1>1 DEF Pod
<1>3. pods' \in PodsOf
  BY <1>2 DEF ObjectsOK, PodsOf, PodMoves
<1>4. lost' \in [Pools -> Nat]
  BY DEF ObjectsOK, PodMoves, Recount
<1> QED
  BY <1>3, <1>4 DEF ObjectsOK, PodMoves

(***************************************************************************)
(* Type correctness                                                        *)
(***************************************************************************)
(* Every step of the reconcile keeps the types. *)
LEMMA ReconcileType ==
  ASSUME TypeOK, Reconcile
  PROVE  TypeOK'
<1> USE DEF TypeOK
<1>1. CASE RejectPool
  <2>1. Min(Invalid) \in Pools
    BY <1>1, FirstPool DEF RejectPool, Invalid
  <2>2. /\ status[Min(Invalid)].rev \in Nat
        /\ status[Min(Invalid)].hash \in Hashes
        /\ status[Min(Invalid)].zone \in Zones \cup {NoZone}
    BY <2>1 DEF StatusOK, Entry
  <2>3. StatusOK'
    BY <1>1, <2>1, <2>2, WriteEntryType DEF RejectPool, States
  <2> QED BY <1>1, <2>3, Unchanged DEF RejectPool
<1>2. CASE Begin
  <2>1. NoEntry \in Entry
    BY DEF NoEntry, Entry, States, Hashes
  <2>2. StatusOK'
    BY <1>2, <2>1 DEF Begin, StatusOK, States, Unused
  <2>3. mem' \in [Pools -> Manager]
    BY <1>2 DEF Begin, Snapshot, Manager, StatusOK, InputsOK
  <2>4. OperatorOK'
    <3>1. 1 \in Pools
      BY PoolCountAssumption DEF Pools
    <3> QED BY <1>2, <2>3, <3>1 DEF Begin, OperatorOK, Goto, Stages
  <2> QED BY <1>2, <2>2, <2>4, Unchanged DEF Begin
<1>3. CASE SkipPool
  BY <1>3, Unchanged, NextPoolType DEF SkipPool
<1>4. CASE MarkMaintenance
  <2>1. StatusOK'
    BY <1>4, WriteStateType DEF MarkMaintenance, OperatorOK, States
  <2> QED BY <1>4, <2>1, Unchanged, ReturnType DEF MarkMaintenance
<1>5. CASE MarkRunning
  <2>1. StatusOK'
    BY <1>5, WriteStateType DEF MarkRunning, OperatorOK, States
  <2> QED BY <1>5, <2>1, Unchanged, ReturnType DEF MarkRunning
<1>6. CASE SaveRevision
  <2>1. mem[pi].entry.rev + 1 \in Nat /\ PodHash(mem[pi].pool.tmpl) \in Hashes
    BY PodHashType DEF OperatorOK, Manager, Entry, PoolSpec
  <2>2. StatusOK'
    BY <1>6, <2>1, WriteEntryType DEF SaveRevision, OperatorOK, StatusOK
  <2> QED BY <1>6, <2>2, Unchanged, ReturnType DEF SaveRevision
<1>7. CASE DeleteEvicted
  <2> DEFINE s == Min(In(pi, "evicted"))
  <2>1. CASE Exists(pi, s)
    <3>1. s \in Slots
      <4>1. In(pi, "evicted") # {}
        BY <1>7 DEF DeleteEvicted, Examine, Verdict
      <4>2. In(pi, "evicted") \in SUBSET Slots
        BY DEF In, Listed
      <4> HIDE DEF s
      <4> QED BY <4>1, <4>2, FirstSlot DEF s
    <3>2. pi \in Pools
      BY DEF OperatorOK
    <3>3. pods' \in PodsOf
      BY <1>7, <2>1, <3>1, <3>2, DeletedType DEF DeleteEvicted
    <3>4. ObjectsOK'
      BY <1>7, <3>3 DEF DeleteEvicted, ObjectsOK
    <3> QED BY <1>7, <2>1, <3>4, Unchanged, ReturnType DEF DeleteEvicted
  <2>2. CASE ~Exists(pi, s)
    <3>1. ObjectsOK'
      BY <1>7, <2>2 DEF DeleteEvicted, ObjectsOK
    <3> QED BY <1>7, <2>2, <3>1, Unchanged, NextPoolType DEF DeleteEvicted
  <2> QED BY <2>1, <2>2
<1>8. CASE PinZone
  <2> DEFINE S == {t \in NotAtDesired(pi) : View(pi)[t].zone # NoZone}
  <2>1. pi \in Pools /\ mem[pi].entry.state \in States
    BY DEF OperatorOK, Manager, Entry
  <2>2. S # {}
    BY <1>8 DEF PinZone, Examine, Verdict
  <2>3. S \in SUBSET Listed(pi)
    BY DEF NotAtDesired
  <2>4. Min(S) \in Listed(pi)
    <3>1. S \in SUBSET Slots
      BY <2>3 DEF Listed
    <3> HIDE DEF S
    <3> QED BY <2>2, <2>3, <3>1, FirstSlot
  <2>5. View(pi)[Min(S)].zone \in Zones \cup {NoZone}
    BY <2>1, <2>4, ListedType DEF Pod
  <2>6. WriteState(pi, mem[pi].entry.state, View(pi)[Min(S)].zone)
    BY <1>8 DEF PinZone
  <2>7. StatusOK'
    <3> HIDE DEF S
    <3> QED BY <2>1, <2>5, <2>6, WriteStateType
  <2> QED BY <1>8, <2>7, Unchanged, ReturnType DEF PinZone
<1>9. CASE UnpinZone
  <2>1. mem[pi].entry.state \in States
    BY DEF OperatorOK, Manager, Entry
  <2>2. StatusOK'
    BY <1>9, <2>1, WriteStateType DEF UnpinZone, OperatorOK
  <2> QED BY <1>9, <2>2, Unchanged, ReturnType DEF UnpinZone
<1>10. CASE WaitForOtherPods
  BY <1>10, Unchanged, NextPoolType DEF WaitForOtherPods
<1>11. CASE StartDeleting
  <2>1. FirstOf(ToBeReplaced(pi), DeletionBudget(pi)) \in SUBSET Slots
    BY DEF FirstOf, ToBeReplaced, Mismatched, Compared, In, Listed
  <2>2. OperatorOK'
    BY <1>11, <2>1 DEF StartDeleting, OperatorOK, Stages
  <2> QED BY <1>11, <2>2, Unchanged DEF StartDeleting
<1>12. CASE DeletePod
  <2>1. Min(doomed) \in Slots /\ pi \in Pools
    BY <1>12, FirstSlot DEF DeletePod, OperatorOK
  <2>2. pods' \in PodsOf
    BY <1>12, <2>1, DeletedType DEF DeletePod
  <2>3. lost' \in [Pools -> Nat]
    BY <1>12, <2>1 DEF DeletePod, ObjectsOK
  <2>4. ObjectsOK' /\ OperatorOK'
    BY <1>12, <2>2, <2>3 DEF DeletePod, ObjectsOK, OperatorOK
  <2> QED BY <1>12, <2>4, Unchanged DEF DeletePod
<1>13. CASE PodIsGone
  BY <1>13, Unchanged, NextPoolType DEF PodIsGone
<1>14. CASE EndDeleting
  BY <1>14, Unchanged, NextPoolType, ReturnType DEF EndDeleting
<1>15. CASE UpdateServiceAccount
  <2>1. Min(Unannotated) \in Pools
    BY <1>15, FirstPool DEF UpdateServiceAccount, Unannotated
  <2>2. OperatorOK'
    BY <1>15, <2>1, GotoType DEF UpdateServiceAccount, Stages
  <2>3. InputsOK'
    BY <1>15, <2>1 DEF UpdateServiceAccount, InputsOK
  <2> QED BY <1>15, <2>2, <2>3, Unchanged DEF UpdateServiceAccount
<1>16. CASE BumpRevision
  <2>1. mem[pi].entry.rev + 1 \in Nat /\ mem[pi].entry.hash \in Hashes
    BY DEF OperatorOK, Manager, Entry
  <2>2. StatusOK'
    BY <1>16, <2>1, WriteEntryType DEF BumpRevision, OperatorOK, StatusOK
  <2> QED BY <1>16, <2>2, Unchanged, ReturnType DEF BumpRevision
<1>17. CASE StartCreating
  <2>1. Min(Short) \in Short /\ Min(Short) \in Pools
    BY <1>17, FirstPool DEF StartCreating, Short
  <2>2. mem[Min(Short)].pool.count - Cardinality(Listed(Min(Short))) \in Nat
    <3>1. Cardinality(Listed(Min(Short))) < mem[Min(Short)].pool.count
      BY <2>1 DEF Short
    <3>2. Cardinality(Listed(Min(Short))) \in Nat
      BY SlotCount DEF Listed
    <3>3. mem[Min(Short)].pool.count \in Nat
      BY <2>1, CountsAssumption DEF OperatorOK, Manager, PoolSpec
    <3> QED BY <3>1, <3>2, <3>3
  <2>3. WithNewHash(Min(Short)) \in Nat
    BY SlotCount DEF WithNewHash, Listed
  <2>4. OperatorOK'
    BY <1>17, <2>1, <2>2, <2>3 DEF StartCreating, OperatorOK, Stages
  <2> QED BY <1>17, <2>4, Unchanged DEF StartCreating
<1>18. CASE CreatePod
  <2>1. PICK s \in Slots :
          pods' = [pods EXCEPT ![pi][s] =
                     [rev |-> mem[pi].entry.rev, tmpl |-> mem[pi].pool.tmpl,
                      zone |-> NoZone, phase |-> "pending", deleting |-> FALSE]]
    BY <1>18 DEF CreatePod
  <2>2. [rev |-> mem[pi].entry.rev, tmpl |-> mem[pi].pool.tmpl,
         zone |-> NoZone, phase |-> "pending", deleting |-> FALSE] \in Pod
    BY DEF OperatorOK, Manager, Entry, PoolSpec, Pod, PodPhases
  <2>3. ObjectsOK'
    BY <1>18, <2>1, <2>2 DEF CreatePod, ObjectsOK, PodsOf
  <2>4. OperatorOK'
    BY <1>18 DEF CreatePod, OperatorOK
  <2> QED BY <1>18, <2>3, <2>4, Unchanged DEF CreatePod
<1>19. CASE SeesNewPods
  BY <1>19, Unchanged, ReturnType DEF SeesNewPods
<1>20. CASE WaitForNewPodsTimesOut
  BY <1>20, Unchanged, ReturnType DEF WaitForNewPodsTimesOut
<1>21. CASE AwaitPods
  BY <1>21, Unchanged, ReturnType DEF AwaitPods
<1>22. CASE Finish
  <2>1. StatusOK'
    BY <1>22 DEF Finish, StatusOK, States
  <2> QED BY <1>22, <2>1, Unchanged, ReturnType DEF Finish
<1> QED
  BY <1>1, <1>2, <1>3, <1>4, <1>5, <1>6, <1>7, <1>8, <1>9, <1>10, <1>11, <1>12, <1>13,
     <1>14, <1>15, <1>16, <1>17, <1>18, <1>19, <1>20, <1>21, <1>22 DEF Reconcile

(* So does every way a reconcile may fail. *)
LEMMA ReconcileFailsType ==
  ASSUME TypeOK, ReconcileFails
  PROVE  TypeOK'
<1> USE DEF TypeOK
<1>1. CASE RejectCluster
  <2>1. StatusOK'
    BY <1>1 DEF RejectCluster, StatusOK, States
  <2> QED BY <1>1, <2>1, Unchanged, FaultType DEF RejectCluster
<1>2. CASE DeletePodFails
  BY <1>2, Unchanged, FaultType, NextPoolType DEF DeletePodFails
<1>3. CASE ServiceAccountFails
  <2>1. StatusOK'
    BY <1>3, WriteStateType DEF ServiceAccountFails, StatusOK
  <2> QED BY <1>3, <2>1, Unchanged, FaultType, ReturnType DEF ServiceAccountFails
<1>4. CASE VolumesFail
  <2>1. StatusOK'
    <3>1. CASE state \in Replacing
      BY <1>4, <3>1, Unchanged DEF VolumesFail
    <3>2. CASE state \notin Replacing
      <4>1. PICK p \in Pools : WriteState(p, "Pending", mem[p].entry.zone)
        BY <1>4, <3>2 DEF VolumesFail
      <4>2. mem[p].entry.zone \in Zones \cup {NoZone}
        BY DEF OperatorOK, Manager, Entry
      <4> QED BY <4>1, <4>2, WriteStateType DEF States
    <3> QED BY <3>1, <3>2
  <2> QED BY <1>4, <2>1, Unchanged, FaultType, ReturnType DEF VolumesFail
<1>5. CASE CreatePodFails
  BY <1>5, Unchanged, FaultType, ReturnType DEF CreatePodFails
<1>6. CASE FinishFails
  <2>1. StatusOK'
    BY <1>6 DEF FinishFails, StatusOK, States
  <2> QED BY <1>6, <2>1, Unchanged, FaultType, ReturnType DEF FinishFails
<1>7. CASE Crash
  <2>1. ObjectsOK'
    BY <1>7 DEF Crash, ObjectsOK
  <2>2. StatusOK'
    BY <1>7, Unchanged DEF Crash
  <2> QED BY <1>7, <2>1, <2>2, Unchanged, FaultType, ReturnType DEF Crash
<1> QED
  BY <1>1, <1>2, <1>3, <1>4, <1>5, <1>6, <1>7 DEF ReconcileFails

(* And so do Kubernetes and the users. *)
LEMMA PodEventType ==
  ASSUME TypeOK, NEW p \in Pools, NEW s \in Slots,
         \/ Schedule(p, s) \/ BecomeReady(p, s) \/ MinReadySecondsPass(p, s)
         \/ Recover(p, s) \/ Fail(p, s) \/ Terminated(p, s)
         \/ DeleteByOthers(p, s) \/ ReplaceByHand(p, s)
  PROVE  TypeOK'
<1> USE DEF TypeOK
<1> DEFINE Moves(from, to) ==
      PodMoves(p, s, from, to) /\ (UNCHANGED budgets \/ \E kind : Fault(kind))
<1>1. ASSUME NEW from, NEW to \in PodPhases, Moves(from, to)
      PROVE  TypeOK'
  <2>1. ObjectsOK'
    BY <1>1, PodMovesType
  <2>2. BudgetsOK'
    BY <1>1, FaultType, Unchanged
  <2> QED BY <1>1, <2>1, <2>2, Unchanged DEF PodMoves
<1>2. CASE Schedule(p, s)
  <2>1. pods[p][s] \in Pod
    BY <1>2 DEF Schedule, Alive, Exists, ObjectsOK, PodsOf
  <2>2. PICK z \in Zones :
          pods' = [pods EXCEPT ![p][s].zone = z, ![p][s].phase = "pending"]
    BY <1>2 DEF Schedule
  <2>3. pods' = [pods EXCEPT ![p] = [pods[p] EXCEPT ![s] =
                   [pods[p][s] EXCEPT !.zone = z, !.phase = "pending"]]]
    BY <2>1, <2>2 DEF Pod, ObjectsOK, PodsOf
  <2>4. [pods[p][s] EXCEPT !.zone = z, !.phase = "pending"] \in Pod
    BY <2>1 DEF Pod, PodPhases
  <2>5. ObjectsOK'
    BY <1>2, <2>3, <2>4 DEF Schedule, ObjectsOK, PodsOf
  <2> QED BY <1>2, <2>5, Unchanged DEF Schedule
<1>3. CASE BecomeReady(p, s)
  BY <1>1, <1>3 DEF BecomeReady, PodPhases
<1>4. CASE MinReadySecondsPass(p, s)
  BY <1>1, <1>4 DEF MinReadySecondsPass, PodPhases
<1>5. CASE Recover(p, s)
  BY <1>1, <1>5 DEF Recover, PodPhases
<1>6. CASE Fail(p, s)
  BY <1>1, <1>6 DEF Fail, PodPhases
<1>7. CASE Terminated(p, s)
  <2>1. ObjectsOK'
    BY <1>7 DEF Terminated, ObjectsOK, PodsOf
  <2> QED BY <1>7, <2>1, Unchanged DEF Terminated
<1>8. CASE DeleteByOthers(p, s)
  <2>1. ObjectsOK'
    BY <1>8, DeletedType DEF DeleteByOthers, Alive, ObjectsOK
  <2> QED BY <1>8, <2>1, Unchanged, FaultType DEF DeleteByOthers
<1>9. CASE ReplaceByHand(p, s)
  <2>1. ObjectsOK'
    BY <1>9, DeletedType DEF ReplaceByHand, Alive, ObjectsOK
  <2> QED BY <1>9, <2>1, Unchanged DEF ReplaceByHand
<1> QED
  BY <1>2, <1>3, <1>4, <1>5, <1>6, <1>7, <1>8, <1>9

LEMMA EnvironmentType ==
  ASSUME TypeOK, Environment
  PROVE  TypeOK'
<1> USE DEF TypeOK
<1>1. ASSUME Edit PROVE StatusOK' /\ OperatorOK' /\ BudgetsOK'
                        /\ UNCHANGED <<pods, cache>>
  <2>1. BudgetsOK'
    BY <1>1, BoundsAssumption DEF Edit, BudgetsOK
  <2> QED BY <1>1, <2>1, Unchanged DEF Edit
<1>2. ASSUME NEW p \in Pools, CacheSync(p) PROVE TypeOK'
  <2>1. ObjectsOK'
    BY <1>2 DEF CacheSync, ObjectsOK, PodsOf
  <2> QED BY <1>2, <2>1, Unchanged DEF CacheSync
<1>3. ASSUME NEW p \in Pools, EditTemplate(p) PROVE TypeOK'
  <2>1. PICK t \in Templates : spec' = [spec EXCEPT ![p].tmpl = t]
    BY <1>3 DEF EditTemplate
  <2>2. [spec[p] EXCEPT !.tmpl = t] \in PoolSpec
    BY DEF InputsOK, PoolSpec
  <2>3. InputsOK'
    BY <1>3, <2>1, <2>2 DEF EditTemplate, InputsOK
  <2> QED BY <1>1, <1>3, <2>3 DEF EditTemplate, ObjectsOK
<1>4. ASSUME NEW p \in Pools, EditCount(p) PROVE TypeOK'
  <2>1. PICK n \in Counts : spec' = [spec EXCEPT ![p].count = n]
    BY <1>4 DEF EditCount
  <2>2. [spec[p] EXCEPT !.count = n] \in PoolSpec
    BY DEF InputsOK, PoolSpec
  <2>3. InputsOK'
    BY <1>4, <2>1, <2>2 DEF EditCount, InputsOK
  <2>4. lost' \in [Pools -> Nat]
    BY <1>4 DEF EditCount, Recount, ObjectsOK
  <2> QED BY <1>1, <1>4, <2>3, <2>4 DEF EditCount, ObjectsOK
<1>5. ASSUME NEW p \in Pools, EditAnnotations(p) PROVE TypeOK'
  <2>1. InputsOK'
    BY <1>5 DEF EditAnnotations, InputsOK
  <2> QED BY <1>1, <1>5, <2>1 DEF EditAnnotations, ObjectsOK
<1> QED
  BY <1>2, <1>3, <1>4, <1>5, PodEventType DEF Environment

LEMMA InitType == Init => TypeOK
<1> SUFFICES ASSUME Init PROVE TypeOK
  OBVIOUS
<1>1. 1 \in Pools
  BY PoolCountAssumption DEF Pools
<1>2. InputsOK
  BY DEF Init, InputsOK
<1>3. OperatorOK
  BY <1>1, NoManagersType DEF Init, OperatorOK, Stages
<1>4. BudgetsOK
  <2>1. faults = 0 /\ edits = 0
    BY DEF Init
  <2> QED BY <2>1, BoundsAssumption DEF BudgetsOK
<1>5. StatusOK
  <2>1. NoEntry \in Entry
    BY DEF NoEntry, Entry, States, Hashes
  <2>2. CASE Settled
    <3>1. ASSUME NEW p \in Pools
          PROVE  [state |-> "Running", rev |-> 1, hash |-> PodHash(spec[p].tmpl),
                  zone |-> NoZone] \in Entry
      BY <1>2, PodHashType DEF Entry, States, InputsOK, PoolSpec
    <3> QED BY <2>1, <2>2, <3>1 DEF Init, StatusOK, States
  <2>3. CASE ~Settled
    BY <2>1, <2>3 DEF Init, StatusOK, States
  <2> QED BY <2>2, <2>3
<1>6. pods \in PodsOf
  <2>1. CASE Settled
    <3>1. PICK place \in [Slots -> Zones] :
            pods = [p \in Pools |-> [s \in Slots |->
                 IF s > spec[p].count THEN NoPod
                 ELSE [rev |-> 1, tmpl |-> spec[p].tmpl, zone |-> place[s],
                       phase |-> "ready", deleting |-> FALSE]]]
      BY <2>1 DEF Init
    <3>2. ASSUME NEW p \in Pools, NEW s \in Slots
          PROVE  [rev |-> 1, tmpl |-> spec[p].tmpl, zone |-> place[s],
                  phase |-> "ready", deleting |-> FALSE] \in Pod
      BY <1>2 DEF InputsOK, PoolSpec, Pod, PodPhases
    <3> QED BY <3>1, <3>2 DEF PodsOf
  <2>2. CASE ~Settled
    <3>1. pods = [p \in Pools |-> [s \in Slots |-> NoPod]]
      BY <2>2 DEF Init
    <3> QED BY <3>1 DEF PodsOf
  <2> QED BY <2>1, <2>2
<1>7. ObjectsOK
  BY <1>6 DEF Init, ObjectsOK
<1> QED
  BY <1>2, <1>3, <1>4, <1>5, <1>7 DEF TypeOK

LEMMA StepType == TypeOK /\ [Next]_vars => TypeOK'
<1>1. ASSUME TypeOK, UNCHANGED vars PROVE TypeOK'
  BY <1>1, Unchanged DEF TypeOK, vars
<1> QED
  BY <1>1, ReconcileType, ReconcileFailsType, EnvironmentType DEF Next

(* TypeOK holds in every reachable state: the operator's counters stay natural numbers
   and what it writes to the status stays within the revisions, hashes and zones. *)
THEOREM TypeCorrect == Spec => []TypeOK
BY InitType, StepType, PTL DEF Spec

(***************************************************************************)
(* Revisions                                                               *)
(***************************************************************************)
(* The revision written to an entry is the one it had, or a greater one. *)
LEMMA WriteEntryGrows ==
  ASSUME StatusOK, NEW p \in Pools, NEW st, NEW rev \in Nat, NEW hash, NEW zone,
         rev >= status[p].rev, WriteEntry(p, st, rev, hash, zone)
  PROVE  \A q \in Pools : status'[q].rev >= status[q].rev
<1> SUFFICES ASSUME NEW q \in Pools PROVE status'[q].rev >= status[q].rev
  OBVIOUS
<1>1. status[q].rev \in Nat
  BY DEF StatusOK, Entry
<1>2. status' = [status EXCEPT ![p] =
                   [state |-> st, rev |-> rev, hash |-> hash, zone |-> zone]]
  BY DEF WriteEntry
<1>3. CASE q = p
  BY <1>2, <1>3 DEF StatusOK
<1>4. CASE q # p
  BY <1>1, <1>2, <1>4 DEF StatusOK
<1> QED BY <1>3, <1>4

(* So it is when a manager's own copy of the entry is written back. *)
LEMMA FreshRevision ==
  ASSUME TypeOK, ManagersFresh, pc # "idle", NEW p \in Pools
  PROVE  mem[p].entry.rev \in Nat /\ mem[p].entry.rev >= status[p].rev
<1>1. mem[p].entry.rev \in Nat
  BY DEF TypeOK, OperatorOK, Manager, Entry
<1>2. NoEntry.rev = 0
  BY DEF NoEntry
<1>3. CASE status[p] = NoEntry
  BY <1>1, <1>2, <1>3
<1>4. CASE mem[p].entry = status[p]
  BY <1>1, <1>4
<1> QED
  BY <1>3, <1>4 DEF ManagersFresh

LEMMA WriteStateGrows ==
  ASSUME TypeOK, ManagersFresh, pc # "idle", NEW p \in Pools, NEW st, NEW zone,
         WriteState(p, st, zone)
  PROVE  \A q \in Pools : status'[q].rev >= status[q].rev
BY FreshRevision, WriteEntryGrows DEF WriteState, TypeOK

(* No step lowers a revision, but for the one that removes an unused entry. *)
LEMMA StatusGrows ==
  ASSUME TypeOK, ManagersFresh, [Next]_vars
  PROVE  \/ \A p \in Pools : status'[p].rev >= status[p].rev
         \/ Begin /\ \E p \in Unused : status' = [status EXCEPT ![p] = NoEntry]
<1> DEFINE Grows == \A p \in Pools : status'[p].rev >= status[p].rev
<1>1. ASSUME UNCHANGED status PROVE Grows
  BY <1>1 DEF TypeOK, StatusOK, Entry
<1>2. pi \in Pools
  BY DEF TypeOK, OperatorOK
<1>3. CASE RejectPool
  <2>1. Min(Invalid) \in Pools
    BY <1>3, FirstPool DEF RejectPool, Invalid
  <2>2. status[Min(Invalid)].rev \in Nat
    BY <2>1 DEF TypeOK, StatusOK, Entry
  <2> QED BY <1>3, <2>1, <2>2, WriteEntryGrows DEF RejectPool, TypeOK
<1>4. CASE MarkMaintenance
  BY <1>2, <1>4, WriteStateGrows DEF MarkMaintenance, Examine
<1>5. CASE MarkRunning
  BY <1>2, <1>5, WriteStateGrows DEF MarkRunning, Examine
<1>6. CASE PinZone
  BY <1>2, <1>6, WriteStateGrows DEF PinZone, Examine
<1>7. CASE UnpinZone
  BY <1>2, <1>7, WriteStateGrows DEF UnpinZone, Examine
<1>8. CASE SaveRevision
  <2>1. pc # "idle"
    BY <1>8 DEF SaveRevision, Examine
  <2>2. mem[pi].entry.rev + 1 \in Nat /\ mem[pi].entry.rev + 1 >= status[pi].rev
    BY <1>2, <2>1, FreshRevision DEF TypeOK, StatusOK, Entry
  <2> QED BY <1>2, <1>8, <2>2, WriteEntryGrows DEF SaveRevision, TypeOK
<1>9. CASE BumpRevision
  <2>1. pc # "idle"
    BY <1>9 DEF BumpRevision
  <2>2. mem[pi].entry.rev + 1 \in Nat /\ mem[pi].entry.rev + 1 >= status[pi].rev
    BY <1>2, <2>1, FreshRevision DEF TypeOK, StatusOK, Entry
  <2> QED BY <1>2, <1>9, <2>2, WriteEntryGrows DEF BumpRevision, TypeOK
<1>10. CASE ServiceAccountFails
  BY <1>10, WriteStateGrows DEF ServiceAccountFails
<1>11. CASE VolumesFail
  <2>1. CASE state \in Replacing
    BY <1>1, <1>11, <2>1 DEF VolumesFail
  <2>2. CASE state \notin Replacing
    BY <1>11, <2>2, WriteStateGrows DEF VolumesFail, Annotated
  <2> QED BY <2>1, <2>2
<1>12. CASE Begin
  <2>1. CASE Unused = {}
    BY <1>1, <1>12, <2>1 DEF Begin
  <2> QED BY <1>12, <2>1 DEF Begin
<1>13. CASE \/ SkipPool \/ DeleteEvicted \/ WaitForOtherPods \/ StartDeleting
            \/ DeletePod \/ PodIsGone \/ EndDeleting \/ UpdateServiceAccount
            \/ StartCreating \/ CreatePod \/ SeesNewPods \/ WaitForNewPodsTimesOut
            \/ AwaitPods \/ Finish
  BY <1>1, <1>13 DEF SkipPool, DeleteEvicted, WaitForOtherPods, StartDeleting, DeletePod,
       PodIsGone, EndDeleting, UpdateServiceAccount, StartCreating, CreatePod,
       SeesNewPods, WaitForNewPodsTimesOut, AwaitPods, Finish
<1>14. CASE \/ RejectCluster \/ DeletePodFails \/ CreatePodFails \/ FinishFails \/ Crash
  BY <1>1, <1>14 DEF RejectCluster, DeletePodFails, CreatePodFails, FinishFails, Crash
<1>15. CASE Environment
  BY <1>1, <1>15 DEF Environment, CacheSync, EditTemplate, EditCount, EditAnnotations,
       Edit, Schedule, BecomeReady, MinReadySecondsPass, Recover, Fail, PodMoves,
       Terminated, DeleteByOthers, ReplaceByHand
<1>16. CASE UNCHANGED vars
  BY <1>1, <1>16 DEF vars
<1> QED
  BY <1>3, <1>4, <1>5, <1>6, <1>7, <1>8, <1>9, <1>10, <1>11, <1>12, <1>13, <1>14,
     <1>15, <1>16 DEF Next, Reconcile, ReconcileFails

(***************************************************************************)
(* The managers are never stale when an entry is written                   *)
(***************************************************************************)
(* A step that leaves the status alone keeps fresh managers fresh, as long as it
   keeps them or returns from the reconcile. *)
LEMMA KeepsFresh ==
  ASSUME ManagersFresh, UNCHANGED status,
         pc' = "idle" \/ (pc # "idle" /\ UNCHANGED mem)
  PROVE  ManagersFresh'
BY DEF ManagersFresh

(* Returning needs nothing else: the next reconcile reads the entries again. *)
LEMMA ReturnFresh ==
  ASSUME Return
  PROVE  ManagersFresh'
BY DEF Return, Goto, ManagersFresh

LEMMA NextPoolKeeps ==
  ASSUME NextPool
  PROVE  UNCHANGED mem
BY DEF NextPool

LEMMA StepFresh ==
  ASSUME TypeOK, ManagersFresh, [Next]_vars
  PROVE  ManagersFresh'
<1>1. CASE RejectPool
  BY <1>1 DEF RejectPool, operator, ManagersFresh
<1>2. CASE Begin
  <2>1. \A p \in Pools : mem'[p].entry = status[p]
    BY <1>2 DEF Begin, Snapshot
  <2>2. \A p \in Pools : status'[p] = status[p] \/ status'[p] = NoEntry
    BY <1>2 DEF Begin, TypeOK, StatusOK
  <2> QED BY <2>1, <2>2 DEF ManagersFresh
<1>3. CASE \/ MarkMaintenance \/ MarkRunning \/ SaveRevision \/ PinZone \/ UnpinZone
           \/ BumpRevision \/ SeesNewPods \/ WaitForNewPodsTimesOut \/ AwaitPods
           \/ Finish
  BY <1>3, ReturnFresh DEF MarkMaintenance, MarkRunning, SaveRevision, PinZone,
       UnpinZone, BumpRevision, SeesNewPods, WaitForNewPodsTimesOut, AwaitPods, Finish
<1>4. CASE SkipPool \/ WaitForOtherPods \/ PodIsGone
  BY <1>4, KeepsFresh, NextPoolKeeps DEF SkipPool, WaitForOtherPods, PodIsGone, Examine
<1>5. CASE DeleteEvicted \/ EndDeleting
  BY <1>5, KeepsFresh, NextPoolKeeps, ReturnFresh
     DEF DeleteEvicted, EndDeleting, Examine
<1>6. CASE \/ StartDeleting \/ DeletePod \/ UpdateServiceAccount \/ StartCreating
           \/ CreatePod
  BY <1>6, KeepsFresh DEF StartDeleting, DeletePod, UpdateServiceAccount,
       StartCreating, CreatePod, Examine, Annotated
<1>7. CASE RejectCluster
  BY <1>7 DEF RejectCluster, operator, ManagersFresh
<1>8. CASE DeletePodFails
  BY <1>8, KeepsFresh, NextPoolKeeps DEF DeletePodFails
<1>9. CASE \/ ServiceAccountFails \/ VolumesFail \/ CreatePodFails \/ FinishFails
           \/ Crash
  BY <1>9, ReturnFresh DEF ServiceAccountFails, VolumesFail, CreatePodFails,
       FinishFails, Crash
<1>10. CASE Environment
  <2>1. UNCHANGED <<status, operator>>
    BY <1>10 DEF Environment, CacheSync, EditTemplate, EditCount, EditAnnotations,
         Edit, Schedule, BecomeReady, MinReadySecondsPass, Recover, Fail, PodMoves,
         Terminated, DeleteByOthers, ReplaceByHand
  <2> QED BY <2>1 DEF operator, ManagersFresh
<1>11. CASE UNCHANGED vars
  BY <1>11 DEF vars, operator, ManagersFresh
<1> QED
  BY <1>1, <1>2, <1>3, <1>4, <1>5, <1>6, <1>7, <1>8, <1>9, <1>10, <1>11
     DEF Next, Reconcile, ReconcileFails

LEMMA InitFresh == Init => ManagersFresh
BY DEF Init, ManagersFresh

(* While a reconcile is under way the entries its managers hold are those of the
   status, or the pool has none: nothing it writes comes from a stale copy. *)
THEOREM ManagersStayFresh == Spec => []ManagersFresh
<1>1. TypeOK /\ ManagersFresh /\ [Next]_vars => ManagersFresh'
  BY StepFresh
<1> QED BY <1>1, InitFresh, TypeCorrect, PTL DEF Spec

(* The revision of a pool is lowered only by the removal of its entry: every other
   write is of a fresh copy, or of a greater revision. *)
THEOREM RevisionsGrow == Spec => RevisionMonotone
<1> DEFINE Grows ==
      \A p \in Pools : status'[p].rev >= status[p].rev \/ status'[p] = NoEntry
<1>1. ASSUME TypeOK, ManagersFresh, [Next]_vars
      PROVE  Grows
  <2>1. CASE \A p \in Pools : status'[p].rev >= status[p].rev
    BY <2>1
  <2>2. CASE Begin /\ \E p \in Unused : status' = [status EXCEPT ![p] = NoEntry]
    <3>1. PICK q \in Pools : status' = [status EXCEPT ![q] = NoEntry]
      BY <2>2 DEF Unused
    <3>2. \A p \in Pools : status[p].rev \in Nat
      BY <1>1 DEF TypeOK, StatusOK, Entry
    <3> QED BY <1>1, <3>1, <3>2 DEF TypeOK, StatusOK
  <2> QED BY <1>1, <2>1, <2>2, StatusGrows
<1>2. TypeOK /\ ManagersFresh /\ [Next]_vars => [Grows]_vars
  BY <1>1
<1> QED BY <1>2, TypeCorrect, ManagersStayFresh, PTL DEF Spec, RevisionMonotone

(***************************************************************************)
(* Pods and the revision of their pool, while no pool is scaled to zero    *)
(***************************************************************************)
MemExact == pc # "idle" => \A p \in Pools : mem[p].entry = status[p]
PodsBehind ==
  \A p \in Pools, s \in Slots : Exists(p, s) => pods[p][s].rev <= status[p].rev

(* With no pool of zero nodes there is no unused entry, so that none is ever removed. *)
LEMMA NoUnused ==
  ASSUME 0 \notin Counts, TypeOK
  PROVE  Unused = {}
BY DEF Unused, TypeOK, InputsOK, PoolSpec

LEMMA StepExact ==
  ASSUME 0 \notin Counts, TypeOK, MemExact, [Next]_vars
  PROVE  MemExact'
<1>1. ASSUME UNCHANGED status, pc' = "idle" \/ (pc # "idle" /\ UNCHANGED mem)
      PROVE  MemExact'
  BY <1>1 DEF MemExact
<1>2. ASSUME Return PROVE MemExact'
  BY <1>2 DEF Return, Goto, MemExact
<1>3. CASE RejectPool \/ RejectCluster
  BY <1>3 DEF RejectPool, RejectCluster, operator, MemExact
<1>4. CASE Begin
  BY <1>4, NoUnused DEF Begin, Snapshot, MemExact
<1>5. CASE \/ MarkMaintenance \/ MarkRunning \/ SaveRevision \/ PinZone \/ UnpinZone
           \/ BumpRevision \/ SeesNewPods \/ WaitForNewPodsTimesOut \/ AwaitPods
           \/ Finish
  BY <1>2, <1>5 DEF MarkMaintenance, MarkRunning, SaveRevision, PinZone,
       UnpinZone, BumpRevision, SeesNewPods, WaitForNewPodsTimesOut, AwaitPods, Finish
<1>6. CASE SkipPool \/ WaitForOtherPods \/ PodIsGone \/ DeletePodFails
  BY <1>1, <1>6, NextPoolKeeps
     DEF SkipPool, WaitForOtherPods, PodIsGone, DeletePodFails, Examine
<1>7. CASE DeleteEvicted \/ EndDeleting
  BY <1>1, <1>2, <1>7, NextPoolKeeps DEF DeleteEvicted, EndDeleting, Examine
<1>8. CASE \/ StartDeleting \/ DeletePod \/ UpdateServiceAccount \/ StartCreating
           \/ CreatePod
  BY <1>1, <1>8 DEF StartDeleting, DeletePod, UpdateServiceAccount,
       StartCreating, CreatePod, Examine, Annotated
<1>9. CASE \/ ServiceAccountFails \/ VolumesFail \/ CreatePodFails \/ FinishFails
           \/ Crash
  BY <1>2, <1>9 DEF ServiceAccountFails, VolumesFail, CreatePodFails,
       FinishFails, Crash
<1>10. CASE Environment
  <2>1. UNCHANGED <<status, operator>>
    BY <1>10 DEF Environment, CacheSync, EditTemplate, EditCount, EditAnnotations,
         Edit, Schedule, BecomeReady, MinReadySecondsPass, Recover, Fail, PodMoves,
         Terminated, DeleteByOthers, ReplaceByHand
  <2> QED BY <2>1 DEF operator, MemExact
<1>11. CASE UNCHANGED vars
  BY <1>11 DEF vars, operator, MemExact
<1> QED
  BY <1>3, <1>4, <1>5, <1>6, <1>7, <1>8, <1>9, <1>10, <1>11
     DEF Next, Reconcile, ReconcileFails

(* A pod keeps its revision; a new one gets the revision its manager holds. *)
LEMMA RevisionOfPods ==
  ASSUME TypeOK, [Next]_vars, NEW p \in Pools, NEW s \in Slots
  PROVE  \/ pods'[p][s] = NoPod
         \/ Exists(p, s) /\ pods'[p][s].rev = pods[p][s].rev
         \/ CreatePod /\ pods'[p][s].rev = mem[p].entry.rev
<1> DEFINE Kept == \/ pods'[p][s] = NoPod
                   \/ Exists(p, s) /\ pods'[p][s].rev = pods[p][s].rev
<1>1. pods[p][s] # NoPod => pods[p][s] \in Pod
  BY DEF TypeOK, ObjectsOK, PodsOf
<1>2. ASSUME UNCHANGED pods PROVE Kept
  BY <1>2 DEF Exists
<1>3. ASSUME NEW q \in Pools, NEW t \in Slots, Exists(q, t), pods' = Deleted(q, t)
      PROVE  Kept
  <2>1. pods[q][t] \in Pod
    BY <1>3 DEF TypeOK, ObjectsOK, PodsOf, Exists
  <2> QED BY <1>3, <2>1 DEF Deleted, Exists, TypeOK, ObjectsOK, PodsOf, Pod
<1>4. ASSUME NEW q \in Pools, NEW t \in Slots, NEW from, NEW to, PodMoves(q, t, from, to)
      PROVE  Kept
  <2>1. pods[q][t] \in Pod
    BY <1>4 DEF TypeOK, ObjectsOK, PodsOf, PodMoves, Alive, Exists
  <2> QED BY <1>4, <2>1 DEF PodMoves, Alive, Exists, TypeOK, ObjectsOK, PodsOf, Pod
<1>5. pi \in Pools
  BY DEF TypeOK, OperatorOK
<1>6. CASE DeleteEvicted
  <2> DEFINE t == Min(In(pi, "evicted"))
  <2>1. CASE Exists(pi, t)
    <3>1. t \in Slots
      <4>1. In(pi, "evicted") # {}
        BY <1>6 DEF DeleteEvicted, Examine, Verdict
      <4>2. In(pi, "evicted") \in SUBSET Slots
        BY DEF In, Listed
      <4> HIDE DEF t
      <4> QED BY <4>1, <4>2, FirstSlot DEF t
    <3>2. pods' = Deleted(pi, t)
      BY <1>6, <2>1 DEF DeleteEvicted
    <3> HIDE DEF t
    <3> QED BY <1>3, <1>5, <2>1, <3>1, <3>2
  <2>2. CASE ~Exists(pi, t)
    BY <1>2, <1>6, <2>2 DEF DeleteEvicted
  <2> QED BY <2>1, <2>2
<1>7. CASE DeletePod
  <2>1. Min(doomed) \in Slots
    BY <1>7, FirstSlot DEF DeletePod, TypeOK, OperatorOK
  <2> QED BY <1>3, <1>5, <1>7, <2>1 DEF DeletePod
<1>8. CASE CreatePod
  <2>1. PICK t \in Slots :
          pods' = [pods EXCEPT ![pi][t] =
                     [rev |-> mem[pi].entry.rev, tmpl |-> mem[pi].pool.tmpl,
                      zone |-> NoZone, phase |-> "pending", deleting |-> FALSE]]
    BY <1>8 DEF CreatePod
  <2>2. CASE p = pi /\ s = t
    BY <1>5, <1>8, <2>1, <2>2 DEF TypeOK, ObjectsOK, PodsOf
  <2>3. CASE ~(p = pi /\ s = t)
    BY <1>5, <2>1, <2>3 DEF TypeOK, ObjectsOK, PodsOf, Exists
  <2> QED BY <2>2, <2>3
<1>9. CASE \/ RejectPool \/ Begin \/ SkipPool \/ MarkMaintenance \/ MarkRunning
           \/ SaveRevision \/ PinZone \/ UnpinZone \/ WaitForOtherPods
           \/ StartDeleting \/ PodIsGone \/ EndDeleting \/ UpdateServiceAccount
           \/ BumpRevision \/ StartCreating \/ SeesNewPods
           \/ WaitForNewPodsTimesOut \/ AwaitPods \/ Finish
  BY <1>2, <1>9 DEF objects, RejectPool, Begin, SkipPool, MarkMaintenance, MarkRunning,
       SaveRevision, PinZone, UnpinZone, WaitForOtherPods, StartDeleting, PodIsGone,
       EndDeleting, UpdateServiceAccount, BumpRevision, StartCreating, SeesNewPods,
       WaitForNewPodsTimesOut, AwaitPods, Finish
<1>10. CASE ReconcileFails
  BY <1>2, <1>10 DEF objects, ReconcileFails, RejectCluster, DeletePodFails,
       ServiceAccountFails, VolumesFail, CreatePodFails, FinishFails, Crash
<1>11. ASSUME NEW q \in Pools,
              CacheSync(q) \/ EditTemplate(q) \/ EditCount(q) \/ EditAnnotations(q)
       PROVE  Kept
  BY <1>2, <1>11 DEF CacheSync, EditTemplate, EditCount, EditAnnotations, Edit
<1>12. ASSUME NEW q \in Pools, NEW t \in Slots,
              \/ BecomeReady(q, t) \/ MinReadySecondsPass(q, t) \/ Recover(q, t)
              \/ Fail(q, t)
       PROVE  Kept
  BY <1>4, <1>12 DEF BecomeReady, MinReadySecondsPass, Recover, Fail
<1>13. ASSUME NEW q \in Pools, NEW t \in Slots,
              DeleteByOthers(q, t) \/ ReplaceByHand(q, t)
       PROVE  Kept
  BY <1>3, <1>13 DEF DeleteByOthers, ReplaceByHand, Alive
<1>14. ASSUME NEW q \in Pools, NEW t \in Slots, Terminated(q, t)
       PROVE  Kept
  BY <1>14 DEF Terminated, Exists, TypeOK, ObjectsOK, PodsOf
<1>15. ASSUME NEW q \in Pools, NEW t \in Slots, Schedule(q, t)
       PROVE  Kept
  <2>1. pods[q][t] \in Pod
    BY <1>15 DEF Schedule, Alive, Exists, TypeOK, ObjectsOK, PodsOf
  <2>2. PICK z \in Zones :
          pods' = [pods EXCEPT ![q][t].zone = z, ![q][t].phase = "pending"]
    BY <1>15 DEF Schedule
  <2>3. pods' = [pods EXCEPT ![q] = [pods[q] EXCEPT ![t] =
                   [pods[q][t] EXCEPT !.zone = z, !.phase = "pending"]]]
    BY <2>1, <2>2 DEF Pod, TypeOK, ObjectsOK, PodsOf
  <2> QED BY <1>15, <2>1, <2>3 DEF Schedule, Alive, Exists, TypeOK, ObjectsOK, PodsOf, Pod
<1>16. CASE UNCHANGED vars
  BY <1>2, <1>16 DEF vars, objects
<1>17. CASE Environment
  BY <1>11, <1>12, <1>13, <1>14, <1>15, <1>17 DEF Environment
<1> QED
  BY <1>6, <1>7, <1>8, <1>9, <1>10, <1>16, <1>17 DEF Next, Reconcile

LEMMA StepBehind ==
  ASSUME 0 \notin Counts, TypeOK, MemExact, PodsBehind, [Next]_vars
  PROVE  PodsBehind'
<1> SUFFICES ASSUME NEW p \in Pools, NEW s \in Slots, pods'[p][s] # NoPod
             PROVE  pods'[p][s].rev <= status'[p].rev
  BY DEF PodsBehind, Exists
<1>1. ManagersFresh
  BY DEF MemExact, ManagersFresh
<1>2. status'[p].rev >= status[p].rev
  <2>1. ~ \E q \in Unused : status' = [status EXCEPT ![q] = NoEntry]
    BY NoUnused
  <2> QED BY <1>1, <2>1, StatusGrows
<1>3. status[p].rev \in Nat /\ status'[p].rev \in Nat
  BY StepType DEF TypeOK, StatusOK, Entry
<1>4. CASE Exists(p, s) /\ pods'[p][s].rev = pods[p][s].rev
  <2>1. pods[p][s].rev \in Nat
    BY <1>4 DEF TypeOK, ObjectsOK, PodsOf, Exists, Pod
  <2> QED BY <1>2, <1>3, <1>4, <2>1 DEF PodsBehind
<1>5. CASE CreatePod /\ pods'[p][s].rev = mem[p].entry.rev
  BY <1>2, <1>3, <1>5 DEF CreatePod, MemExact
<1> QED BY <1>4, <1>5, RevisionOfPods

LEMMA InitBehind == Init => MemExact /\ PodsBehind
<1> SUFFICES ASSUME Init PROVE PodsBehind
  BY DEF Init, MemExact
<1> SUFFICES ASSUME NEW p \in Pools, NEW s \in Slots, pods[p][s] # NoPod
             PROVE  pods[p][s].rev <= status[p].rev
  BY DEF PodsBehind, Exists
<1>1. CASE Settled
  <2>1. PICK place \in [Slots -> Zones] :
          pods = [q \in Pools |-> [t \in Slots |->
                 IF t > spec[q].count THEN NoPod
                 ELSE [rev |-> 1, tmpl |-> spec[q].tmpl, zone |-> place[t],
                       phase |-> "ready", deleting |-> FALSE]]]
    BY <1>1 DEF Init
  <2>2. ~(s > spec[p].count) /\ pods[p][s].rev = 1
    BY <2>1
  <2>3. s \in Nat \ {0}
    BY MaxPodsAssumption DEF Slots
  <2>4. spec[p].count # 0
    BY <2>2, <2>3
  <2>5. status[p].rev = 1
    BY <1>1, <2>4 DEF Init
  <2> QED BY <2>2, <2>5
<1>2. CASE ~Settled
  <2>1. pods = [q \in Pools |-> [t \in Slots |-> NoPod]]
    BY <1>2 DEF Init
  <2> QED BY <2>1
<1> QED BY <1>1, <1>2

(* As long as no pool is scaled to zero nodes, which removes its entry and with it the
   revision its pods may still carry, no pod is ahead of its pool, whatever is in the
   cache and wherever the operator dies. *)
THEOREM PodsStayBehind ==
  ASSUME 0 \notin Counts
  PROVE  Spec => []PodsNotAhead
<1>1. TypeOK /\ MemExact /\ PodsBehind /\ [Next]_vars => MemExact' /\ PodsBehind'
  BY StepExact, StepBehind
<1>2. PodsBehind => PodsNotAhead
  BY DEF PodsBehind, PodsNotAhead
<1> QED BY <1>1, <1>2, InitBehind, TypeCorrect, PTL DEF Spec

(***************************************************************************)
(* One pool at a time                                                      *)
(***************************************************************************)
AtMostOne == \A p, q \in Pools : InMaintenance(p) /\ InMaintenance(q) => p = q
NothingStale == pc # "annotated" /\ \A p \in Pools : ~saStale[p]

(* No annotation of a service account is edited, so none is ever written. *)
LEMMA StepNothingStale ==
  ASSUME "account" \notin FaultKinds, TypeOK, NothingStale, [Next]_vars
  PROVE  NothingStale'
<1>1. ASSUME UNCHANGED saStale,
             pc' \in {"idle", "mismatch", "delete", "provision", "creating"}
      PROVE  NothingStale'
  BY <1>1 DEF NothingStale
<1>2. ASSUME UNCHANGED saStale, UNCHANGED pc PROVE NothingStale'
  BY <1>2 DEF NothingStale
<1>3. ASSUME Return \/ NextPool
      PROVE  pc' \in {"idle", "mismatch", "delete", "provision", "creating"}
  BY <1>3 DEF Return, NextPool, Goto
<1>4. CASE \/ SkipPool \/ MarkMaintenance \/ MarkRunning \/ SaveRevision
           \/ DeleteEvicted \/ PinZone \/ UnpinZone \/ WaitForOtherPods
           \/ PodIsGone \/ EndDeleting \/ BumpRevision \/ SeesNewPods
           \/ WaitForNewPodsTimesOut \/ AwaitPods \/ Finish
  BY <1>1, <1>3, <1>4 DEF inputs, SkipPool, MarkMaintenance, MarkRunning, SaveRevision,
       DeleteEvicted, PinZone, UnpinZone, WaitForOtherPods, PodIsGone, EndDeleting,
       BumpRevision, SeesNewPods, WaitForNewPodsTimesOut, AwaitPods, Finish
<1>5. CASE \/ DeletePodFails \/ ServiceAccountFails \/ VolumesFail \/ CreatePodFails
           \/ FinishFails \/ Crash
  BY <1>1, <1>3, <1>5 DEF inputs, DeletePodFails, ServiceAccountFails, VolumesFail,
       CreatePodFails, FinishFails, Crash
<1>6. CASE Begin \/ StartDeleting \/ StartCreating
  BY <1>1, <1>6 DEF inputs, Begin, Goto, StartDeleting, StartCreating
<1>7. CASE RejectPool \/ RejectCluster \/ DeletePod \/ CreatePod
  BY <1>2, <1>7 DEF inputs, operator, RejectPool, RejectCluster, DeletePod, CreatePod
<1>8. CASE UpdateServiceAccount
  BY <1>8 DEF UpdateServiceAccount, Unannotated, NothingStale
<1>9. CASE Environment
  <2>1. UNCHANGED <<saStale, operator>>
    BY <1>9 DEF Environment, CacheSync, EditTemplate, EditCount, EditAnnotations,
         Edit, Schedule, BecomeReady, MinReadySecondsPass, Recover, Fail, PodMoves,
         Terminated, DeleteByOthers, ReplaceByHand, inputs
  <2> QED BY <1>2, <2>1 DEF operator
<1>10. CASE UNCHANGED vars
  BY <1>2, <1>10 DEF vars, inputs, operator
<1> QED
  BY <1>4, <1>5, <1>6, <1>7, <1>8, <1>9, <1>10 DEF Next, Reconcile, ReconcileFails

(* A write to the entry of a pool that nodePoolAllowsMaintenanceOperations lets pass
   leaves at most one pool in maintenance. *)
LEMMA AllowedWrite ==
  ASSUME StatusOK, AtMostOne, NEW p \in Pools, AllowsMaintenance(p),
         NEW e, status' = [status EXCEPT ![p] = e]
  PROVE  AtMostOne'
<1>1. \A q \in Pools : q # p => status'[q] = status[q]
  BY DEF StatusOK
<1> QED
  BY <1>1 DEF AtMostOne, AllowsMaintenance, InMaintenance

LEMMA StepAtMostOne ==
  ASSUME {"account", "volume"} \cap FaultKinds = {}, \A t \in Templates : t.ok,
         TypeOK, NothingStale, AtMostOne, [Next]_vars
  PROVE  AtMostOne'
<1>1. ASSUME UNCHANGED status PROVE AtMostOne'
  BY <1>1 DEF AtMostOne, InMaintenance
<1>2. pi \in Pools
  BY DEF TypeOK, OperatorOK
<1>3. ASSUME NEW v \in {"mark", "settle", "revise", "pin", "unpin"}, Examine(v),
             NEW st, NEW rev, NEW hash, NEW zone, WriteEntry(pi, st, rev, hash, zone)
      PROVE  AtMostOne'
  <2>1. AllowsMaintenance(pi)
    BY <1>3 DEF Examine, Verdict
  <2> QED BY <1>2, <1>3, <2>1, AllowedWrite DEF WriteEntry, TypeOK
<1>4. CASE RejectPool
  <2>1. Invalid = {}
    BY DEF Invalid, TypeOK, InputsOK, PoolSpec
  <2> QED BY <1>4, <2>1 DEF RejectPool
<1>5. CASE Begin
  <2>1. CASE Unused = {}
    BY <1>1, <1>5, <2>1 DEF Begin
  <2>2. CASE Unused # {}
    <3>1. PICK p \in Pools : status' = [status EXCEPT ![p] = NoEntry]
      BY <1>5, <2>2 DEF Begin, Unused
    <3>2. \A q \in Pools : InMaintenance(q)' => InMaintenance(q)
      BY <3>1 DEF InMaintenance, TypeOK, StatusOK
    <3> QED BY <3>2 DEF AtMostOne
  <2> QED BY <2>1, <2>2
<1>6. CASE MarkMaintenance
  BY <1>3, <1>6 DEF MarkMaintenance, WriteState
<1>7. CASE MarkRunning
  BY <1>3, <1>7 DEF MarkRunning, WriteState
<1>8. CASE SaveRevision
  BY <1>3, <1>8 DEF SaveRevision
<1>9. CASE PinZone
  <2>1. PICK zone : WriteState(pi, mem[pi].entry.state, zone)
    BY <1>9 DEF PinZone
  <2> QED BY <1>3, <1>9, <2>1 DEF PinZone, WriteState
<1>10. CASE UnpinZone
  BY <1>3, <1>10 DEF UnpinZone, WriteState
<1>11. CASE BumpRevision \/ ServiceAccountFails \/ VolumesFail
  BY <1>11 DEF BumpRevision, NothingStale, ServiceAccountFails, VolumesFail, Fault
<1>12. CASE \/ SkipPool \/ DeleteEvicted \/ WaitForOtherPods \/ StartDeleting
            \/ DeletePod \/ PodIsGone \/ EndDeleting \/ UpdateServiceAccount
            \/ StartCreating \/ CreatePod \/ SeesNewPods \/ WaitForNewPodsTimesOut
            \/ AwaitPods \/ Finish
  BY <1>1, <1>12 DEF SkipPool, DeleteEvicted, WaitForOtherPods, StartDeleting, DeletePod,
       PodIsGone, EndDeleting, UpdateServiceAccount, StartCreating, CreatePod,
       SeesNewPods, WaitForNewPodsTimesOut, AwaitPods, Finish
<1>13. CASE \/ RejectCluster \/ DeletePodFails \/ CreatePodFails \/ FinishFails \/ Crash
  BY <1>1, <1>13 DEF RejectCluster, DeletePodFails, CreatePodFails, FinishFails, Crash
<1>14. CASE Environment
  BY <1>1, <1>14 DEF Environment, CacheSync, EditTemplate, EditCount, EditAnnotations,
       Edit, Schedule, BecomeReady, MinReadySecondsPass, Recover, Fail, PodMoves,
       Terminated, DeleteByOthers, ReplaceByHand
<1>15. CASE UNCHANGED vars
  BY <1>1, <1>15 DEF vars
<1> QED
  BY <1>4, <1>5, <1>6, <1>7, <1>8, <1>9, <1>10, <1>11, <1>12, <1>13, <1>14, <1>15
     DEF Next, Reconcile, ReconcileFails

LEMMA InitAtMostOne == Init => NothingStale /\ AtMostOne
<1> SUFFICES ASSUME Init PROVE NothingStale /\ AtMostOne
  OBVIOUS
<1>1. NothingStale
  BY DEF Init, NothingStale
<1>2. ASSUME NEW p \in Pools PROVE ~InMaintenance(p)
  <2>1. CASE Settled
    <3>1. status[p] = IF spec[p].count = 0 THEN NoEntry
                      ELSE [state |-> "Running", rev |-> 1,
                            hash |-> PodHash(spec[p].tmpl), zone |-> NoZone]
      BY <2>1 DEF Init
    <3> QED BY <3>1 DEF InMaintenance
  <2>2. CASE ~Settled
    BY <2>2 DEF Init, InMaintenance
  <2> QED BY <2>1, <2>2
<1> QED BY <1>1, <1>2 DEF AtMostOne

(* A set of pools with at most one element has at most one. *)
LEMMA AtMostOnePool ==
  ASSUME NEW S, \A x, y \in S : x = y
  PROVE  Cardinality(S) <= 1
<1>1. CASE S = {}
  BY <1>1, FS_EmptySet
<1>2. CASE S # {}
  <2>1. PICK x \in S : S = {x}
    BY <1>2
  <2> QED BY <2>1, FS_Singleton
<1> QED BY <1>1, <1>2

(* The pools are replaced one after the other, for any number of them and whatever the
   users edit, as long as none of the three writes that do not ask
   nodePoolAllowsMaintenanceOperations is made: after a change of a service account's
   annotations, after a failure to make volumes, and for a spec that is not valid. *)
THEOREM OnePoolAtATime ==
  ASSUME {"account", "volume"} \cap FaultKinds = {}, \A t \in Templates : t.ok
  PROVE  Spec => []OnePoolInMaintenance
<1>1. TypeOK /\ NothingStale /\ AtMostOne /\ [Next]_vars => NothingStale' /\ AtMostOne'
  BY StepNothingStale, StepAtMostOne
<1>2. TypeOK /\ AtMostOne => OnePoolInMaintenance
  <2> SUFFICES ASSUME TypeOK, AtMostOne PROVE OnePoolInMaintenance
    OBVIOUS
  <2> DEFINE S == {p \in Pools : status[p].state \in Replacing}
  <2>1. ASSUME NEW p \in S PROVE InMaintenance(p)
    <3>1. NoEntry.state = ""
      BY DEF NoEntry
    <3>2. status[p].state \in {"Upgrading", "Restarting"}
      BY <2>1 DEF Replacing
    <3>3. status[p] # NoEntry
      BY <3>1, <3>2
    <3> QED BY <3>2, <3>3 DEF InMaintenance
  <2>2. \A p, q \in S : p = q
    BY <2>1 DEF AtMostOne
  <2> QED BY <2>2, AtMostOnePool DEF OnePoolInMaintenance
<1> QED BY <1>1, <1>2, InitAtMostOne, TypeCorrect, PTL DEF Spec

(***************************************************************************)
(* The course of a reconcile                                               *)
(***************************************************************************)
(* Until it returns, a reconcile changes neither the state nor an entry nor what its
   managers hold, and it goes from one stage to the next in one of these ways. *)
LEMMA Course ==
  ASSUME [Next]_vars, pc' # "idle", ~Begin
  PROVE  /\ pc # "idle"
         /\ UNCHANGED <<state, status, mem>>
         /\ \/ UNCHANGED operator
            \/ DeletePod
            \/ CreatePod
            \/ NextPool /\ (SkipPool \/ WaitForOtherPods \/ DeleteEvicted)
            \/ StartDeleting
            \/ NextPool /\ pc = "delete" /\ (DeletePodFails \/ PodIsGone \/ EndDeleting)
            \/ UpdateServiceAccount
            \/ StartCreating
<1>1. ~Return
  BY DEF Return, Goto
<1>2. ASSUME NextPool PROVE UNCHANGED mem
  BY <1>2 DEF NextPool
<1>3. CASE \/ MarkMaintenance \/ MarkRunning \/ SaveRevision \/ PinZone \/ UnpinZone
           \/ BumpRevision \/ SeesNewPods \/ WaitForNewPodsTimesOut \/ AwaitPods
           \/ Finish
  BY <1>1, <1>3 DEF MarkMaintenance, MarkRunning, SaveRevision, PinZone,
       UnpinZone, BumpRevision, SeesNewPods, WaitForNewPodsTimesOut, AwaitPods, Finish
<1>4. CASE \/ ServiceAccountFails \/ VolumesFail \/ CreatePodFails \/ FinishFails
           \/ Crash
  BY <1>1, <1>4 DEF ServiceAccountFails, VolumesFail, CreatePodFails,
       FinishFails, Crash
<1>5. CASE RejectPool \/ RejectCluster
  BY <1>5 DEF RejectPool, RejectCluster, operator
<1>6. CASE SkipPool \/ WaitForOtherPods
  BY <1>2, <1>6 DEF SkipPool, WaitForOtherPods, Examine
<1>7. CASE DeleteEvicted
  BY <1>1, <1>2, <1>7 DEF DeleteEvicted, Examine
<1>8. CASE PodIsGone \/ DeletePodFails \/ EndDeleting
  BY <1>1, <1>2, <1>8 DEF PodIsGone, DeletePodFails, EndDeleting
<1>9. CASE \/ StartDeleting \/ DeletePod \/ UpdateServiceAccount \/ StartCreating
           \/ CreatePod
  BY <1>9 DEF StartDeleting, DeletePod, UpdateServiceAccount,
       StartCreating, CreatePod, Examine, Annotated
<1>10. CASE Environment
  <2>1. UNCHANGED <<state, status, operator>>
    BY <1>10 DEF Environment, CacheSync, EditTemplate, EditCount, EditAnnotations,
         Edit, Schedule, BecomeReady, MinReadySecondsPass, Recover, Fail, PodMoves,
         Terminated, DeleteByOthers, ReplaceByHand
  <2> QED BY <2>1 DEF operator
<1>11. CASE UNCHANGED vars
  BY <1>11 DEF vars, operator
<1> QED
  BY <1>3, <1>4, <1>5, <1>6, <1>7, <1>8, <1>9, <1>10, <1>11
     DEF Next, Reconcile, ReconcileFails

(***************************************************************************)
(* What may become of a pod                                                *)
(***************************************************************************)
(* The same pod, later: it keeps its revision and its template, the zone it was placed
   in, and the mark that it is being deleted. *)
Ages(old, new) ==
  /\ new.rev = old.rev
  /\ new.tmpl = old.tmpl
  /\ new.zone = old.zone \/ old.zone = NoZone
  /\ old.deleting => new.deleting

NewPod(p) ==
  [rev |-> mem[p].entry.rev, tmpl |-> mem[p].pool.tmpl,
   zone |-> NoZone, phase |-> "pending", deleting |-> FALSE]

LEMMA PodChange ==
  ASSUME TypeOK, [Next]_vars, NEW p \in Pools, NEW s \in Slots, pods'[p][s] # NoPod
  PROVE  \/ /\ Exists(p, s) /\ Ages(pods[p][s], pods'[p][s])
            /\ pods'[p][s].phase = "bad" => pods[p][s].phase = "bad" \/ Fault("bad")
         \/ /\ CreatePod /\ p = pi /\ s \notin Listed(p) /\ ~Exists(p, s)
            /\ pods' = [pods EXCEPT ![p][s] = NewPod(p)]
<1> DEFINE Kept ==
      /\ Exists(p, s) /\ Ages(pods[p][s], pods'[p][s])
      /\ pods'[p][s].phase = "bad" => pods[p][s].phase = "bad" \/ Fault("bad")
<1>1. pods[p][s] # NoPod => pods[p][s] \in Pod
  BY DEF TypeOK, ObjectsOK, PodsOf
<1>2. ASSUME UNCHANGED pods PROVE Kept
  BY <1>2 DEF Exists, Ages
<1>3. ASSUME NEW q \in Pools, NEW t \in Slots, Exists(q, t), pods' = Deleted(q, t)
      PROVE  Kept
  <2>1. pods[q][t] \in Pod
    BY <1>3 DEF TypeOK, ObjectsOK, PodsOf, Exists
  <2> QED BY <1>3, <2>1 DEF Deleted, Exists, TypeOK, ObjectsOK, PodsOf, Pod, Ages
<1>4. ASSUME NEW q \in Pools, NEW t \in Slots, NEW from, NEW to,
             PodMoves(q, t, from, to), to = "bad" => Fault("bad")
      PROVE  Kept
  <2>1. pods[q][t] \in Pod
    BY <1>4 DEF TypeOK, ObjectsOK, PodsOf, PodMoves, Alive, Exists
  <2> QED BY <1>4, <2>1 DEF PodMoves, Alive, Exists, TypeOK, ObjectsOK, PodsOf, Pod, Ages
<1>5. pi \in Pools
  BY DEF TypeOK, OperatorOK
<1>6. CASE DeleteEvicted
  <2> DEFINE t == Min(In(pi, "evicted"))
  <2>1. CASE Exists(pi, t)
    <3>1. t \in Slots
      <4>1. In(pi, "evicted") # {}
        BY <1>6 DEF DeleteEvicted, Examine, Verdict
      <4>2. In(pi, "evicted") \in SUBSET Slots
        BY DEF In, Listed
      <4> HIDE DEF t
      <4> QED BY <4>1, <4>2, FirstSlot DEF t
    <3>2. pods' = Deleted(pi, t)
      BY <1>6, <2>1 DEF DeleteEvicted
    <3> HIDE DEF t
    <3> QED BY <1>3, <1>5, <2>1, <3>1, <3>2
  <2>2. CASE ~Exists(pi, t)
    BY <1>2, <1>6, <2>2 DEF DeleteEvicted
  <2> QED BY <2>1, <2>2
<1>7. CASE DeletePod
  <2>1. Min(doomed) \in Slots
    BY <1>7, FirstSlot DEF DeletePod, TypeOK, OperatorOK
  <2> QED BY <1>3, <1>5, <1>7, <2>1 DEF DeletePod
<1>8. CASE CreatePod
  <2>1. PICK t \in Slots \ Listed(pi) :
          ~Exists(pi, t) /\ pods' = [pods EXCEPT ![pi][t] = NewPod(pi)]
    BY <1>8 DEF CreatePod, NewPod
  <2>2. CASE p = pi /\ s = t
    BY <1>8, <2>1, <2>2
  <2>3. CASE ~(p = pi /\ s = t)
    <3>1. pods'[p][s] = pods[p][s]
      BY <1>5, <2>1, <2>3 DEF TypeOK, ObjectsOK, PodsOf
    <3> QED BY <3>1 DEF Exists, Ages
  <2> QED BY <2>2, <2>3
<1>9. CASE \/ RejectPool \/ Begin \/ SkipPool \/ MarkMaintenance \/ MarkRunning
           \/ SaveRevision \/ PinZone \/ UnpinZone \/ WaitForOtherPods
           \/ StartDeleting \/ PodIsGone \/ EndDeleting \/ UpdateServiceAccount
           \/ BumpRevision \/ StartCreating \/ SeesNewPods
           \/ WaitForNewPodsTimesOut \/ AwaitPods \/ Finish
  BY <1>2, <1>9 DEF objects, RejectPool, Begin, SkipPool, MarkMaintenance, MarkRunning,
       SaveRevision, PinZone, UnpinZone, WaitForOtherPods, StartDeleting, PodIsGone,
       EndDeleting, UpdateServiceAccount, BumpRevision, StartCreating, SeesNewPods,
       WaitForNewPodsTimesOut, AwaitPods, Finish
<1>10. CASE ReconcileFails
  BY <1>2, <1>10 DEF objects, ReconcileFails, RejectCluster, DeletePodFails,
       ServiceAccountFails, VolumesFail, CreatePodFails, FinishFails, Crash
<1>11. ASSUME NEW q \in Pools,
              CacheSync(q) \/ EditTemplate(q) \/ EditCount(q) \/ EditAnnotations(q)
       PROVE  Kept
  BY <1>2, <1>11 DEF CacheSync, EditTemplate, EditCount, EditAnnotations, Edit
<1>12. ASSUME NEW q \in Pools, NEW t \in Slots,
              \/ BecomeReady(q, t) \/ MinReadySecondsPass(q, t) \/ Recover(q, t)
              \/ Fail(q, t)
       PROVE  Kept
  BY <1>4, <1>12 DEF BecomeReady, MinReadySecondsPass, Recover, Fail
<1>13. ASSUME NEW q \in Pools, NEW t \in Slots,
              DeleteByOthers(q, t) \/ ReplaceByHand(q, t)
       PROVE  Kept
  BY <1>3, <1>13 DEF DeleteByOthers, ReplaceByHand, Alive
<1>14. ASSUME NEW q \in Pools, NEW t \in Slots, Terminated(q, t)
       PROVE  Kept
  BY <1>14 DEF Terminated, Exists, TypeOK, ObjectsOK, PodsOf, Ages
<1>15. ASSUME NEW q \in Pools, NEW t \in Slots, Schedule(q, t)
       PROVE  Kept
  <2>1. pods[q][t] \in Pod /\ pods[q][t].zone = NoZone
    BY <1>15 DEF Schedule, Alive, Exists, TypeOK, ObjectsOK, PodsOf
  <2>2. PICK z \in Zones :
          pods' = [pods EXCEPT ![q][t].zone = z, ![q][t].phase = "pending"]
    BY <1>15 DEF Schedule
  <2>3. pods' = [pods EXCEPT ![q] = [pods[q] EXCEPT ![t] =
                   [pods[q][t] EXCEPT !.zone = z, !.phase = "pending"]]]
    BY <2>1, <2>2 DEF Pod, TypeOK, ObjectsOK, PodsOf
  <2> QED BY <1>15, <2>1, <2>3
          DEF Schedule, Alive, Exists, TypeOK, ObjectsOK, PodsOf, Pod, Ages
<1>16. CASE UNCHANGED vars
  BY <1>2, <1>16 DEF vars, objects
<1>17. CASE Environment
  BY <1>11, <1>12, <1>13, <1>14, <1>15, <1>17 DEF Environment
<1> QED
  BY <1>6, <1>7, <1>8, <1>9, <1>10, <1>16, <1>17 DEF Next, Reconcile

(***************************************************************************)
(* New pods are what the status says                                       *)
(***************************************************************************)
(* The entries the managers hold are those of the status, but for pools without nodes,
   whose entry may have been removed when the reconcile began. *)
MemKept ==
  pc # "idle" =>
    \A p \in Pools : mem[p].entry = status[p] \/ (~HasNodes(p) /\ status[p] = NoEntry)

(* The pools that this reconcile is done with comparing. *)
Examined(p) ==
  \/ pc \in {"provision", "annotated", "creating"}
  \/ pc = "mismatch" /\ p < pi
  \/ pc = "delete" /\ p <= pi

HashSaved ==
  \A p \in Pools : Examined(p) /\ AllowsMaintenance(p) => ~Unsaved(p)

CreatesForAllowed == pc = "creating" => HasNodes(pi) /\ AllowsMaintenance(pi)

(* A pool becomes examined in one of three ways. *)
LEMMA Examination ==
  ASSUME TypeOK, [Next]_vars, ~Begin, NEW p \in Pools, Examined(p)', ~Examined(p)
  PROVE  pc = "mismatch" /\ p = pi
         /\ \E v \in {"skip", "wait", "evict", "delete"} : Examine(v)
<1>1. pc' # "idle"
  BY DEF Examined
<1>2. pi \in Nat /\ p \in Nat /\ p <= PoolCount /\ PoolCount \in Nat
  BY PoolCountAssumption DEF TypeOK, OperatorOK, Pools
<1>3. CASE UNCHANGED operator \/ DeletePod \/ CreatePod
  BY <1>3 DEF operator, DeletePod, CreatePod, Examined
<1>4. CASE NextPool /\ (SkipPool \/ WaitForOtherPods \/ DeleteEvicted)
  BY <1>2, <1>4 DEF NextPool, Goto, Examined, Examine, SkipPool, WaitForOtherPods,
       DeleteEvicted
<1>5. CASE StartDeleting
  BY <1>2, <1>5 DEF StartDeleting, Examined, Examine
<1>6. CASE NextPool /\ pc = "delete"
  BY <1>2, <1>6 DEF NextPool, Goto, Examined
<1>7. CASE UpdateServiceAccount \/ StartCreating
  BY <1>7 DEF UpdateServiceAccount, StartCreating, Annotated, Examined
<1> QED BY <1>1, <1>3, <1>4, <1>5, <1>6, <1>7, Course

LEMMA StepKept ==
  ASSUME TypeOK, MemKept, [Next]_vars
  PROVE  MemKept'
<1>1. CASE pc' = "idle"
  BY <1>1 DEF MemKept
<1>2. CASE Begin
  <2>1. mem' = Snapshot
    BY <1>2 DEF Begin
  <2>2. ASSUME NEW p \in Pools
        PROVE  mem'[p].entry = status'[p] \/ (~HasNodes(p)' /\ status'[p] = NoEntry)
    <3>1. mem'[p] = [entry |-> status[p], pool |-> spec[p]]
      BY <2>1 DEF Snapshot
    <3>2. CASE Unused = {}
      <4>1. status' = status
        BY <1>2, <3>2 DEF Begin
      <4> QED BY <3>1, <4>1
    <3>3. CASE Unused # {}
      <4>1. PICK q \in Pools : /\ spec[q].count = 0
                               /\ status' = [status EXCEPT ![q] = NoEntry]
        BY <1>2, <3>3 DEF Begin, Unused
      <4>2. CASE p = q
        BY <3>1, <4>1, <4>2 DEF HasNodes, TypeOK, StatusOK
      <4>3. CASE p # q
        BY <3>1, <4>1, <4>3 DEF TypeOK, StatusOK
      <4> QED BY <4>2, <4>3
    <3> QED BY <3>2, <3>3
  <2> QED BY <2>2 DEF MemKept
<1>3. CASE pc' # "idle" /\ ~Begin
  <2>1. pc # "idle" /\ UNCHANGED <<status, mem>>
    BY <1>3, Course
  <2> QED BY <2>1 DEF MemKept, HasNodes
<1> QED BY <1>1, <1>2, <1>3

LEMMA StepSaved ==
  ASSUME TypeOK, HashSaved, [Next]_vars
  PROVE  HashSaved'
<1> SUFFICES ASSUME NEW p \in Pools, Examined(p)', AllowsMaintenance(p)'
             PROVE  ~Unsaved(p)'
  BY DEF HashSaved
<1>1. CASE Begin
  <2>1. pc' = "mismatch" /\ pi' = 1
    BY <1>1 DEF Begin, Goto
  <2>2. ~(p < 1)
    BY DEF Pools
  <2> QED BY <2>1, <2>2 DEF Examined
<1>2. CASE ~Begin
  <2>1. pc' # "idle"
    BY DEF Examined
  <2>2. UNCHANGED <<state, status, mem>>
    BY <1>2, <2>1, Course
  <2>3. AllowsMaintenance(p) /\ Unsaved(p)' = Unsaved(p)
    BY <2>2 DEF AllowsMaintenance, InMaintenance, Unsaved, PodHash
  <2>4. CASE Examined(p)
    BY <2>3, <2>4 DEF HashSaved
  <2>5. CASE ~Examined(p)
    <3>1. p = pi /\ \E v \in {"skip", "wait", "evict", "delete"} : Verdict(p) = v
      BY <1>2, <2>5, Examination DEF Examine
    <3>2. ~Unsaved(p)
      BY <2>3, <3>1 DEF Verdict
    <3> QED BY <2>3, <3>2
  <2> QED BY <2>4, <2>5
<1> QED BY <1>1, <1>2

LEMMA StepCreatesAllowed ==
  ASSUME TypeOK, CreatesForAllowed, [Next]_vars
  PROVE  CreatesForAllowed'
<1> SUFFICES ASSUME pc' = "creating"
             PROVE  (HasNodes(pi) /\ AllowsMaintenance(pi))'
  BY DEF CreatesForAllowed
<1>1. ~Begin
  BY DEF Begin, Goto
<1>2. UNCHANGED <<state, status, mem>>
  BY <1>1, Course
<1>3. ASSUME NEW p, HasNodes(p) /\ AllowsMaintenance(p)
      PROVE  (HasNodes(p) /\ AllowsMaintenance(p))'
  BY <1>2, <1>3 DEF HasNodes, AllowsMaintenance, InMaintenance
<1>4. CASE UNCHANGED operator \/ DeletePod \/ CreatePod
  BY <1>2, <1>4 DEF operator, DeletePod, CreatePod, CreatesForAllowed, HasNodes,
       AllowsMaintenance, InMaintenance
<1>5. CASE StartCreating
  <2>1. pi' \in Short
    BY <1>5, FirstPool DEF StartCreating, Short
  <2> QED BY <1>2, <2>1 DEF Short, HasNodes, AllowsMaintenance, InMaintenance
<1>6. CASE NextPool \/ StartDeleting \/ UpdateServiceAccount
  BY <1>6 DEF NextPool, Goto, StartDeleting, UpdateServiceAccount
<1> QED BY <1>1, <1>4, <1>5, <1>6, Course

SavedInv == MemKept /\ HashSaved /\ CreatesForAllowed

LEMMA SavedInvariant == Spec => []SavedInv
<1>1. Init => SavedInv
  BY DEF Init, SavedInv, MemKept, HashSaved, Examined, CreatesForAllowed
<1>2. TypeOK /\ SavedInv /\ [Next]_vars => SavedInv'
  BY StepKept, StepSaved, StepCreatesAllowed DEF SavedInv
<1> QED BY <1>1, <1>2, TypeCorrect, PTL DEF Spec

(* While pods are replaced, a pod is made only with the revision and the hash that the
   status has for its pool: for any edits, faults and pools, also pools without nodes. *)
THEOREM NewPodsMatchTheStatus == Spec => NewPodsAsSaved
<1> DEFINE Saved ==
      \A p \in Pools, s \in Slots :
        state \in Replacing /\ ~Exists(p, s) /\ pods'[p][s] # NoPod =>
          /\ pods'[p][s].rev = status[p].rev
          /\ PodHash(pods'[p][s].tmpl) = status[p].hash
<1>1. ASSUME TypeOK, SavedInv, [Next]_vars PROVE Saved
  <2> SUFFICES ASSUME NEW p \in Pools, NEW s \in Slots, state \in Replacing,
                      ~Exists(p, s), pods'[p][s] # NoPod
               PROVE  /\ pods'[p][s].rev = status[p].rev
                      /\ PodHash(pods'[p][s].tmpl) = status[p].hash
    OBVIOUS
  <2>1. CreatePod /\ p = pi /\ pods' = [pods EXCEPT ![p][s] = NewPod(p)]
    BY <1>1, PodChange
  <2>2. pods'[p][s] = NewPod(p)
    BY <1>1, <2>1 DEF TypeOK, ObjectsOK, PodsOf
  <2>3. pc = "creating" /\ HasNodes(p) /\ AllowsMaintenance(p)
    BY <1>1, <2>1 DEF CreatePod, SavedInv, CreatesForAllowed
  <2>4. mem[p].entry = status[p]
    BY <1>1, <2>3 DEF SavedInv, MemKept
  <2>5. PodHash(mem[p].pool.tmpl) = mem[p].entry.hash
    BY <1>1, <2>3 DEF SavedInv, HashSaved, Examined, Unsaved
  <2> QED BY <2>2, <2>4, <2>5 DEF NewPod, PodHash
<1>2. TypeOK /\ SavedInv /\ [Next]_vars => [Saved]_vars
  BY <1>1
<1> QED BY <1>2, TypeCorrect, SavedInvariant, PTL DEF Spec, NewPodsAsSaved

(***************************************************************************)
(* Counting                                                                *)
(***************************************************************************)
LEMMA SlotsAreFinite ==
  ASSUME NEW S \in SUBSET Slots
  PROVE  IsFiniteSet(S)
<1>1. IsFiniteSet(Slots)
  BY MaxPodsAssumption, 1 \in Int, MaxPods \in Int, FS_Interval DEF Slots
<1> QED BY <1>1, FS_Subset

LEMMA FewerSlots ==
  ASSUME NEW T \in SUBSET Slots, NEW S \in SUBSET T
  PROVE  Cardinality(S) <= Cardinality(T)
BY SlotsAreFinite, FS_Subset

LEMMA NoSlots ==
  ASSUME NEW S \in SUBSET Slots, Cardinality(S) = 0
  PROVE  S = {}
BY SlotsAreFinite, FS_EmptySet

LEMMA OneMoreSlot ==
  ASSUME NEW T \in SUBSET Slots, NEW x \in Slots, NEW S \in SUBSET (T \cup {x})
  PROVE  Cardinality(S) <= Cardinality(T) + 1
<1>1. T \cup {x} \in SUBSET Slots
  OBVIOUS
<1>2. Cardinality(T \cup {x}) <= Cardinality(T) + 1
  <2>1. IsFiniteSet(T) /\ Cardinality(T) \in Nat
    BY SlotsAreFinite, SlotCount
  <2>2. Cardinality(T \cup {x}) = IF x \in T THEN Cardinality(T) ELSE Cardinality(T) + 1
    BY <2>1, FS_AddElement
  <2> QED BY <2>1, <2>2
<1>3. Cardinality(S) \in Nat /\ Cardinality(T) \in Nat /\ Cardinality(T \cup {x}) \in Nat
  BY <1>1, SlotCount
<1>4. Cardinality(S) <= Cardinality(T \cup {x})
  BY <1>1, FewerSlots
<1> QED BY <1>2, <1>3, <1>4

LEMMA SlotsOfTwoKinds ==
  ASSUME NEW A \in SUBSET Slots, NEW B \in SUBSET Slots, NEW S \in SUBSET (A \cup B)
  PROVE  Cardinality(S) <= Cardinality(A) + Cardinality(B)
<1>1. A \cup B \in SUBSET Slots /\ A \cap B \in SUBSET Slots
  OBVIOUS
<1>2. Cardinality(A \cup B) = Cardinality(A) + Cardinality(B) - Cardinality(A \cap B)
  BY SlotsAreFinite, FS_Union
<1>3. /\ Cardinality(S) \in Nat /\ Cardinality(A) \in Nat /\ Cardinality(B) \in Nat
      /\ Cardinality(A \cup B) \in Nat /\ Cardinality(A \cap B) \in Nat
  BY <1>1, SlotCount
<1>4. Cardinality(S) <= Cardinality(A \cup B)
  BY <1>1, FewerSlots
<1> QED BY <1>2, <1>3, <1>4

(* No element of a finite set of numbers is above its Max. *)
LEMMA MaxIsLargest ==
  ASSUME NEW S \in SUBSET Nat, IsFiniteSet(S), NEW n \in S
  PROVE  Max(S) \in S /\ n <= Max(S)
<1> DEFINE Above(x) == {y \in S : y > x}
           T == {Above(x) : x \in S}
           R == StrictSubsetOrdering(S)
<1>1. IsWellFoundedOn(R, FiniteSubsetsOf(S))
  BY FS_StrictSubsetOrderingWellFounded
<1>2. T \subseteq FiniteSubsetsOf(S) /\ T # {}
  <2>1. \A x \in S : Above(x) \in SUBSET S
    OBVIOUS
  <2>2. SUBSET S = FiniteSubsetsOf(S)
    BY FS_FiniteSubsetsOfFinite
  <2>3. T \subseteq SUBSET S
    BY <2>1
  <2>4. Above(n) \in T
    OBVIOUS
  <2> HIDE DEF T
  <2> QED BY <2>2, <2>3, <2>4
<1>3. PICK B \in T : \A C \in T : <<C, B>> \notin R
  <2> HIDE DEF T, R
  <2> QED BY <1>1, <1>2, WFMin
<1>4. PICK x \in S : B = Above(x)
  OBVIOUS
<1>5. \A y \in S : x >= y
  <2> SUFFICES ASSUME NEW y \in S, y > x PROVE FALSE
    OBVIOUS
  <2>1. \A z \in S : z \in Int
    OBVIOUS
  <2>2. Above(y) \subseteq Above(x)
    <3> SUFFICES ASSUME NEW z \in S, z > y PROVE z > x
      OBVIOUS
    <3> QED BY <2>1
  <2>3. y \in Above(x) /\ y \notin Above(y)
    BY <2>1
  <2>4. <<Above(y), B>> \in R
    BY <2>2, <2>3, <1>4 DEF StrictSubsetOrdering
  <2> QED BY <2>4, <1>3
<1>6. Max(S) \in S /\ \A y \in S : Max(S) >= y
  BY <1>5 DEF Max
<1>7. n \in Nat /\ Max(S) \in Nat
  BY <1>6
<1> QED
  BY <1>6, <1>7

(***************************************************************************)
(* What the cache has of a pod                                             *)
(***************************************************************************)
(* A pod that is listed and still there was only ever younger. *)
ListedSame ==
  \A p \in Pools, s \in Slots :
    s \in Listed(p) /\ Exists(p, s) => Ages(View(p)[s], pods[p][s])

LEMMA AgesFurther ==
  ASSUME NEW a, NEW b, NEW c, Ages(a, b), Ages(b, c)
  PROVE  Ages(a, c)
BY DEF Ages

(* The list of a pool changes only by being read anew. *)
LEMMA ViewChange ==
  ASSUME TypeOK, [Next]_vars, NEW p \in Pools
  PROVE  View(p)' = View(p) \/ View(p)' = pods'[p]
<1>1. ASSUME UNCHANGED cache PROVE View(p)' = View(p) \/ View(p)' = pods'[p]
  BY <1>1 DEF View
<1>2. CASE Reconcile
  BY <1>1, <1>2 DEF objects, Reconcile, RejectPool, Begin, SkipPool, MarkMaintenance,
       MarkRunning, SaveRevision, DeleteEvicted, PinZone, UnpinZone, WaitForOtherPods,
       StartDeleting, DeletePod, PodIsGone, EndDeleting, UpdateServiceAccount,
       BumpRevision, StartCreating, CreatePod, SeesNewPods, WaitForNewPodsTimesOut,
       AwaitPods, Finish
<1>3. CASE Crash
  BY <1>3 DEF Crash, View
<1>4. CASE \/ RejectCluster \/ DeletePodFails \/ ServiceAccountFails \/ VolumesFail
           \/ CreatePodFails \/ FinishFails
  BY <1>1, <1>4 DEF objects, RejectCluster, DeletePodFails,
       ServiceAccountFails, VolumesFail, CreatePodFails, FinishFails
<1>5. ASSUME NEW q \in Pools, CacheSync(q)
      PROVE  View(p)' = View(p) \/ View(p)' = pods'[p]
  BY <1>5 DEF CacheSync, View, TypeOK, ObjectsOK, PodsOf
<1>6. CASE Environment
  <2>1. CASE \E q \in Pools : CacheSync(q)
    BY <1>5, <2>1
  <2>2. CASE ~ \E q \in Pools : CacheSync(q)
    <3>1. UNCHANGED cache
      BY <1>6, <2>2 DEF Environment, EditTemplate, EditCount, EditAnnotations,
         Edit, Schedule, BecomeReady, MinReadySecondsPass, Recover, Fail, PodMoves,
         Terminated, DeleteByOthers, ReplaceByHand
    <3> QED BY <1>1, <3>1
  <2> QED BY <2>1, <2>2
<1>7. CASE UNCHANGED vars
  BY <1>1, <1>7 DEF vars, objects
<1> QED
  BY <1>2, <1>3, <1>4, <1>6, <1>7 DEF Next, ReconcileFails

LEMMA StepListedSame ==
  ASSUME TypeOK, ListedSame, [Next]_vars
  PROVE  ListedSame'
<1> SUFFICES ASSUME NEW p \in Pools, NEW s \in Slots, View(p)'[s] # NoPod,
                    pods'[p][s] # NoPod
             PROVE  Ages(View(p)'[s], pods'[p][s])
  BY DEF ListedSame, Listed, Exists, Ages
<1>1. CASE View(p)' = pods'[p]
  BY <1>1 DEF Ages
<1>2. CASE View(p)' = View(p)
  <2>1. s \in Listed(p)
    BY <1>2 DEF Listed
  <2>2. Exists(p, s) /\ Ages(pods[p][s], pods'[p][s])
    BY <2>1, PodChange
  <2>3. Ages(View(p)[s], pods[p][s])
    BY <2>1, <2>2 DEF ListedSame
  <2> QED BY <1>2, <2>2, <2>3, AgesFurther
<1> QED BY <1>1, <1>2, ViewChange

LEMMA InitListedSame == Init => ListedSame
<1> SUFFICES ASSUME Init PROVE ListedSame
  OBVIOUS
<1>1. \A p \in Pools : View(p) = pods[p]
  BY DEF Init, View
<1> QED BY <1>1 DEF ListedSame, Ages

(***************************************************************************)
(* Every pod is listed, but for those that are being created               *)
(***************************************************************************)
Existing(p) == {s \in Slots : Exists(p, s)}
Unlisted(p) == Existing(p) \ Listed(p)
NewListed(p) ==
  {s \in Listed(p) : PodHash(View(p)[s].tmpl) = PodHash(mem[p].pool.tmpl)}

AllListed ==
  \A p \in Pools : Unlisted(p) = {} \/ (pc = "creating" /\ p = pi)

(* The new pods that are not listed yet are among those that are waited for. *)
NewAwaited ==
  CacheLag /\ pc = "creating" =>
    /\ \A s \in Unlisted(pi) : PodHash(pods[pi][s].tmpl) = PodHash(mem[pi].pool.tmpl)
    /\ Cardinality(NewListed(pi)) + Cardinality(Unlisted(pi)) <= expect

(* Creating pods ends in four ways. *)
LEMMA EndOfCreation ==
  ASSUME [Next]_vars, pc = "creating", pc' # "creating"
  PROVE  SeesNewPods \/ WaitForNewPodsTimesOut \/ CreatePodFails \/ Crash
<1>1. CASE Reconcile
  BY <1>1 DEF Reconcile, RejectPool, Begin, SkipPool, MarkMaintenance,
       MarkRunning, SaveRevision, DeleteEvicted, PinZone, UnpinZone, WaitForOtherPods,
       StartDeleting, DeletePod, PodIsGone, EndDeleting, UpdateServiceAccount,
       BumpRevision, StartCreating, CreatePod, Annotated, Created,
       AwaitPods, Finish, Examine
<1>2. CASE ReconcileFails
  BY <1>2 DEF ReconcileFails, RejectCluster, DeletePodFails, ServiceAccountFails,
       VolumesFail, FinishFails, Annotated, Created
<1>3. CASE Environment
  <2>1. UNCHANGED operator
    BY <1>3 DEF Environment, CacheSync, EditTemplate, EditCount, EditAnnotations,
         Edit, Schedule, BecomeReady, MinReadySecondsPass, Recover, Fail, PodMoves,
         Terminated, DeleteByOthers, ReplaceByHand
  <2> QED BY <2>1 DEF operator
<1>4. CASE UNCHANGED vars
  BY <1>4 DEF vars, operator
<1> QED BY <1>1, <1>2, <1>3, <1>4 DEF Next

(* It goes on for the same pool. *)
LEMMA CreationGoesOn ==
  ASSUME [Next]_vars, pc = "creating", pc' = "creating"
  PROVE  pi' = pi /\ UNCHANGED mem /\ (UNCHANGED operator \/ CreatePod)
<1>1. ~Begin
  BY DEF Begin
<1> QED
  BY <1>1, Course DEF operator, CreatePod, DeletePod, NextPool, Goto, StartDeleting,
       UpdateServiceAccount, StartCreating, Annotated

(* A list read anew has every pod. *)
LEMMA ReadAnew ==
  ASSUME NEW p \in Pools, View(p)' = pods'[p]
  PROVE  Unlisted(p)' = {}
BY DEF Unlisted, Existing, Listed, Exists

(* A list that is kept lacks no other pods than before and those just created. *)
LEMMA StillUnlisted ==
  ASSUME TypeOK, [Next]_vars, NEW p \in Pools, View(p)' = View(p), ~(CreatePod /\ p = pi)
  PROVE  /\ Existing(p)' \subseteq Existing(p)
         /\ Unlisted(p)' \subseteq Unlisted(p)
         /\ \A s \in Existing(p)' : Ages(pods[p][s], pods'[p][s])
<1>1. ASSUME NEW s \in Slots, pods'[p][s] # NoPod
      PROVE  Exists(p, s) /\ Ages(pods[p][s], pods'[p][s])
  BY <1>1, PodChange
<1> QED BY <1>1 DEF Existing, Unlisted, Listed, Exists

LEMMA StepAllListed ==
  ASSUME CacheLag => "create" \notin FaultKinds,
         TypeOK, AllListed, NewAwaited, [Next]_vars
  PROVE  AllListed'
<1> SUFFICES ASSUME NEW p \in Pools, ~(pc' = "creating" /\ p = pi')
             PROVE  Unlisted(p)' = {}
  BY DEF AllListed
<1>1. CASE View(p)' = pods'[p]
  BY <1>1, ReadAnew
<1>2. CASE View(p)' = View(p) /\ View(p)' # pods'[p]
  <2>1. CacheLag
    BY <1>2 DEF View
  <2>2. ~(CreatePod /\ p = pi)
    BY DEF CreatePod
  <2>3. Unlisted(p)' \subseteq Unlisted(p)
    BY <1>2, <2>2, StillUnlisted
  <2>4. CASE Unlisted(p) = {}
    BY <2>3, <2>4
  <2>5. CASE pc = "creating" /\ p = pi
    <3>1. pc' # "creating"
      BY <2>5, CreationGoesOn
    <3>2. CASE SeesNewPods
      <4>1. WithNewHash(p) = Cardinality(NewListed(p))
        BY DEF WithNewHash, NewListed
      <4>2. Cardinality(NewListed(p)) >= expect
        BY <2>5, <3>2, <4>1 DEF SeesNewPods
      <4>3. Cardinality(NewListed(p)) + Cardinality(Unlisted(p)) <= expect
        BY <2>1, <2>5 DEF NewAwaited
      <4>4. NewListed(p) \in SUBSET Slots /\ Unlisted(p) \in SUBSET Slots
        BY DEF NewListed, Listed, Unlisted, Existing
      <4>5. /\ Cardinality(NewListed(p)) \in Nat /\ Cardinality(Unlisted(p)) \in Nat
            /\ expect \in Nat
        BY <4>4, SlotCount DEF TypeOK, OperatorOK
      <4>6. Cardinality(Unlisted(p)) = 0
        BY <4>2, <4>3, <4>5
      <4> QED BY <2>3, <4>4, <4>6, NoSlots
    <3>3. CASE WaitForNewPodsTimesOut
      <4>1. View(p) = pods[p] /\ UNCHANGED pods
        BY <2>5, <3>3 DEF WaitForNewPodsTimesOut, objects
      <4> QED BY <1>2, <4>1
    <3>4. CASE CreatePodFails
      BY <2>1, <3>4 DEF CreatePodFails, Fault
    <3>5. CASE Crash
      BY <1>2, <2>1, <3>5 DEF Crash, View
    <3> QED BY <2>5, <3>1, <3>2, <3>3, <3>4, <3>5, EndOfCreation
  <2> QED BY <2>4, <2>5 DEF AllListed
<1> QED BY <1>1, <1>2, ViewChange

LEMMA StepNewAwaited ==
  ASSUME TypeOK, ListedSame, AllListed, NewAwaited, [Next]_vars
  PROVE  NewAwaited'
<1> SUFFICES ASSUME CacheLag, pc' = "creating"
             PROVE  /\ \A s \in Unlisted(pi)' :
                         (PodHash(pods[pi][s].tmpl) = PodHash(mem[pi].pool.tmpl))'
                    /\ (Cardinality(NewListed(pi)) + Cardinality(Unlisted(pi)) <= expect)'
  BY DEF NewAwaited
<1>1. pi \in Pools /\ pi' \in Pools /\ expect \in Nat
  BY StepType DEF TypeOK, OperatorOK
<1>2. /\ NewListed(pi) \in SUBSET Slots /\ Unlisted(pi) \in SUBSET Slots
      /\ NewListed(pi)' \in SUBSET Slots /\ Unlisted(pi)' \in SUBSET Slots
  BY DEF NewListed, Unlisted, Existing, Listed
<1>3. /\ Cardinality(NewListed(pi)) \in Nat /\ Cardinality(Unlisted(pi)) \in Nat
      /\ Cardinality(NewListed(pi)') \in Nat /\ Cardinality(Unlisted(pi)') \in Nat
  BY <1>2, SlotCount
<1>4. CASE pc = "creating"
  <2>1. pi' = pi /\ mem' = mem /\ (UNCHANGED operator \/ CreatePod)
    BY <1>4, CreationGoesOn
  <2>2. /\ \A s \in Unlisted(pi) : PodHash(pods[pi][s].tmpl) = PodHash(mem[pi].pool.tmpl)
        /\ Cardinality(NewListed(pi)) + Cardinality(Unlisted(pi)) <= expect
    BY <1>4 DEF NewAwaited
  <2>3. CASE CreatePod
    <3>1. PICK s \in Slots : pods' = [pods EXCEPT ![pi][s] = NewPod(pi)]
      BY <2>3 DEF CreatePod, NewPod
    <3>2. View(pi)' = View(pi) /\ expect' = expect + 1
      BY <2>1, <2>3 DEF CreatePod, View
    <3>3. NewListed(pi)' = NewListed(pi)
      BY <2>1, <3>2 DEF NewListed, Listed, PodHash
    <3>4. Unlisted(pi)' \in SUBSET (Unlisted(pi) \cup {s})
      BY <1>1, <2>1, <3>1, <3>2
         DEF Unlisted, Existing, Exists, Listed, TypeOK, ObjectsOK, PodsOf
    <3>5. Cardinality(Unlisted(pi)') <= Cardinality(Unlisted(pi)) + 1
      BY <1>2, <3>4, OneMoreSlot
    <3>6. ASSUME NEW t \in Unlisted(pi)'
          PROVE  PodHash(pods'[pi][t].tmpl) = PodHash(mem[pi].pool.tmpl)
      <4>1. CASE t = s
        BY <1>1, <3>1, <4>1 DEF TypeOK, ObjectsOK, PodsOf, NewPod
      <4>2. CASE t # s
        BY <1>1, <2>2, <3>1, <3>4, <4>2 DEF TypeOK, ObjectsOK, PodsOf
      <4> QED BY <4>1, <4>2
    <3>7. Cardinality(NewListed(pi)') + Cardinality(Unlisted(pi)') <= expect'
      BY <1>1, <1>3, <2>2, <3>2, <3>3, <3>5
    <3> QED BY <2>1, <3>6, <3>7 DEF PodHash
  <2>4. CASE UNCHANGED operator /\ ~CreatePod
    <3>1. expect' = expect
      BY <2>4 DEF operator
    <3>2. CASE View(pi)' = View(pi)
      <4>1. /\ Unlisted(pi)' \subseteq Unlisted(pi) /\ Existing(pi)' \subseteq Existing(pi)
            /\ \A s \in Existing(pi)' : Ages(pods[pi][s], pods'[pi][s])
        BY <1>1, <2>1, <2>4, <3>2, StillUnlisted DEF Unlisted, Existing, Listed, Exists
      <4>2. NewListed(pi)' = NewListed(pi)
        BY <2>1, <3>2 DEF NewListed, Listed, PodHash
      <4>3. Cardinality(Unlisted(pi)') <= Cardinality(Unlisted(pi))
        BY <1>2, <4>1, FewerSlots
      <4>4. ASSUME NEW t \in Unlisted(pi)'
            PROVE  PodHash(pods'[pi][t].tmpl) = PodHash(mem[pi].pool.tmpl)
        <5>1. t \in Unlisted(pi) /\ t \in Existing(pi)'
          BY <4>1, <4>4 DEF Unlisted
        <5>2. pods'[pi][t].tmpl = pods[pi][t].tmpl
          BY <4>1, <5>1 DEF Ages
        <5> QED BY <2>2, <5>1, <5>2
      <4>5. Cardinality(NewListed(pi)') + Cardinality(Unlisted(pi)') <= expect'
        BY <1>1, <1>3, <2>2, <3>1, <4>2, <4>3
      <4> QED BY <2>1, <4>4, <4>5 DEF PodHash
    <3>3. CASE View(pi)' = pods'[pi]
      <4>1. Unlisted(pi)' = {}
        BY <1>1, <2>1, <3>3, ReadAnew DEF Unlisted, Existing, Listed, Exists
      <4>2. ASSUME NEW s \in NewListed(pi)'
            PROVE  s \in NewListed(pi) \cup Unlisted(pi)
        <5>1. s \in Slots /\ pods'[pi][s] # NoPod
          BY <2>1, <3>3, <4>2 DEF NewListed, Listed
        <5>2. PodHash(pods'[pi][s].tmpl) = PodHash(mem[pi].pool.tmpl)
          BY <2>1, <3>3, <4>2 DEF NewListed, PodHash
        <5>3. Exists(pi, s) /\ pods'[pi][s].tmpl = pods[pi][s].tmpl
          BY <1>1, <2>4, <5>1, PodChange DEF Ages
        <5>4. CASE s \in Listed(pi)
          <6>1. View(pi)[s].tmpl = pods[pi][s].tmpl
            BY <1>1, <5>1, <5>3, <5>4 DEF ListedSame, Ages
          <6> QED BY <5>2, <5>3, <5>4, <6>1 DEF NewListed
        <5>5. CASE s \notin Listed(pi)
          BY <5>1, <5>3, <5>5 DEF Unlisted, Existing
        <5> QED BY <5>4, <5>5
      <4>3. Cardinality(NewListed(pi)') <=
              Cardinality(NewListed(pi)) + Cardinality(Unlisted(pi))
        <5>1. NewListed(pi)' \in SUBSET (NewListed(pi) \cup Unlisted(pi))
          BY <4>2
        <5> QED BY <1>2, <5>1, SlotsOfTwoKinds
      <4>4. Cardinality(Unlisted(pi)') = 0
        BY <4>1, FS_EmptySet
      <4>5. Cardinality(NewListed(pi)') + Cardinality(Unlisted(pi)') <= expect'
        BY <1>1, <1>3, <2>2, <3>1, <4>3, <4>4
      <4> QED BY <4>1, <4>5
    <3> QED BY <1>1, <3>2, <3>3, <2>1, ViewChange
  <2> QED BY <2>1, <2>3, <2>4
<1>5. CASE pc # "creating"
  <2>1. StartCreating /\ mem' = mem
    <3>1. ~Begin
      BY DEF Begin, Goto
    <3> QED
      BY <1>5, <3>1, Course DEF operator, DeletePod, CreatePod, NextPool, Goto,
         StartDeleting, UpdateServiceAccount
  <2>2. UNCHANGED <<pods, cache>> /\ expect' = WithNewHash(pi')
    BY <2>1 DEF StartCreating, objects
  <2>3. Unlisted(pi)' = {}
    <3>1. Unlisted(pi') = {}
      BY <1>1, <1>5 DEF AllListed
    <3> QED BY <2>2, <3>1 DEF Unlisted, Existing, Exists, Listed, View
  <2>4. Cardinality(NewListed(pi)') = expect'
    BY <2>1, <2>2 DEF NewListed, WithNewHash, Listed, View, PodHash
  <2>5. Cardinality(Unlisted(pi)') = 0
    BY <2>3, FS_EmptySet
  <2> QED BY <1>3, <2>3, <2>4, <2>5
<1> QED BY <1>4, <1>5

(***************************************************************************)
(* No more pods than nodes                                                 *)
(***************************************************************************)
(* What is left to create fits in the pool. *)
Room == pc = "creating" => Cardinality(Existing(pi)) + left <= mem[pi].pool.count

LEMMA ExistingChange ==
  ASSUME TypeOK, [Next]_vars, NEW p \in Pools
  PROVE  \/ Existing(p)' \subseteq Existing(p)
         \/ CreatePod /\ p = pi /\ \E s \in Slots : Existing(p)' \subseteq Existing(p) \cup {s}
<1>1. CASE CreatePod /\ p = pi
  <2>1. PICK s \in Slots : pods' = [pods EXCEPT ![p][s] = NewPod(p)]
    BY <1>1 DEF CreatePod, NewPod
  <2>2. Existing(p)' \subseteq Existing(p) \cup {s}
    BY <2>1 DEF Existing, Exists, TypeOK, ObjectsOK, PodsOf
  <2> QED BY <1>1, <2>2
<1>2. CASE ~(CreatePod /\ p = pi)
  BY <1>2, PodChange DEF Existing, Exists
<1> QED BY <1>1, <1>2

LEMMA ExistingCount ==
  ASSUME NEW p \in Pools
  PROVE  /\ Existing(p) \in SUBSET Slots /\ Existing(p)' \in SUBSET Slots
         /\ Cardinality(Existing(p)) \in Nat /\ Cardinality(Existing(p)') \in Nat
<1>1. Existing(p) \in SUBSET Slots /\ Existing(p)' \in SUBSET Slots
  BY DEF Existing
<1> QED BY <1>1, SlotCount

LEMMA StepRoom ==
  ASSUME TypeOK, AllListed, Room, [Next]_vars
  PROVE  Room'
<1> SUFFICES ASSUME pc' = "creating"
             PROVE  (Cardinality(Existing(pi)) + left <= mem[pi].pool.count)'
  BY DEF Room
<1>1. pi \in Pools /\ pi' \in Pools /\ left \in Nat
  BY StepType DEF TypeOK, OperatorOK
<1>2. \A p \in Pools : mem[p].pool.count \in Nat
  BY CountsAssumption DEF TypeOK, OperatorOK, Manager, PoolSpec
<1>3. CASE pc = "creating"
  <2>1. pi' = pi /\ mem' = mem /\ (UNCHANGED operator \/ CreatePod)
    BY <1>3, CreationGoesOn
  <2>2. (Existing(pi))' = Existing(pi)' /\ Existing(pi)' = {s \in Slots : pods'[pi][s] # NoPod}
    BY <2>1 DEF Existing, Exists
  <2>3. Cardinality(Existing(pi)) + left <= mem[pi].pool.count
    BY <1>3 DEF Room
  <2>4. CASE CreatePod
    <3>1. left' = left - 1
      BY <2>4 DEF CreatePod
    <3>2. PICK s \in Slots : {t \in Slots : pods'[pi][t] # NoPod} \subseteq Existing(pi) \cup {s}
      <4>1. PICK s \in Slots : pods' = [pods EXCEPT ![pi][s] = NewPod(pi)]
        BY <2>4 DEF CreatePod, NewPod
      <4> QED BY <1>1, <4>1 DEF Existing, Exists, TypeOK, ObjectsOK, PodsOf
    <3>3. Cardinality(Existing(pi)') <= Cardinality(Existing(pi)) + 1
      BY <1>1, <2>2, <3>2, ExistingCount, OneMoreSlot
    <3>4. Cardinality(Existing(pi)) \in Nat /\ Cardinality(Existing(pi)') \in Nat
      BY <1>1, <2>2, ExistingCount, SlotCount
    <3> QED BY <1>1, <1>2, <2>1, <2>3, <3>1, <3>3, <3>4
  <2>5. CASE UNCHANGED operator /\ ~CreatePod
    <3>1. {t \in Slots : pods'[pi][t] # NoPod} \subseteq Existing(pi)
      BY <1>1, <2>5, PodChange DEF Existing, Exists
    <3>2. Cardinality(Existing(pi)') <= Cardinality(Existing(pi))
      BY <1>1, <2>2, <3>1, ExistingCount, FewerSlots
    <3>3. left' = left
      BY <2>5 DEF operator
    <3>4. Cardinality(Existing(pi)) \in Nat /\ Cardinality(Existing(pi)') \in Nat
      BY <1>1, <2>2, ExistingCount, SlotCount
    <3> QED BY <1>1, <1>2, <2>1, <2>3, <3>2, <3>3, <3>4
  <2> QED BY <2>1, <2>4, <2>5
<1>4. CASE pc # "creating"
  <2>1. StartCreating /\ mem' = mem
    <3>1. ~Begin
      BY DEF Begin, Goto
    <3> QED
      BY <1>4, <3>1, Course DEF operator, DeletePod, CreatePod, NextPool, Goto,
         StartDeleting, UpdateServiceAccount
  <2>2. pods' = pods /\ left' = mem[pi'].pool.count - Cardinality(Listed(pi'))
    BY <2>1 DEF StartCreating, objects
  <2>3. Existing(pi)' = Existing(pi')
    BY <2>2 DEF Existing, Exists
  <2>4. Existing(pi') \in SUBSET Listed(pi')
    <3>1. Unlisted(pi') = {}
      BY <1>1, <1>4 DEF AllListed
    <3> QED BY <3>1 DEF Unlisted
  <2>5. Listed(pi') \in SUBSET Slots
    BY DEF Listed
  <2>6. /\ Cardinality(Existing(pi')) <= Cardinality(Listed(pi'))
        /\ Cardinality(Existing(pi')) \in Nat /\ Cardinality(Listed(pi')) \in Nat
    BY <1>1, <2>4, <2>5, FewerSlots, SlotCount
  <2> QED BY <1>1, <1>2, <2>1, <2>2, <2>3, <2>6
<1> QED BY <1>3, <1>4

NoMoreThanNodes == \A p \in Pools : Cardinality(Existing(p)) <= Max(Counts)

LEMMA CountIsBounded ==
  ASSUME IsFiniteSet(Counts), NEW n \in Counts
  PROVE  n \in Nat /\ Max(Counts) \in Nat /\ n <= Max(Counts)
BY CountsAssumption, MaxIsLargest

LEMMA StepNoMore ==
  ASSUME IsFiniteSet(Counts), TypeOK, Room, NoMoreThanNodes, [Next]_vars
  PROVE  NoMoreThanNodes'
<1> SUFFICES ASSUME NEW p \in Pools PROVE Cardinality(Existing(p)') <= Max(Counts)
  BY DEF NoMoreThanNodes
<1>1. Max(Counts) \in Nat
  BY CountsAssumption, CountIsBounded
<1>2. Cardinality(Existing(p)) <= Max(Counts)
  BY DEF NoMoreThanNodes
<1>3. Cardinality(Existing(p)) \in Nat /\ Cardinality(Existing(p)') \in Nat
  BY ExistingCount
<1>4. CASE Existing(p)' \subseteq Existing(p)
  <2>1. Cardinality(Existing(p)') <= Cardinality(Existing(p))
    BY <1>4, ExistingCount, FewerSlots
  <2> QED BY <1>1, <1>2, <1>3, <2>1
<1>5. CASE /\ CreatePod /\ p = pi
           /\ \E s \in Slots : Existing(p)' \subseteq Existing(p) \cup {s}
  <2>1. Cardinality(Existing(p)') <= Cardinality(Existing(p)) + 1
    BY <1>5, ExistingCount, OneMoreSlot
  <2>2. Cardinality(Existing(p)) + left <= mem[p].pool.count /\ left > 0 /\ left \in Nat
    BY <1>5 DEF CreatePod, Room, TypeOK, OperatorOK
  <2>3. mem[p].pool.count \in Nat /\ mem[p].pool.count <= Max(Counts)
    BY CountIsBounded DEF TypeOK, OperatorOK, Manager, PoolSpec
  <2> QED BY <1>1, <1>3, <2>1, <2>2, <2>3
<1> QED BY <1>4, <1>5, ExistingChange

LEMMA InitNoMore ==
  ASSUME IsFiniteSet(Counts), Init
  PROVE  NoMoreThanNodes
<1> SUFFICES ASSUME NEW p \in Pools PROVE Cardinality(Existing(p)) <= Max(Counts)
  BY DEF NoMoreThanNodes
<1>1. spec[p].count \in Counts
  BY DEF Init, PoolSpec
<1>2. /\ spec[p].count \in Nat /\ Max(Counts) \in Nat
      /\ spec[p].count <= Max(Counts)
  BY <1>1, CountIsBounded
<1>3. Existing(p) \in SUBSET (1..spec[p].count)
  <2>1. ASSUME NEW s \in Slots, Exists(p, s) PROVE ~(s > spec[p].count)
    <3>1. CASE Settled
      <4>1. PICK place \in [Slots -> Zones] :
              pods = [q \in Pools |-> [t \in Slots |->
                 IF t > spec[q].count THEN NoPod
                 ELSE [rev |-> 1, tmpl |-> spec[q].tmpl, zone |-> place[t],
                       phase |-> "ready", deleting |-> FALSE]]]
        BY <3>1 DEF Init
      <4> QED BY <2>1, <4>1 DEF Exists
    <3>2. CASE ~Settled
      <4>1. pods = [q \in Pools |-> [t \in Slots |-> NoPod]]
        BY <3>2 DEF Init
      <4> QED BY <2>1, <4>1 DEF Exists
    <3> QED BY <3>1, <3>2
  <2>2. \A s \in Slots : s \in Nat /\ 1 <= s
    BY MaxPodsAssumption DEF Slots
  <2> QED BY <1>2, <2>1, <2>2 DEF Existing
<1>4. Cardinality(Existing(p)) <= spec[p].count
  <2>1. IsFiniteSet(1..spec[p].count) /\ Cardinality(1..spec[p].count) = spec[p].count
    <3>1. 1 \in Int /\ spec[p].count \in Int
      BY <1>2
    <3>2. IsFiniteSet(1..spec[p].count) /\ Cardinality(1..spec[p].count) =
             IF 1 > spec[p].count THEN 0 ELSE spec[p].count - 1 + 1
      BY <3>1, FS_Interval
    <3> QED BY <1>2, <3>2
  <2> QED BY <1>3, <2>1, FS_Subset
<1>5. Cardinality(Existing(p)) \in Nat
  BY ExistingCount
<1> QED BY <1>2, <1>4, <1>5

ListInv == ListedSame /\ AllListed /\ NewAwaited

LEMMA ListInvariant ==
  ASSUME CacheLag => "create" \notin FaultKinds
  PROVE  Spec => []ListInv
<1>1. Init => ListInv
  <2> SUFFICES ASSUME Init PROVE ListInv
    OBVIOUS
  <2>1. \A p \in Pools : Unlisted(p) = {}
    BY DEF Init, View, Unlisted, Existing, Exists, Listed
  <2> QED BY <2>1, InitListedSame DEF Init, ListInv, AllListed, NewAwaited
<1>2. TypeOK /\ ListInv /\ [Next]_vars => ListInv'
  BY StepListedSame, StepAllListed, StepNewAwaited DEF ListInv
<1> QED BY <1>1, <1>2, TypeCorrect, PTL DEF Spec

(* However old the list of pods is that a reconcile counts on, it never makes more pods
   than a pool has had nodes: waitForNewPods does not return before the pods it made are
   listed. The exception is the creation that fails after a first pod was made, which
   does not wait for that one. *)
THEOREM PodsWithinNodes ==
  ASSUME CacheLag => "create" \notin FaultKinds, IsFiniteSet(Counts)
  PROVE  Spec => []NoSurplus
<1>1. Init => Room /\ NoMoreThanNodes
  BY InitNoMore DEF Init, Room
<1>2. TypeOK /\ ListInv /\ Room /\ NoMoreThanNodes /\ [Next]_vars
        => Room' /\ NoMoreThanNodes'
  BY StepRoom, StepNoMore DEF ListInv
<1>3. NoMoreThanNodes => NoSurplus
  BY DEF NoMoreThanNodes, NoSurplus, Existing
<1> QED BY <1>1, <1>2, <1>3, TypeCorrect, ListInvariant, PTL DEF Spec

(***************************************************************************)
(* A pool settles when its pods are alike                                  *)
(***************************************************************************)
(* An entry with no revision has no hash either. *)
Named(e) == e.rev = 0 => e.hash = NoHash

EntriesNamed == \A p \in Pools : Named(status[p])
ManagersNamed == pc # "idle" => \A p \in Pools : Named(mem[p].entry)
PodsNamed == \A p \in Pools, s \in Slots : Exists(p, s) => pods[p][s].rev > 0
ListedNamed == \A p \in Pools : \A s \in Listed(p) : View(p)[s].rev > 0

NamedInv == EntriesNamed /\ ManagersNamed /\ PodsNamed /\ ListedNamed

LEMMA WriteNamed ==
  ASSUME StatusOK, EntriesNamed, NEW p \in Pools, NEW st, NEW rev, NEW hash, NEW zone,
         rev = 0 => hash = NoHash, WriteEntry(p, st, rev, hash, zone)
  PROVE  EntriesNamed'
BY DEF StatusOK, EntriesNamed, WriteEntry, Named

LEMMA StepEntriesNamed ==
  ASSUME TypeOK, EntriesNamed, ManagersNamed, [Next]_vars
  PROVE  EntriesNamed'
<1>1. ASSUME UNCHANGED status PROVE EntriesNamed'
  BY <1>1 DEF EntriesNamed, Named
<1>2. pi \in Pools
  BY DEF TypeOK, OperatorOK
<1>3. ASSUME pc # "idle", NEW p \in Pools, NEW st, NEW zone, WriteState(p, st, zone)
      PROVE  EntriesNamed'
  BY <1>3, WriteNamed DEF WriteState, ManagersNamed, Named, TypeOK
<1>4. ASSUME NEW st, NEW hash, NEW zone, WriteEntry(pi, st, mem[pi].entry.rev + 1, hash, zone)
      PROVE  EntriesNamed'
  <2>1. mem[pi].entry.rev \in Nat
    BY <1>2 DEF TypeOK, OperatorOK, Manager, Entry
  <2>2. mem[pi].entry.rev + 1 # 0
    BY <2>1
  <2> QED BY <1>2, <1>4, <2>2, WriteNamed DEF TypeOK
<1>5. CASE RejectPool
  <2>1. Min(Invalid) \in Pools
    BY <1>5, FirstPool DEF RejectPool, Invalid
  <2>2. Named(status[Min(Invalid)])
    BY <2>1 DEF EntriesNamed
  <2> QED BY <1>5, <2>1, <2>2, WriteNamed DEF RejectPool, TypeOK, Named
<1>6. CASE MarkMaintenance \/ MarkRunning \/ UnpinZone
  BY <1>2, <1>3, <1>6 DEF MarkMaintenance, MarkRunning, UnpinZone, Examine
<1>7. CASE SaveRevision \/ BumpRevision
  BY <1>4, <1>7 DEF SaveRevision, BumpRevision
<1>8. CASE PinZone
  <2>1. PICK zone : WriteState(pi, mem[pi].entry.state, zone)
    BY <1>8 DEF PinZone
  <2> QED BY <1>2, <1>3, <1>8, <2>1 DEF PinZone, Examine
<1>9. CASE ServiceAccountFails
  BY <1>3, <1>9 DEF ServiceAccountFails
<1>10. CASE VolumesFail
  BY <1>1, <1>3, <1>10 DEF VolumesFail, Annotated
<1>11. CASE Begin
  <2>1. Named(NoEntry)
    BY DEF Named, NoEntry
  <2>2. UNCHANGED status \/ \E p \in Pools : status' = [status EXCEPT ![p] = NoEntry]
    BY <1>11 DEF Begin, Unused
  <2> QED BY <2>1, <2>2 DEF EntriesNamed, Named, TypeOK, StatusOK
<1>12. CASE \/ SkipPool \/ DeleteEvicted \/ WaitForOtherPods \/ StartDeleting
            \/ DeletePod \/ PodIsGone \/ EndDeleting \/ UpdateServiceAccount
            \/ StartCreating \/ CreatePod \/ SeesNewPods \/ WaitForNewPodsTimesOut
            \/ AwaitPods \/ Finish
  BY <1>1, <1>12 DEF SkipPool, DeleteEvicted, WaitForOtherPods, StartDeleting, DeletePod,
       PodIsGone, EndDeleting, UpdateServiceAccount, StartCreating, CreatePod,
       SeesNewPods, WaitForNewPodsTimesOut, AwaitPods, Finish
<1>13. CASE \/ RejectCluster \/ DeletePodFails \/ CreatePodFails \/ FinishFails \/ Crash
  BY <1>1, <1>13 DEF RejectCluster, DeletePodFails, CreatePodFails, FinishFails, Crash
<1>14. CASE Environment
  BY <1>1, <1>14 DEF Environment, CacheSync, EditTemplate, EditCount, EditAnnotations,
       Edit, Schedule, BecomeReady, MinReadySecondsPass, Recover, Fail, PodMoves,
       Terminated, DeleteByOthers, ReplaceByHand
<1>15. CASE UNCHANGED vars
  BY <1>1, <1>15 DEF vars
<1> QED
  BY <1>5, <1>6, <1>7, <1>8, <1>9, <1>10, <1>11, <1>12, <1>13, <1>14, <1>15
     DEF Next, Reconcile, ReconcileFails

LEMMA StepManagersNamed ==
  ASSUME EntriesNamed, ManagersNamed, [Next]_vars
  PROVE  ManagersNamed'
<1> SUFFICES ASSUME pc' # "idle", NEW p \in Pools PROVE Named(mem[p].entry)'
  BY DEF ManagersNamed
<1>1. CASE Begin
  BY <1>1 DEF Begin, Snapshot, EntriesNamed, Named
<1>2. CASE ~Begin
  BY <1>2, Course DEF ManagersNamed, Named
<1> QED BY <1>1, <1>2

(* A pod is made only once the pool has a revision. *)
LEMMA StepPodsNamed ==
  ASSUME TypeOK, SavedInv, NamedInv, [Next]_vars
  PROVE  PodsNamed'
<1> SUFFICES ASSUME NEW p \in Pools, NEW s \in Slots, pods'[p][s] # NoPod
             PROVE  pods'[p][s].rev > 0
  BY DEF PodsNamed, Exists
<1>1. CASE Exists(p, s) /\ Ages(pods[p][s], pods'[p][s])
  BY <1>1 DEF NamedInv, PodsNamed, Ages
<1>2. CASE CreatePod /\ p = pi /\ pods' = [pods EXCEPT ![p][s] = NewPod(p)]
  <2>1. pods'[p][s].rev = mem[p].entry.rev
    BY <1>2 DEF NewPod, TypeOK, ObjectsOK, PodsOf
  <2>2. pc = "creating"
    BY <1>2 DEF CreatePod
  <2>3. ~Unsaved(p)
    BY <1>2, <2>2 DEF SavedInv, HashSaved, CreatesForAllowed, Examined
  <2>4. Named(mem[p].entry) /\ mem[p].entry.rev \in Nat
    BY <2>2 DEF NamedInv, ManagersNamed, TypeOK, OperatorOK, Manager, Entry
  <2>5. PodHash(mem[p].pool.tmpl) # NoHash
    BY DEF PodHash, NoHash
  <2>6. mem[p].entry.rev # 0
    BY <2>3, <2>4, <2>5 DEF Unsaved, Named
  <2> QED BY <2>1, <2>4, <2>6
<1> QED BY <1>1, <1>2, PodChange

LEMMA StepListedNamed ==
  ASSUME TypeOK, PodsNamed', NamedInv, [Next]_vars
  PROVE  ListedNamed'
<1> SUFFICES ASSUME NEW p \in Pools, NEW s \in Listed(p)'
             PROVE  View(p)'[s].rev > 0
  BY DEF ListedNamed
<1>1. s \in Slots /\ View(p)'[s] # NoPod
  BY DEF Listed
<1>2. CASE View(p)' = pods'[p]
  BY <1>1, <1>2 DEF PodsNamed, Exists
<1>3. CASE View(p)' = View(p)
  BY <1>1, <1>3 DEF NamedInv, ListedNamed, Listed
<1> QED BY <1>2, <1>3, ViewChange

(* A settled cluster has an entry for each pool with nodes, and only for those. *)
LEMMA SettledEntry ==
  ASSUME Init, Settled, NEW p \in Pools
  PROVE  /\ spec[p].count = 0 => status[p] = NoEntry
         /\ spec[p].count # 0 => status[p].rev = 1 /\ status[p].state = "Running"
<1>1. status[p] = IF spec[p].count = 0 THEN NoEntry
                  ELSE [state |-> "Running", rev |-> 1,
                        hash |-> PodHash(spec[p].tmpl), zone |-> NoZone]
  BY DEF Init
<1> QED BY <1>1

LEMMA InitNamed == Init => NamedInv
<1> SUFFICES ASSUME Init PROVE NamedInv
  OBVIOUS
<1>1. pc = "idle" /\ \A p \in Pools : View(p) = pods[p]
  BY DEF Init, View
<1>2. EntriesNamed
  <2> SUFFICES ASSUME NEW p \in Pools PROVE Named(status[p])
    BY DEF EntriesNamed
  <2>n. Named(NoEntry)
    BY DEF Named, NoEntry
  <2>1. CASE Settled
    <3>1. status[p] = NoEntry \/ status[p].rev = 1
      BY <2>1, SettledEntry
    <3>2. CASE status[p] = NoEntry
      BY <2>n, <3>2
    <3>3. CASE status[p].rev = 1
      BY <3>3 DEF Named
    <3> QED BY <3>1, <3>2, <3>3
  <2>2. CASE ~Settled
    <3>1. status = [q \in Pools |-> NoEntry]
      BY <2>2 DEF Init
    <3>2. status[p] = NoEntry
      BY <3>1
    <3> QED BY <2>n, <3>2
  <2> QED BY <2>1, <2>2
<1>3. PodsNamed
  <2>1. CASE Settled
    <3>1. PICK place \in [Slots -> Zones] :
            pods = [q \in Pools |-> [t \in Slots |->
                   IF t > spec[q].count THEN NoPod
                   ELSE [rev |-> 1, tmpl |-> spec[q].tmpl, zone |-> place[t],
                         phase |-> "ready", deleting |-> FALSE]]]
      BY <2>1 DEF Init
    <3>2. ASSUME NEW p \in Pools, NEW s \in Slots PROVE pods[p][s] = NoPod \/ pods[p][s].rev = 1
      BY <3>1
    <3> QED BY <3>2 DEF PodsNamed, Exists
  <2>2. CASE ~Settled
    <3>1. pods = [q \in Pools |-> [t \in Slots |-> NoPod]]
      BY <2>2 DEF Init
    <3> QED BY <3>1 DEF PodsNamed, Exists
  <2> QED BY <2>1, <2>2
<1> QED BY <1>1, <1>2, <1>3 DEF NamedInv, ManagersNamed, PodsNamed, ListedNamed, Exists, Listed

LEMMA NamedInvariant == Spec => []NamedInv
<1>1. TypeOK /\ SavedInv /\ NamedInv /\ [Next]_vars => NamedInv'
  <2> SUFFICES ASSUME TypeOK, SavedInv, NamedInv, [Next]_vars PROVE NamedInv'
    OBVIOUS
  <2>1. EntriesNamed' /\ ManagersNamed' /\ PodsNamed'
    BY StepEntriesNamed, StepManagersNamed, StepPodsNamed DEF NamedInv
  <2>2. ListedNamed'
    BY <2>1, StepListedNamed
  <2> QED BY <2>1, <2>2 DEF NamedInv
<1> QED BY <1>1, InitNamed, TypeCorrect, SavedInvariant, PTL DEF Spec

(* Two steps take a pool out of its replacement and into Running: it has settled, or it has no
   revision (it was scaled to zero meanwhile) and gets one while another pool's state is Running. *)
LEMMA LeavesReplacement ==
  ASSUME "account" \notin FaultKinds, TypeOK, ManagersFresh, NothingStale, [Next]_vars,
         NEW p \in Pools, status[p].state \in Replacing, status'[p].state = "Running"
  PROVE  /\ p = pi
         /\ MarkRunning \/ (SaveRevision /\ state = "Running" /\ mem[p].entry.rev = 0)
<1>1. pi \in Pools
  BY DEF TypeOK, OperatorOK
<1>n. NoEntry.state = ""
  BY DEF NoEntry
<1>2. status'[p].state # status[p].state /\ status'[p] # status[p] /\ status'[p] # NoEntry
      /\ status[p] # NoEntry
  BY <1>n DEF Replacing
<1>3. ASSUME NEW q \in Pools, NEW st, NEW rev, NEW hash, NEW zone,
             WriteEntry(q, st, rev, hash, zone)
      PROVE  p = q /\ st = "Running"
  <2>1. status' = [status EXCEPT ![q] =
                     [state |-> st, rev |-> rev, hash |-> hash, zone |-> zone]]
    BY <1>3 DEF WriteEntry
  <2>2. p = q
    BY <1>2, <2>1 DEF TypeOK, StatusOK
  <2>3. status'[p].state = st
    BY <2>1, <2>2 DEF TypeOK, StatusOK
  <2> QED BY <2>2, <2>3
<1>4. pc # "idle" => mem[p].entry.state # "Running"
  BY <1>2 DEF ManagersFresh, Replacing
<1>5. CASE RejectPool
  <2>1. Min(Invalid) \in Pools
    BY <1>5, FirstPool DEF RejectPool, Invalid
  <2> QED BY <1>3, <1>5, <2>1 DEF RejectPool
<1>6. CASE MarkMaintenance
  BY <1>1, <1>3, <1>6 DEF MarkMaintenance, WriteState
<1>7. CASE MarkRunning
  BY <1>1, <1>3, <1>7 DEF MarkRunning, WriteState
<1>8. CASE SaveRevision
  <2>1. p = pi /\ state = "Running"
    BY <1>1, <1>3, <1>8 DEF SaveRevision
  <2>2. Unsaved(p)
    BY <1>8, <2>1 DEF SaveRevision, Examine, Verdict
  <2> QED BY <1>8, <2>1, <2>2 DEF Unsaved, Replacing
<1>9. CASE PinZone
  <2>1. PICK zone : WriteState(pi, mem[pi].entry.state, zone)
    BY <1>9 DEF PinZone
  <2> QED BY <1>1, <1>3, <1>4, <1>9, <2>1 DEF WriteState, PinZone, Examine
<1>10. CASE UnpinZone
  BY <1>1, <1>3, <1>4, <1>10 DEF UnpinZone, WriteState, Examine
<1>11. CASE BumpRevision \/ ServiceAccountFails
  BY <1>11 DEF BumpRevision, NothingStale, ServiceAccountFails, Fault
<1>12. CASE VolumesFail
  <2>1. CASE state \in Replacing
    BY <1>2, <1>12, <2>1 DEF VolumesFail
  <2>2. CASE state \notin Replacing
    BY <1>3, <1>12, <2>2 DEF VolumesFail, WriteState
  <2> QED BY <2>1, <2>2
<1>13. CASE Begin
  <2>1. UNCHANGED status \/ \E q \in Pools : status' = [status EXCEPT ![q] = NoEntry]
    BY <1>13 DEF Begin, Unused
  <2> QED BY <1>2, <2>1 DEF TypeOK, StatusOK
<1>14. CASE \/ SkipPool \/ DeleteEvicted \/ WaitForOtherPods \/ StartDeleting
            \/ DeletePod \/ PodIsGone \/ EndDeleting \/ UpdateServiceAccount
            \/ StartCreating \/ CreatePod \/ SeesNewPods \/ WaitForNewPodsTimesOut
            \/ AwaitPods \/ Finish
  BY <1>2, <1>14 DEF SkipPool, DeleteEvicted, WaitForOtherPods, StartDeleting, DeletePod,
       PodIsGone, EndDeleting, UpdateServiceAccount, StartCreating, CreatePod,
       SeesNewPods, WaitForNewPodsTimesOut, AwaitPods, Finish
<1>15. CASE \/ RejectCluster \/ DeletePodFails \/ CreatePodFails \/ FinishFails \/ Crash
  BY <1>2, <1>15 DEF RejectCluster, DeletePodFails, CreatePodFails, FinishFails, Crash
<1>16. CASE Environment
  BY <1>2, <1>16 DEF Environment, CacheSync, EditTemplate, EditCount, EditAnnotations,
       Edit, Schedule, BecomeReady, MinReadySecondsPass, Recover, Fail, PodMoves,
       Terminated, DeleteByOthers, ReplaceByHand
<1>17. CASE UNCHANGED vars
  BY <1>2, <1>17 DEF vars
<1> QED
  BY <1>5, <1>6, <1>7, <1>8, <1>9, <1>10, <1>11, <1>12, <1>13, <1>14,
     <1>15, <1>16, <1>17 DEF Next, Reconcile, ReconcileFails

(* A pool without a revision in which nothing differs has no live pod: they all have one. *)
LEMMA NoRevisionNoPods ==
  ASSUME NamedInv, ListedSame, NEW p \in Pools, mem[p].entry.rev = 0, Mismatched(p) = {},
         NEW s \in Slots, Alive(p, s)
  PROVE  s \notin Listed(p)
<1> SUFFICES ASSUME s \in Listed(p) PROVE FALSE
  OBVIOUS
<1>1. ASSUME NEW t \in Compared(p), ~View(p)[t].deleting, t \in Listed(p) PROVE FALSE
  <2>1. View(p)[t].rev # 0
    BY <1>1 DEF NamedInv, ListedNamed
  <2> QED BY <1>1, <2>1 DEF Mismatched
<1>2. ~View(p)[s].deleting
  BY DEF ListedSame, Ages, Alive
<1>3. CASE In(p, "bad") = {}
  BY <1>1, <1>2, <1>3 DEF Compared
<1>4. CASE In(p, "bad") # {}
  BY <1>1, <1>4 DEF Compared, In
<1> QED BY <1>3, <1>4

(* A pool leaves Upgrading or Restarting only when every live pod there is, listed or
   not, is of the revision of its entry: the list it is decided on may be old, but it
   lacks no pod, and what it has of a pod that is still there is true. *)
THEOREM SettlesUniform ==
  ASSUME "account" \notin FaultKinds, CacheLag => "create" \notin FaultKinds
  PROVE  Spec => SettledIsUniform
<1> DEFINE Uniform ==
      \A p \in Pools :
        status[p].state \in Replacing /\ status'[p].state = "Running" =>
          \A s \in Slots : Alive(p, s) => pods[p][s].rev = status'[p].rev
<1>1. ASSUME TypeOK, ListInv, NamedInv, ManagersFresh, NothingStale, [Next]_vars PROVE Uniform
  <2> SUFFICES ASSUME NEW p \in Pools, status[p].state \in Replacing,
                      status'[p].state = "Running", NEW s \in Slots, Alive(p, s)
               PROVE  pods[p][s].rev = status'[p].rev
    OBVIOUS
  <2>1. /\ p = pi
        /\ MarkRunning \/ (SaveRevision /\ state = "Running" /\ mem[p].entry.rev = 0)
    BY <1>1, LeavesReplacement
  <2>2. pc = "mismatch"
    BY <2>1 DEF MarkRunning, SaveRevision, Examine
  <2>3. s \in Listed(p)
    BY <1>1, <2>2 DEF ListInv, AllListed, Unlisted, Existing, Alive
  <2>4. CASE MarkRunning
    <3>1. AllAtRevision(p)
      BY <2>1, <2>4 DEF MarkRunning, Examine, Verdict
    <3>2. status'[p].rev = mem[p].entry.rev
      BY <1>1, <2>1, <2>4 DEF MarkRunning, WriteState, WriteEntry, TypeOK, StatusOK
    <3>3. View(p)[s].rev = pods[p][s].rev
      BY <1>1, <2>3 DEF ListInv, ListedSame, Alive, Ages
    <3> QED BY <2>3, <3>1, <3>2, <3>3 DEF AllAtRevision
  <2>5. CASE SaveRevision /\ state = "Running" /\ mem[p].entry.rev = 0
    <3>1. Mismatched(p) = {}
      BY <2>1, <2>5 DEF SaveRevision, Examine, Verdict
    <3> QED BY <1>1, <2>3, <2>5, <3>1, NoRevisionNoPods DEF ListInv
  <2> QED BY <2>1, <2>4, <2>5
<1>2. TypeOK /\ ListInv /\ NamedInv /\ ManagersFresh /\ NothingStale /\ [Next]_vars => [Uniform]_vars
  BY <1>1
<1>3. Spec => []NothingStale
  <2>1. Init => NothingStale
    BY DEF Init, NothingStale
  <2>2. TypeOK /\ NothingStale /\ [Next]_vars => NothingStale'
    BY StepNothingStale
  <2> QED BY <2>1, <2>2, TypeCorrect, PTL DEF Spec
<1> QED
  BY <1>2, <1>3, TypeCorrect, ListInvariant, NamedInvariant, ManagersStayFresh, PTL
     DEF Spec, SettledIsUniform

(***************************************************************************)
(* One zone after the other                                                *)
(***************************************************************************)
(* No state is Pending where no volume fails to be made. *)
NotPending ==
  /\ state # "Pending"
  /\ \A p \in Pools : status[p].state # "Pending"
  /\ pc # "idle" => state # ""

ZoneOfChosen ==
  ZoneAware /\ pc = "delete" =>
    \A s \in chosen : /\ mem[pi].entry.zone # NoZone
                      /\ Exists(pi, s) => pods[pi][s].zone = mem[pi].entry.zone

HashesTellTemplates == \A t, u \in Templates : PodHash(t) = PodHash(u) => t = u

LEMMA WriteNotPending ==
  ASSUME StatusOK, NotPending, NEW p \in Pools, NEW st, NEW rev, NEW hash, NEW zone,
         st # "Pending", WriteEntry(p, st, rev, hash, zone), pc' = "idle"
  PROVE  NotPending'
BY DEF StatusOK, NotPending, WriteEntry

LEMMA StepNotPending ==
  ASSUME "volume" \notin FaultKinds, 0 \notin Counts, TypeOK, MemExact, NotPending,
         [Next]_vars
  PROVE  NotPending'
<1>1. pi \in Pools
  BY DEF TypeOK, OperatorOK
<1>2. ASSUME UNCHANGED status, state' \in {state, "Running", "ConfigError"},
             pc' = "idle" \/ (pc # "idle" /\ UNCHANGED state)
      PROVE  NotPending'
  BY <1>2 DEF NotPending
<1>3. ASSUME pc # "idle", NEW p \in Pools
      PROVE  mem[p].entry.state # "Pending"
  BY <1>3 DEF MemExact, NotPending
<1>4. ASSUME Return PROVE pc' = "idle"
  BY <1>4 DEF Return, Goto
<1>5. CASE RejectPool
  <2>1. Min(Invalid) \in Pools /\ pc' = "idle"
    BY <1>5, FirstPool DEF RejectPool, Invalid, operator
  <2> QED BY <1>5, <2>1, WriteNotPending DEF RejectPool, TypeOK
<1>6. CASE Begin
  <2>1. status' = status
    BY <1>6, NoUnused DEF Begin
  <2>2. state' # "" /\ state' # "Pending"
    BY <1>6 DEF Begin, NotPending
  <2> QED BY <2>1, <2>2 DEF NotPending
<1>7. CASE MarkMaintenance
  BY <1>1, <1>4, <1>7, WriteNotPending DEF MarkMaintenance, WriteState, TypeOK
<1>8. CASE MarkRunning
  BY <1>1, <1>4, <1>8, WriteNotPending DEF MarkRunning, WriteState, TypeOK
<1>9. CASE SaveRevision
  BY <1>1, <1>4, <1>9, WriteNotPending DEF SaveRevision, TypeOK, NotPending
<1>10. CASE PinZone
  <2>1. PICK zone : WriteState(pi, mem[pi].entry.state, zone)
    BY <1>10 DEF PinZone
  <2>2. pc # "idle" /\ pc' = "idle"
    BY <1>4, <1>10 DEF PinZone, Examine
  <2> QED BY <1>1, <1>3, <2>1, <2>2, WriteNotPending DEF WriteState, TypeOK
<1>11. CASE UnpinZone
  <2>1. pc # "idle" /\ pc' = "idle"
    BY <1>4, <1>11 DEF UnpinZone, Examine
  <2> QED BY <1>1, <1>3, <1>11, <2>1, WriteNotPending DEF UnpinZone, WriteState, TypeOK
<1>12. CASE BumpRevision
  BY <1>1, <1>4, <1>12, WriteNotPending DEF BumpRevision, TypeOK, NotPending
<1>13. CASE ServiceAccountFails
  BY <1>4, <1>13, WriteNotPending DEF ServiceAccountFails, WriteState, TypeOK, NotPending
<1>14. CASE VolumesFail
  BY <1>14 DEF VolumesFail, Fault
<1>15. CASE \/ SkipPool \/ DeleteEvicted \/ WaitForOtherPods \/ StartDeleting
            \/ DeletePod \/ PodIsGone \/ EndDeleting \/ UpdateServiceAccount
            \/ StartCreating \/ CreatePod \/ SeesNewPods \/ WaitForNewPodsTimesOut
            \/ AwaitPods
  BY <1>2, <1>15 DEF SkipPool, DeleteEvicted, WaitForOtherPods, StartDeleting, DeletePod,
       PodIsGone, EndDeleting, UpdateServiceAccount, StartCreating, CreatePod,
       SeesNewPods, WaitForNewPodsTimesOut, AwaitPods, Examine, Annotated, Created
<1>16. CASE Finish \/ FinishFails
  BY <1>2, <1>4, <1>16 DEF Finish, FinishFails
<1>17. CASE RejectCluster
  BY <1>2, <1>17 DEF RejectCluster, operator
<1>18. CASE DeletePodFails \/ CreatePodFails \/ Crash
  BY <1>2, <1>18 DEF DeletePodFails, CreatePodFails, Crash
<1>19. CASE Environment
  <2>1. UNCHANGED <<state, status, operator>>
    BY <1>19 DEF Environment, CacheSync, EditTemplate, EditCount, EditAnnotations,
       Edit, Schedule, BecomeReady, MinReadySecondsPass, Recover, Fail, PodMoves,
       Terminated, DeleteByOthers, ReplaceByHand
  <2> QED BY <2>1 DEF operator, NotPending
<1>20. CASE UNCHANGED vars
  BY <1>20 DEF vars, operator, NotPending
<1> QED
  BY <1>5, <1>6, <1>7, <1>8, <1>9, <1>10, <1>11, <1>12, <1>13, <1>14,
     <1>15, <1>16, <1>17, <1>18, <1>19, <1>20 DEF Next, Reconcile, ReconcileFails

(* A ready pod that is chosen for deletion is in the zone that is pinned: with none
   pinned the pod would have been found at another revision or hash, and its zone
   pinned first. *)
LEMMA ChosenInPinnedZone ==
  ASSUME HashesTellTemplates, ZoneAware, TypeOK, NotPending, Examine("delete"),
         NEW s \in ToBeReplaced(pi) \cap In(pi, "ready")
  PROVE  mem[pi].entry.zone # NoZone /\ View(pi)[s].zone = mem[pi].entry.zone
<1>1. /\ pc = "mismatch" /\ AllowsMaintenance(pi) /\ ~Unsaved(pi)
      /\ ~(state \in {"Running", "ConfigError"} /\ Mismatched(pi) # {})
      /\ In(pi, "evicted") = {}
      /\ ~(/\ mem[pi].entry.zone = NoZone
           /\ \E t \in NotAtDesired(pi) : View(pi)[t].zone # NoZone)
  BY DEF Examine, Verdict
<1>2. s \in Mismatched(pi) /\ s \in Compared(pi) /\ s \in Listed(pi)
  BY DEF ToBeReplaced, Mismatched, In
<1>3. In(pi, "bad") = {}
  <2> SUFFICES ASSUME In(pi, "bad") # {} PROVE FALSE
    OBVIOUS
  <2>1. s \in In(pi, "bad") /\ s \in In(pi, "ready")
    BY <1>2 DEF Compared
  <2> QED BY <2>1 DEF In
<1>4. View(pi)[s].zone # NoZone /\ mem[pi].entry.zone \in {NoZone, View(pi)[s].zone}
  BY <1>1, <1>3 DEF ToBeReplaced
<1>5. ASSUME mem[pi].entry.zone = NoZone PROVE FALSE
  <2>1. s \notin NotAtDesired(pi)
    BY <1>1, <1>4, <1>5
  <2>2. /\ View(pi)[s].rev = mem[pi].entry.rev
        /\ PodHash(View(pi)[s].tmpl) = mem[pi].entry.hash
    BY <1>2, <2>1 DEF NotAtDesired
  <2>3. View(pi)[s].tmpl # mem[pi].pool.tmpl
    BY <1>2, <2>2 DEF Mismatched
  <2>4. state \in Replacing
    BY <1>1, <1>2 DEF NotPending, TypeOK, StatusOK, States, Replacing
  <2>5. PodHash(mem[pi].pool.tmpl) = PodHash(View(pi)[s].tmpl)
    BY <1>1, <2>2, <2>4 DEF Unsaved
  <2>6. mem[pi].pool.tmpl \in Templates /\ View(pi)[s].tmpl \in Templates
    <3>1. pi \in Pools
      BY DEF TypeOK, OperatorOK
    <3>2. View(pi)[s] \in Pod
      BY <1>2, <3>1, ListedType DEF TypeOK
    <3> QED BY <3>1, <3>2 DEF TypeOK, OperatorOK, Manager, PoolSpec, Pod
  <2> QED BY <2>3, <2>5, <2>6 DEF HashesTellTemplates
<1> QED BY <1>4, <1>5

LEMMA StepZoneOfChosen ==
  ASSUME HashesTellTemplates, TypeOK, ListedSame, NotPending, ZoneOfChosen, [Next]_vars
  PROVE  ZoneOfChosen'
<1> SUFFICES ASSUME ZoneAware, pc' = "delete", NEW s \in chosen'
             PROVE  /\ mem'[pi'].entry.zone # NoZone
                    /\ pods'[pi'][s] # NoPod => pods'[pi'][s].zone = mem'[pi'].entry.zone
  BY DEF ZoneOfChosen, Exists
<1>1. ~Begin
  BY DEF Begin, Goto
<1>2. pc # "idle" /\ mem' = mem
  BY <1>1, Course
<1>3. pi \in Pools /\ pi' \in Pools /\ s \in Slots
  BY StepType DEF TypeOK, OperatorOK
<1>4. CASE UNCHANGED operator \/ DeletePod
  <2>1. pi' = pi /\ s \in chosen /\ pc = "delete"
    BY <1>4 DEF operator, DeletePod
  <2>2. /\ mem[pi].entry.zone # NoZone
        /\ Exists(pi, s) => pods[pi][s].zone = mem[pi].entry.zone
    BY <2>1 DEF ZoneOfChosen
  <2>3. pods'[pi][s] # NoPod => Exists(pi, s) /\ Ages(pods[pi][s], pods'[pi][s])
    BY <1>3, <2>1, PodChange DEF CreatePod
  <2> QED BY <1>2, <2>1, <2>2, <2>3 DEF Ages
<1>5. CASE StartDeleting
  <2>1. /\ pi' = pi /\ pods' = pods /\ Examine("delete")
        /\ s \in ToBeReplaced(pi) \cap In(pi, "ready")
    BY <1>5 DEF StartDeleting, FirstOf, objects
  <2>2. mem[pi].entry.zone # NoZone /\ View(pi)[s].zone = mem[pi].entry.zone
    BY <2>1, ChosenInPinnedZone
  <2>3. Exists(pi, s) => Ages(View(pi)[s], pods[pi][s])
    BY <1>3, <2>1 DEF ListedSame, In
  <2> QED BY <1>2, <2>1, <2>2, <2>3 DEF Ages, Exists
<1>6. CASE CreatePod \/ NextPool \/ UpdateServiceAccount \/ StartCreating
  BY <1>6 DEF CreatePod, NextPool, Goto, UpdateServiceAccount, StartCreating
<1> QED BY <1>1, <1>4, <1>5, <1>6, Course

(* With zone awareness, only pods of the zone pinned in the status are taken down while
   they are ready, wherever the reconciles are cut short and however old their lists.
   No pool is scaled to zero, no volume fails to be made (its failure puts the cluster in
   Pending, where pods are deleted with no zone pinned), and templates that differ have
   different hashes: one that differs in the source of its environment only is replaced
   with no zone pinned. *)
THEOREM ZoneByZone ==
  ASSUME HashesTellTemplates, 0 \notin Counts, "volume" \notin FaultKinds
  PROVE  Spec => PinnedZone
<1> DEFINE InZone ==
      \A p \in Pools, s \in Slots :
        ZoneAware /\ pc = "delete" /\ pi = p /\ s \in chosen
          /\ Alive(p, s) /\ pods'[p][s].deleting =>
          status[p].zone = pods[p][s].zone
<1> DEFINE ZoneInv == MemExact /\ ListedSame /\ NotPending /\ ZoneOfChosen
<1>1. Init => ZoneInv
  <2> SUFFICES ASSUME Init PROVE NotPending /\ pc = "idle"
    BY InitBehind, InitListedSame DEF ZoneOfChosen
  <2>1. \A p \in Pools : status[p].state \in {"", "Running"}
    <3> SUFFICES ASSUME NEW p \in Pools PROVE status[p].state \in {"", "Running"}
      OBVIOUS
    <3>1. NoEntry.state = ""
      BY DEF NoEntry
    <3>2. CASE Settled
      BY <3>1, <3>2, SettledEntry
    <3>3. CASE ~Settled
      <4>1. status[p] = NoEntry
        BY <3>3 DEF Init
      <4> QED BY <3>1, <4>1
    <3> QED BY <3>2, <3>3
  <2>2. pc = "idle" /\ state # "Pending"
    BY DEF Init
  <2> QED BY <2>1, <2>2 DEF NotPending
<1>2. TypeOK /\ ZoneInv /\ [Next]_vars => ZoneInv'
  BY StepExact, StepListedSame, StepNotPending, StepZoneOfChosen
<1>3. ZoneInv => InZone
  BY DEF ZoneOfChosen, MemExact, Alive
<1>4. Spec => []ZoneInv
  <2> HIDE DEF ZoneInv
  <2> QED BY <1>1, <1>2, TypeCorrect, PTL DEF Spec
<1>5. ZoneInv /\ [Next]_vars => [InZone]_vars
  BY <1>3
<1> QED
  <2> HIDE DEF ZoneInv
  <2> QED BY <1>4, <1>5, PTL DEF Spec, PinnedZone

(***************************************************************************)
(* An upgrade with ReplaceAllOnUpdate                                      *)
(***************************************************************************)
NeverBad == \A p \in Pools, s \in Slots : Exists(p, s) => pods[p][s].phase # "bad"

(* No one edits the strategy. *)
StrategyKept ==
  pc # "idle" => \A p \in Pools : mem[p].pool.strategy = spec[p].strategy

(* The pods that are still to be deleted are alive. *)
DoomedAlive ==
  pc = "delete" => /\ mem[pi].pool.strategy # "OnDelete"
                   /\ \A s \in doomed : Alive(pi, s)

ReplacesAll(p) == state = "Upgrading" /\ mem[p].pool.strategy = "ReplaceAllOnUpdate"

RequeuesForAll == pc = "delete" /\ ReplacesAll(pi) => requeue

HasImage(p) == \A s \in Slots : Alive(p, s) => pods[p][s].tmpl.img = mem[p].pool.tmpl.img

Deleting(p) == pc = "delete" /\ p = pi

(* A pool that was examined, and has nothing deleted, has no pod of another version. *)
NoOldImage ==
  \A p \in Pools :
    Examined(p) /\ ~Deleting(p) /\ AllowsMaintenance(p) /\ ReplacesAll(p) => HasImage(p)

(* What marks a pod as being deleted. *)
LEMMA AliveKept ==
  ASSUME TypeOK, [Next]_vars, "delete_by_others" \notin FaultKinds,
         NEW p \in Pools, NEW s \in Slots, Alive(p, s), ~Alive(p, s)'
  PROVE  \/ DeletePod /\ p = pi /\ s = Min(doomed)
         \/ DeleteEvicted
         \/ spec[p].strategy = "OnDelete"
<1>1. pods[p][s] \in Pod
  BY DEF TypeOK, ObjectsOK, PodsOf, Alive, Exists
<1>2. ASSUME UNCHANGED pods PROVE FALSE
  BY <1>2 DEF Alive, Exists
<1>3. ASSUME NEW q \in Pools, NEW t \in Slots, pods' = Deleted(q, t)
      PROVE  p = q /\ s = t
  <2>1. CASE ~(p = q /\ s = t)
    <3>1. pods'[p][s] = pods[p][s]
      BY <1>3, <2>1 DEF Deleted, TypeOK, ObjectsOK, PodsOf
    <3> QED BY <3>1 DEF Alive, Exists
  <2> QED BY <2>1
<1>4. ASSUME NEW q \in Pools, NEW t \in Slots, NEW from, NEW to, PodMoves(q, t, from, to)
      PROVE  FALSE
  <2>1. pods[q][t] \in Pod
    BY <1>4 DEF TypeOK, ObjectsOK, PodsOf, PodMoves, Alive, Exists
  <2>2. pods'[p][s].deleting = pods[p][s].deleting /\ pods'[p][s].rev = pods[p][s].rev
        /\ pods'[p][s] # NoPod
    BY <1>1, <1>4, <2>1 DEF PodMoves, TypeOK, ObjectsOK, PodsOf, Pod, NoPod, Alive, Exists
  <2> QED BY <2>2 DEF Alive, Exists
<1>5. pi \in Pools
  BY DEF TypeOK, OperatorOK
<1>6. CASE DeletePod
  <2>1. Min(doomed) \in Slots
    BY <1>6, FirstSlot DEF DeletePod, TypeOK, OperatorOK
  <2> QED BY <1>3, <1>5, <1>6, <2>1 DEF DeletePod
<1>7. CASE CreatePod
  <2>1. PICK t \in Slots \ Listed(pi) :
          ~Exists(pi, t) /\ pods' = [pods EXCEPT ![pi][t] = NewPod(pi)]
    BY <1>7 DEF CreatePod, NewPod
  <2>2. pods'[p][s] = pods[p][s]
    BY <1>5, <2>1 DEF TypeOK, ObjectsOK, PodsOf, Alive, Exists
  <2> QED BY <2>2 DEF Alive, Exists
<1>8. CASE \/ RejectPool \/ Begin \/ SkipPool \/ MarkMaintenance \/ MarkRunning
           \/ SaveRevision \/ PinZone \/ UnpinZone \/ WaitForOtherPods
           \/ StartDeleting \/ PodIsGone \/ EndDeleting \/ UpdateServiceAccount
           \/ BumpRevision \/ StartCreating \/ SeesNewPods
           \/ WaitForNewPodsTimesOut \/ AwaitPods \/ Finish
  BY <1>2, <1>8 DEF objects, RejectPool, Begin, SkipPool, MarkMaintenance, MarkRunning,
       SaveRevision, PinZone, UnpinZone, WaitForOtherPods, StartDeleting, PodIsGone,
       EndDeleting, UpdateServiceAccount, BumpRevision, StartCreating, SeesNewPods,
       WaitForNewPodsTimesOut, AwaitPods, Finish
<1>9. CASE ReconcileFails
  BY <1>2, <1>9 DEF objects, ReconcileFails, RejectCluster, DeletePodFails,
       ServiceAccountFails, VolumesFail, CreatePodFails, FinishFails, Crash
<1>10. ASSUME NEW q \in Pools,
              CacheSync(q) \/ EditTemplate(q) \/ EditCount(q) \/ EditAnnotations(q)
       PROVE  FALSE
  BY <1>2, <1>10 DEF CacheSync, EditTemplate, EditCount, EditAnnotations, Edit
<1>11. ASSUME NEW q \in Pools, NEW t \in Slots,
              \/ BecomeReady(q, t) \/ MinReadySecondsPass(q, t) \/ Recover(q, t)
              \/ Fail(q, t)
       PROVE  FALSE
  BY <1>4, <1>11 DEF BecomeReady, MinReadySecondsPass, Recover, Fail
<1>12. ASSUME NEW q \in Pools, NEW t \in Slots, DeleteByOthers(q, t)
       PROVE  FALSE
  BY <1>12 DEF DeleteByOthers, Fault
<1>13. ASSUME NEW q \in Pools, NEW t \in Slots, ReplaceByHand(q, t)
       PROVE  spec[p].strategy = "OnDelete"
  BY <1>3, <1>13 DEF ReplaceByHand
<1>14. ASSUME NEW q \in Pools, NEW t \in Slots, Terminated(q, t)
       PROVE  FALSE
  <2>1. pods'[p][s] = pods[p][s]
    BY <1>14 DEF Terminated, Alive, TypeOK, ObjectsOK, PodsOf
  <2> QED BY <2>1 DEF Alive, Exists
<1>15. ASSUME NEW q \in Pools, NEW t \in Slots, Schedule(q, t)
       PROVE  FALSE
  <2>1. pods[q][t] \in Pod
    BY <1>15 DEF Schedule, Alive, Exists, TypeOK, ObjectsOK, PodsOf
  <2>2. PICK z \in Zones :
          pods' = [pods EXCEPT ![q][t].zone = z, ![q][t].phase = "pending"]
    BY <1>15 DEF Schedule
  <2>3. pods' = [pods EXCEPT ![q] = [pods[q] EXCEPT ![t] =
                   [pods[q][t] EXCEPT !.zone = z, !.phase = "pending"]]]
    BY <2>1, <2>2 DEF Pod, TypeOK, ObjectsOK, PodsOf
  <2>4. pods'[p][s].deleting = pods[p][s].deleting /\ pods'[p][s] # NoPod
    BY <1>1, <2>1, <2>3 DEF TypeOK, ObjectsOK, PodsOf, Pod, NoPod, Alive, Exists
  <2> QED BY <2>4 DEF Alive, Exists
<1>16. CASE UNCHANGED vars
  BY <1>2, <1>16 DEF vars, objects
<1>17. CASE Environment
  BY <1>10, <1>11, <1>12, <1>13, <1>14, <1>15, <1>17 DEF Environment
<1>18. CASE DeleteEvicted
  BY <1>18
<1> QED
  BY <1>6, <1>7, <1>8, <1>9, <1>16, <1>17, <1>18 DEF Next, Reconcile

LEMMA StepNeverBad ==
  ASSUME "bad" \notin FaultKinds, TypeOK, NeverBad, [Next]_vars
  PROVE  NeverBad'
<1> SUFFICES ASSUME NEW p \in Pools, NEW s \in Slots, pods'[p][s] # NoPod
             PROVE  pods'[p][s].phase # "bad"
  BY DEF NeverBad, Exists
<1>1. CASE Exists(p, s) /\ (pods'[p][s].phase = "bad" => pods[p][s].phase = "bad" \/ Fault("bad"))
  BY <1>1 DEF NeverBad, Fault
<1>2. CASE pods' = [pods EXCEPT ![p][s] = NewPod(p)]
  <2>1. pods'[p][s] = NewPod(p)
    BY <1>2 DEF TypeOK, ObjectsOK, PodsOf
  <2> QED BY <2>1 DEF NewPod
<1> QED BY <1>1, <1>2, PodChange

LEMMA StrategyStays ==
  ASSUME TypeOK, [Next]_vars, NEW p \in Pools
  PROVE  spec'[p].strategy = spec[p].strategy
<1>1. spec[p] \in PoolSpec
  BY DEF TypeOK, InputsOK
<1>2. CASE Reconcile
  BY <1>2 DEF Reconcile, inputs, RejectPool, Begin, SkipPool, MarkMaintenance, MarkRunning,
       SaveRevision, DeleteEvicted, PinZone, UnpinZone, WaitForOtherPods, StartDeleting,
       DeletePod, PodIsGone, EndDeleting, UpdateServiceAccount, BumpRevision,
       StartCreating, CreatePod, SeesNewPods, WaitForNewPodsTimesOut, AwaitPods, Finish
<1>3. CASE ReconcileFails
  BY <1>3 DEF ReconcileFails, inputs, RejectCluster, DeletePodFails, ServiceAccountFails,
       VolumesFail, CreatePodFails, FinishFails, Crash
<1>4. ASSUME NEW q \in Pools, EditTemplate(q) \/ EditCount(q)
      PROVE  spec'[p].strategy = spec[p].strategy
  <2>1. spec[q] \in PoolSpec /\ spec \in [Pools -> PoolSpec]
    BY DEF TypeOK, InputsOK
  <2>2. CASE EditTemplate(q)
    <3>1. PICK t : spec' = [spec EXCEPT ![q].tmpl = t]
      BY <2>2 DEF EditTemplate
    <3> QED BY <1>1, <2>1, <3>1 DEF PoolSpec
  <2>3. CASE EditCount(q)
    <3>1. PICK n : spec' = [spec EXCEPT ![q].count = n]
      BY <2>3 DEF EditCount
    <3> QED BY <1>1, <2>1, <3>1 DEF PoolSpec
  <2> QED BY <1>4, <2>2, <2>3
<1>5. CASE Environment
  BY <1>4, <1>5 DEF inputs, Environment, CacheSync, EditAnnotations, Schedule, BecomeReady,
       MinReadySecondsPass, Recover, Fail, PodMoves, Terminated, DeleteByOthers,
       ReplaceByHand
<1>6. CASE UNCHANGED vars
  BY <1>6 DEF vars, inputs
<1> QED BY <1>2, <1>3, <1>5, <1>6 DEF Next

LEMMA StepStrategyKept ==
  ASSUME TypeOK, StrategyKept, [Next]_vars
  PROVE  StrategyKept'
<1> SUFFICES ASSUME pc' # "idle", NEW p \in Pools
             PROVE  mem'[p].pool.strategy = spec'[p].strategy
  BY DEF StrategyKept
<1>1. CASE Begin
  BY <1>1, StrategyStays DEF Begin, Snapshot
<1>2. CASE ~Begin
  BY <1>2, Course, StrategyStays DEF StrategyKept
<1> QED BY <1>1, <1>2

LEMMA StepDoomedAlive ==
  ASSUME ~CacheLag, "delete_by_others" \notin FaultKinds,
         TypeOK, StrategyKept, DoomedAlive, [Next]_vars
  PROVE  DoomedAlive'
<1> SUFFICES ASSUME pc' = "delete"
             PROVE  /\ mem'[pi'].pool.strategy # "OnDelete"
                    /\ \A s \in doomed' : pods'[pi'][s] # NoPod /\ ~pods'[pi'][s].deleting
  BY DEF DoomedAlive, Alive, Exists
<1>1. pc # "idle" /\ ~Begin /\ UNCHANGED mem
  <2>1. ~Begin
    BY DEF Begin, Goto
  <2> QED BY <2>1, Course
<1>2. pi \in Pools /\ doomed \in SUBSET Slots /\ pi' \in Pools
  BY StepType DEF TypeOK, OperatorOK
<1>3. ASSUME pc = "delete", pi' = pi, doomed' \subseteq doomed,
             DeletePod => Min(doomed) \notin doomed'
      PROVE  /\ mem'[pi'].pool.strategy # "OnDelete"
             /\ \A s \in doomed' : pods'[pi'][s] # NoPod /\ ~pods'[pi'][s].deleting
  <2>1. spec[pi].strategy # "OnDelete"
    BY <1>1, <1>2, <1>3 DEF DoomedAlive, StrategyKept
  <2>2. ~DeleteEvicted
    BY <1>3 DEF DeleteEvicted, Examine
  <2>3. ASSUME NEW p \in Pools, p = pi, NEW s \in doomed' PROVE Alive(p, s)'
    <3>1. s \in Slots /\ Alive(p, s) /\ ~(DeletePod /\ s = Min(doomed))
      BY <1>2, <1>3, <2>3 DEF DoomedAlive
    <3> QED BY <2>1, <2>2, <2>3, <3>1, AliveKept
  <2> QED BY <1>1, <1>2, <1>3, <2>3 DEF DoomedAlive, Alive, Exists
<1>4. CASE UNCHANGED operator
  <2>1. ~DeletePod
    <3> SUFFICES ASSUME DeletePod PROVE FALSE
      OBVIOUS
    <3>1. doomed' = doomed \ {Min(doomed)} /\ doomed # {}
      BY DEF DeletePod
    <3>2. Min(doomed) \in doomed
      BY <1>2, <3>1, FirstSlot
    <3> QED BY <1>4, <3>1, <3>2 DEF operator
  <2> QED BY <1>3, <1>4, <2>1 DEF operator
<1>5. CASE DeletePod
  BY <1>3, <1>5 DEF DeletePod
<1>6. CASE StartDeleting
  <2>1. /\ pc = "mismatch" /\ Verdict(pi) = "delete" /\ pi' = pi /\ UNCHANGED pods
        /\ doomed' \subseteq ToBeReplaced(pi)
    BY <1>6 DEF StartDeleting, Examine, FirstOf, objects
  <2>2. DifferenceDetected(pi)
    BY <2>1 DEF Verdict
  <2>3. mem[pi].pool.strategy # "OnDelete"
    BY <2>2 DEF DifferenceDetected, ManualDeletions
  <2>4. ASSUME NEW s \in doomed' PROVE Alive(pi, s)
    <3>1. s \in Listed(pi) /\ ~View(pi)[s].deleting
      BY <2>1, <2>4 DEF ToBeReplaced, Mismatched, Compared, In
    <3> QED BY <3>1 DEF View, Listed, Alive, Exists
  <2> QED BY <1>1, <2>1, <2>3, <2>4 DEF Alive, Exists
<1>7. CASE CreatePod \/ NextPool \/ UpdateServiceAccount \/ StartCreating
  BY <1>7 DEF CreatePod, NextPool, Goto, UpdateServiceAccount, StartCreating
<1> QED BY <1>1, <1>4, <1>5, <1>6, <1>7, Course

(* An upgrade with this strategy does not wait. *)
LEMMA NeverOneByOne ==
  ASSUME NEW p, mem[p].pool.strategy = "ReplaceAllOnUpdate"
  PROVE  ~ShouldRollingRestart(p)
BY DEF ShouldRollingRestart

LEMMA StepRequeues ==
  ASSUME TypeOK, RequeuesForAll, [Next]_vars
  PROVE  RequeuesForAll'
<1> SUFFICES ASSUME pc' = "delete", state' = "Upgrading",
                    mem'[pi'].pool.strategy = "ReplaceAllOnUpdate"
             PROVE  requeue'
  BY DEF RequeuesForAll, ReplacesAll
<1>1. pc # "idle" /\ ~Begin /\ UNCHANGED <<state, mem>>
  <2>1. ~Begin
    BY DEF Begin, Goto
  <2> QED BY <2>1, Course
<1>2. CASE UNCHANGED operator \/ DeletePod
  BY <1>1, <1>2 DEF operator, DeletePod, RequeuesForAll, ReplacesAll
<1>3. CASE StartDeleting
  <2>1. pi' = pi /\ (requeue' = (state = "Upgrading" /\ ~ShouldRollingRestart(pi)))
    BY <1>3 DEF StartDeleting
  <2> QED BY <1>1, <2>1, NeverOneByOne
<1>4. CASE CreatePod \/ NextPool \/ UpdateServiceAccount \/ StartCreating
  BY <1>4 DEF CreatePod, NextPool, Goto, UpdateServiceAccount, StartCreating
<1> QED BY <1>1, <1>2, <1>3, <1>4, Course

(* What is decided for a pool that is not deleted from nor left: it has no other image. *)
LEMMA SkippedHasImage ==
  ASSUME ~CacheLag, TypeOK, NeverBad, AllowsMaintenance(pi), ReplacesAll(pi),
         pc = "mismatch", Verdict(pi) = "skip"
  PROVE  HasImage(pi)
<1>1. pi \in Pools
  BY DEF TypeOK, OperatorOK
<1>2. ~DifferenceDetected(pi)
  BY DEF Verdict
<1>3. Mismatched(pi) = {}
  BY <1>2 DEF DifferenceDetected, ManualDeletions, ReplacesAll
<1>4. Compared(pi) = Listed(pi)
  BY <1>1 DEF Compared, In, Listed, View, NeverBad, Exists
<1> SUFFICES ASSUME NEW s \in Slots, Alive(pi, s)
             PROVE  pods[pi][s].tmpl.img = mem[pi].pool.tmpl.img
  BY DEF HasImage
<1>5. s \in Compared(pi) /\ ~View(pi)[s].deleting
  BY <1>4 DEF Listed, View, Alive, Exists
<1>6. View(pi)[s].tmpl = mem[pi].pool.tmpl
  BY <1>3, <1>5 DEF Mismatched
<1> QED BY <1>6 DEF View

(* Pods that are there, or are made by the reconcile, keep it so. *)
LEMMA ImageStays ==
  ASSUME TypeOK, [Next]_vars, NEW p \in Pools, UNCHANGED mem, HasImage(p)
  PROVE  HasImage(p)'
<1> SUFFICES ASSUME NEW s \in Slots, Alive(p, s)'
             PROVE  pods'[p][s].tmpl.img = mem[p].pool.tmpl.img
  BY DEF HasImage
<1>1. pods'[p][s] # NoPod /\ ~pods'[p][s].deleting
  BY DEF Alive, Exists
<1>2. CASE Exists(p, s) /\ Ages(pods[p][s], pods'[p][s])
  BY <1>1, <1>2 DEF Ages, HasImage, Alive
<1>3. CASE pods' = [pods EXCEPT ![p][s] = NewPod(p)]
  <2>1. pods'[p][s] = NewPod(p)
    BY <1>3 DEF TypeOK, ObjectsOK, PodsOf
  <2> QED BY <2>1 DEF NewPod
<1> QED BY <1>1, <1>2, <1>3, PodChange

LEMMA StepNoOldImage ==
  ASSUME ~CacheLag, {"bad", "delete"} \cap FaultKinds = {},
         TypeOK, NeverBad, DoomedAlive, RequeuesForAll, NoOldImage, [Next]_vars
  PROVE  NoOldImage'
<1> SUFFICES ASSUME NEW p \in Pools, Examined(p)', ~Deleting(p)', AllowsMaintenance(p)',
                    ReplacesAll(p)'
             PROVE  HasImage(p)'
  BY DEF NoOldImage
<1>1. pc' # "idle"
  BY DEF Examined
<1>2. ~Begin
  <2> SUFFICES ASSUME Begin PROVE FALSE
    OBVIOUS
  <2>1. pc' = "mismatch" /\ pi' = 1
    BY DEF Begin, Goto
  <2>2. ~(p < 1)
    BY DEF Pools
  <2> QED BY <2>1, <2>2 DEF Examined
<1>3. UNCHANGED <<state, status, mem>>
  BY <1>1, <1>2, Course
<1>4. AllowsMaintenance(p) /\ ReplacesAll(p)
  BY <1>3 DEF AllowsMaintenance, InMaintenance, ReplacesAll
<1>5. pi \in Pools /\ doomed \in SUBSET Slots
  BY DEF TypeOK, OperatorOK
<1>6. CASE Examined(p) /\ ~Deleting(p)
  BY <1>3, <1>4, <1>6, ImageStays DEF NoOldImage
<1>7. CASE Deleting(p)
  <2>1. ~(UNCHANGED operator \/ DeletePod)
    BY <1>7 DEF operator, DeletePod, Deleting
  <2>2. CASE NextPool /\ PodIsGone
    <3>1. Min(doomed) \in doomed
      BY <1>5, <2>2, FirstSlot DEF PodIsGone
    <3> QED BY <1>7, <2>2, <3>1 DEF PodIsGone, DoomedAlive, Alive, Deleting
  <2>3. CASE NextPool /\ DeletePodFails
    BY <2>3 DEF DeletePodFails, Fault
  <2>4. CASE NextPool /\ EndDeleting
    <3>1. requeue
      BY <1>4, <1>7 DEF RequeuesForAll, Deleting
    <3>2. Return
      BY <2>4, <3>1 DEF EndDeleting
    <3> QED BY <1>1, <3>2 DEF Return, Goto
  <2> QED BY <1>1, <1>2, <1>7, <2>1, <2>2, <2>3, <2>4, Course
          DEF Deleting, CreatePod, SkipPool, WaitForOtherPods, DeleteEvicted, Examine,
              StartDeleting, UpdateServiceAccount, StartCreating, Annotated
<1>8. CASE ~Examined(p)
  <2>1. /\ pc = "mismatch" /\ p = pi
        /\ \E v \in {"skip", "wait", "evict", "delete"} : Verdict(p) = v
    BY <1>2, <1>8, Examination DEF Examine
  <2>2. CASE Verdict(p) = "skip"
    BY <1>3, <1>4, <2>1, <2>2, SkippedHasImage, ImageStays
  <2>3. CASE Verdict(p) = "wait"
    <3>1. ShouldRollingRestart(p)
      BY <2>3 DEF Verdict
    <3> QED BY <1>4, <3>1, NeverOneByOne DEF ReplacesAll
  <2>4. CASE Verdict(p) = "evict"
    <3>1. DeleteEvicted
      <4>1. ~(UNCHANGED operator)
        BY <2>1, <1>8 DEF operator, Examined
      <4> QED BY <1>1, <1>2, <2>1, <2>4, <4>1, Course
              DEF DeletePod, CreatePod, SkipPool, WaitForOtherPods, Examine,
                  StartDeleting, UpdateServiceAccount, StartCreating, Annotated
    <3>2. In(p, "evicted") # {} /\ In(p, "evicted") \in SUBSET Slots
      BY <2>1, <2>4 DEF Verdict, In, Listed
    <3>3. Min(In(p, "evicted")) \in In(p, "evicted")
      BY <3>2, FirstSlot
    <3>4. Exists(pi, Min(In(pi, "evicted")))
      BY <2>1, <3>3 DEF In, Listed, View, Exists
    <3>5. Return
      BY <3>1, <3>4 DEF DeleteEvicted
    <3> QED BY <1>1, <3>5 DEF Return, Goto
  <2>5. CASE Verdict(p) = "delete"
    <3>1. StartDeleting
      <4>1. ~(UNCHANGED operator)
        BY <2>1, <1>8 DEF operator, Examined
      <4> QED BY <1>1, <1>2, <2>1, <2>5, <4>1, Course
              DEF DeletePod, CreatePod, SkipPool, WaitForOtherPods, DeleteEvicted, Examine,
                  UpdateServiceAccount, StartCreating, Annotated
    <3> QED BY <2>1, <3>1 DEF StartDeleting, Deleting
  <2> QED BY <2>1, <2>2, <2>3, <2>4, <2>5
<1> QED BY <1>6, <1>7, <1>8

ReplaceInv == NeverBad /\ StrategyKept /\ DoomedAlive /\ RequeuesForAll /\ NoOldImage

LEMMA ReplaceInvariant ==
  ASSUME ~CacheLag, {"bad", "delete", "delete_by_others"} \cap FaultKinds = {}
  PROVE  Spec => []ReplaceInv
<1>1. Init => ReplaceInv
  <2> SUFFICES ASSUME Init PROVE ReplaceInv
    OBVIOUS
  <2>1. NeverBad
    <3>1. CASE Settled
      <4>1. PICK place \in [Slots -> Zones] :
              pods = [p \in Pools |-> [s \in Slots |->
                IF s > spec[p].count THEN NoPod
                ELSE [rev |-> 1, tmpl |-> spec[p].tmpl, zone |-> place[s],
                      phase |-> "ready", deleting |-> FALSE]]]
        BY <3>1 DEF Init
      <4> SUFFICES ASSUME NEW p \in Pools, NEW s \in Slots, Exists(p, s)
                   PROVE  pods[p][s].phase # "bad"
        BY DEF NeverBad
      <4>2. pods[p][s] = IF s > spec[p].count THEN NoPod
                         ELSE [rev |-> 1, tmpl |-> spec[p].tmpl, zone |-> place[s],
                               phase |-> "ready", deleting |-> FALSE]
        BY <4>1
      <4>3. CASE s > spec[p].count
        BY <4>2, <4>3 DEF Exists
      <4>4. CASE ~(s > spec[p].count)
        BY <4>2, <4>4
      <4> QED BY <4>3, <4>4
    <3>2. CASE ~Settled
      <4>1. pods = [p \in Pools |-> [s \in Slots |-> NoPod]]
        BY <3>2 DEF Init
      <4> QED BY <4>1 DEF NeverBad, Exists
    <3> QED BY <3>1, <3>2
  <2>2. pc = "idle"
    BY DEF Init
  <2> QED BY <2>1, <2>2 DEF ReplaceInv, StrategyKept, DoomedAlive, RequeuesForAll,
                            NoOldImage, Examined
<1>2. TypeOK /\ ReplaceInv /\ [Next]_vars => ReplaceInv'
  BY StepNeverBad, StepStrategyKept, StepDoomedAlive, StepRequeues, StepNoOldImage
     DEF ReplaceInv
<1> QED BY <1>1, <1>2, TypeCorrect, PTL DEF Spec

(* With ReplaceAllOnUpdate no pod of one version is started beside a running pod of
   another, for any number of pools, nodes, edits and crashes of the operator: the list
   of pods is that of the API server, no pod fails or is deleted by others, and no
   deletion fails. *)
THEOREM ReplacedAllAtOnce ==
  ASSUME ~CacheLag, {"bad", "delete", "delete_by_others"} \cap FaultKinds = {}
  PROVE  Spec => UpgradeReplacesAll
<1> DEFINE AllAtOnce ==
      \A p \in Pools, s \in Slots :
        state = "Upgrading" /\ spec[p].strategy = "ReplaceAllOnUpdate"
          /\ ~Exists(p, s) /\ pods'[p][s] # NoPod =>
          \A t \in Slots :
            Alive(p, t) => pods[p][t].tmpl.img = pods'[p][s].tmpl.img
<1>1. ASSUME TypeOK, SavedInv, ReplaceInv, [Next]_vars PROVE AllAtOnce
  <2> SUFFICES ASSUME NEW p \in Pools, NEW s \in Slots, state = "Upgrading",
                      spec[p].strategy = "ReplaceAllOnUpdate",
                      ~Exists(p, s), pods'[p][s] # NoPod,
                      NEW t \in Slots, Alive(p, t)
               PROVE  pods[p][t].tmpl.img = pods'[p][s].tmpl.img
    OBVIOUS
  <2>1. CreatePod /\ p = pi /\ pods' = [pods EXCEPT ![p][s] = NewPod(p)]
    BY <1>1, PodChange
  <2>2. pods'[p][s] = NewPod(p)
    BY <1>1, <2>1 DEF TypeOK, ObjectsOK, PodsOf
  <2>3. pc = "creating" /\ AllowsMaintenance(p)
    BY <1>1, <2>1 DEF CreatePod, SavedInv, CreatesForAllowed
  <2>4. ReplacesAll(p)
    BY <1>1, <2>3 DEF ReplacesAll, ReplaceInv, StrategyKept
  <2>5. HasImage(p)
    BY <1>1, <2>3, <2>4 DEF ReplaceInv, NoOldImage, Examined, Deleting
  <2> QED BY <2>2, <2>5 DEF HasImage, NewPod
<1>2. TypeOK /\ SavedInv /\ ReplaceInv /\ [Next]_vars => [AllAtOnce]_vars
  BY <1>1
<1> HIDE DEF AllAtOnce
<1> QED
  <2>1. Spec => [][AllAtOnce]_vars
    BY <1>2, TypeCorrect, SavedInvariant, ReplaceInvariant, PTL DEF Spec
  <2> QED BY <2>1 DEF AllAtOnce, UpgradeReplacesAll

(***************************************************************************)
(* The budget of a rolling replacement                                     *)
(***************************************************************************)
(* The loss of ready pods is counted anew whenever the pool is full. *)
FullAgain == \A p \in Pools : Full(p) => lost[p] = 0

(* The pods that were ready when they were chosen and are still to be deleted. *)
StillChosen == chosen \cap doomed

WithinBudget ==
  /\ pc = "delete" /\ state \in Replacing /\ mem[pi].pool.strategy = "RollingUpdate"
  /\ StillChosen # {}
  => lost[pi] + Cardinality(StillChosen) <= ScaledMaxUnavailable(mem[pi].pool.count)

(* The rolling updates: all that differs between the templates can be rolled out, and
   no one changes how many nodes there are. *)
OnlyRolling ==
  /\ LatestImages = {}
  /\ \A t, u \in Templates : t.url = u.url
  /\ \A m, n \in Counts : m = n

(* A pod becomes ready only by steps after which full pools are recounted. *)
LEMMA MoreReady ==
  ASSUME TypeOK, [Next]_vars, NEW p \in Pools
  PROVE  \/ Recount
         \/ ReadyPods(p)' \subseteq ReadyPods(p) /\ UNCHANGED spec[p].count
<1> DEFINE Fewer == ReadyPods(p)' \subseteq ReadyPods(p)
<1>1. ASSUME UNCHANGED pods PROVE Fewer
  BY <1>1 DEF ReadyPods, Alive, Exists
<1>2. ASSUME NEW q \in Pools, NEW t \in Slots, pods' = Deleted(q, t) PROVE Fewer
  <2> SUFFICES ASSUME NEW s \in Slots, pods'[p][s] # NoPod, ~pods'[p][s].deleting,
                      pods'[p][s].phase = "ready"
               PROVE  Alive(p, s) /\ pods[p][s].phase = "ready"
    BY DEF ReadyPods, Alive, Exists
  <2>1. CASE p = q /\ s = t
    <3>1. pods'[p][s] = [pods[p][s] EXCEPT !.deleting = TRUE]
      BY <1>2, <2>1 DEF Deleted, TypeOK, ObjectsOK, PodsOf
    <3>2. pods[p][s] \in Pod \/ pods[p][s] = NoPod
      BY DEF TypeOK, ObjectsOK, PodsOf
    <3>3. CASE pods[p][s] \in Pod
      BY <3>1, <3>3 DEF Pod
    <3>4. CASE pods[p][s] = NoPod
      <4>1. pods'[p][s] = NoPod
        BY <3>1, <3>4 DEF NoPod
      <4> QED BY <4>1
    <3> QED BY <3>2, <3>3, <3>4
  <2>2. CASE ~(p = q /\ s = t)
    <3>1. pods'[p][s] = pods[p][s]
      BY <1>2, <2>2 DEF Deleted, TypeOK, ObjectsOK, PodsOf
    <3> QED BY <3>1 DEF Alive, Exists
  <2> QED BY <2>1, <2>2
<1>3. ASSUME NEW q \in Pools, NEW t \in Slots, NEW pod, pod = NoPod \/ pod.phase = "pending",
             pods' = [pods EXCEPT ![q][t] = pod]
      PROVE  Fewer
  <2> SUFFICES ASSUME NEW s \in Slots, pods'[p][s] # NoPod, ~pods'[p][s].deleting,
                      pods'[p][s].phase = "ready"
               PROVE  Alive(p, s) /\ pods[p][s].phase = "ready"
    BY DEF ReadyPods, Alive, Exists
  <2>1. CASE p = q /\ s = t
    <3>1. pods'[p][s] = pod
      BY <1>3, <2>1 DEF TypeOK, ObjectsOK, PodsOf
    <3> QED BY <1>3, <3>1
  <2>2. CASE ~(p = q /\ s = t)
    <3>1. pods'[p][s] = pods[p][s]
      BY <1>3, <2>2 DEF TypeOK, ObjectsOK, PodsOf
    <3> QED BY <3>1 DEF Alive, Exists
  <2> QED BY <2>1, <2>2
<1>4. pi \in Pools
  BY DEF TypeOK, OperatorOK
<1>5. CASE ~Environment
  <2>1. UNCHANGED spec
    BY <1>5 DEF Next, Reconcile, ReconcileFails, vars, inputs, RejectPool, Begin, SkipPool,
       MarkMaintenance, MarkRunning, SaveRevision, DeleteEvicted, PinZone, UnpinZone,
       WaitForOtherPods, StartDeleting, DeletePod, PodIsGone, EndDeleting,
       UpdateServiceAccount, BumpRevision, StartCreating, CreatePod, SeesNewPods,
       WaitForNewPodsTimesOut, AwaitPods, Finish, RejectCluster, DeletePodFails,
       ServiceAccountFails, VolumesFail, CreatePodFails, FinishFails, Crash
  <2>2. CASE DeleteEvicted
    <3>1. UNCHANGED pods \/ pods' = Deleted(pi, Min(In(pi, "evicted")))
      BY <2>2 DEF DeleteEvicted
    <3>2. In(pi, "evicted") # {} /\ In(pi, "evicted") \in SUBSET Slots
      BY <2>2 DEF DeleteEvicted, Examine, Verdict, In, Listed
    <3>3. Min(In(pi, "evicted")) \in Slots
      BY <3>2, FirstSlot
    <3> QED BY <1>1, <1>2, <1>4, <2>1, <3>1, <3>3
  <2>3. CASE DeletePod
    <3>1. Min(doomed) \in Slots
      BY <2>3, FirstSlot DEF DeletePod, TypeOK, OperatorOK
    <3> QED BY <1>2, <1>4, <2>1, <2>3, <3>1 DEF DeletePod
  <2>4. CASE CreatePod
    <3>1. PICK t \in Slots \ Listed(pi) : pods' = [pods EXCEPT ![pi][t] = NewPod(pi)]
      BY <2>4 DEF CreatePod, NewPod
    <3>2. NewPod(pi).phase = "pending"
      BY DEF NewPod
    <3> QED BY <1>3, <1>4, <2>1, <3>1, <3>2
  <2>5. CASE ~(DeleteEvicted \/ DeletePod \/ CreatePod)
    <3>1. UNCHANGED pods
      BY <1>5, <2>5 DEF Next, Reconcile, ReconcileFails, vars, objects, RejectPool, Begin,
         SkipPool, MarkMaintenance, MarkRunning, SaveRevision, PinZone, UnpinZone,
         WaitForOtherPods, StartDeleting, PodIsGone, EndDeleting, UpdateServiceAccount,
         BumpRevision, StartCreating, SeesNewPods, WaitForNewPodsTimesOut, AwaitPods,
         Finish, RejectCluster, DeletePodFails, ServiceAccountFails, VolumesFail,
         CreatePodFails, FinishFails, Crash
    <3> QED BY <1>1, <2>1, <3>1
  <2> QED BY <2>2, <2>3, <2>4, <2>5
<1>6. ASSUME NEW q \in Pools, CacheSync(q) \/ EditAnnotations(q)
      PROVE  Fewer /\ UNCHANGED spec
  BY <1>1, <1>6 DEF CacheSync, EditAnnotations, Edit, inputs
<1>7. ASSUME NEW q \in Pools, EditTemplate(q)
      PROVE  Fewer /\ UNCHANGED spec[p].count
  <2>1. PICK t : spec' = [spec EXCEPT ![q].tmpl = t]
    BY <1>7 DEF EditTemplate
  <2>2. spec \in [Pools -> PoolSpec] /\ spec[q] \in PoolSpec
    BY DEF TypeOK, InputsOK
  <2>3. UNCHANGED spec[p].count
    BY <2>1, <2>2 DEF PoolSpec
  <2> QED BY <1>1, <1>7, <2>3 DEF EditTemplate, Edit
<1>8. ASSUME NEW q \in Pools, EditCount(q) PROVE Recount
  BY <1>8 DEF EditCount
<1>9. ASSUME NEW q \in Pools, NEW t \in Slots,
              \/ BecomeReady(q, t) \/ MinReadySecondsPass(q, t) \/ Recover(q, t)
              \/ Fail(q, t)
       PROVE  Recount
  BY <1>9 DEF BecomeReady, MinReadySecondsPass, Recover, Fail, PodMoves
<1>10. ASSUME NEW q \in Pools, NEW t \in Slots, DeleteByOthers(q, t) \/ ReplaceByHand(q, t)
       PROVE  Fewer /\ UNCHANGED spec
  BY <1>2, <1>10 DEF DeleteByOthers, ReplaceByHand, inputs
<1>11. ASSUME NEW q \in Pools, NEW t \in Slots, Terminated(q, t)
       PROVE  Fewer /\ UNCHANGED spec
  BY <1>3, <1>11 DEF Terminated, inputs
<1>12. ASSUME NEW q \in Pools, NEW t \in Slots, Schedule(q, t)
       PROVE  Fewer /\ UNCHANGED spec
  <2>1. pods[q][t] \in Pod
    BY <1>12 DEF Schedule, Alive, Exists, TypeOK, ObjectsOK, PodsOf
  <2>2. PICK z \in Zones :
          pods' = [pods EXCEPT ![q][t].zone = z, ![q][t].phase = "pending"]
    BY <1>12 DEF Schedule
  <2> DEFINE pod == [pods[q][t] EXCEPT !.zone = z, !.phase = "pending"]
  <2>3. pods' = [pods EXCEPT ![q][t] = pod]
    BY <2>1, <2>2 DEF Pod, TypeOK, ObjectsOK, PodsOf
  <2>4. pod.phase = "pending"
    BY <2>1 DEF Pod
  <2> HIDE DEF pod
  <2> QED BY <1>3, <1>12, <2>3, <2>4 DEF Schedule, inputs
<1>13. CASE Environment
  BY <1>6, <1>7, <1>8, <1>9, <1>10, <1>11, <1>12, <1>13 DEF Environment
<1> QED BY <1>5, <1>13

(* How the count of the lost pods changes. *)
LEMMA LostChange ==
  ASSUME [Next]_vars
  PROVE  Recount \/ UNCHANGED lost \/ DeletePod
<1>1. CASE Reconcile
  BY <1>1 DEF Reconcile, objects, RejectPool, Begin, SkipPool, MarkMaintenance,
     MarkRunning, SaveRevision, DeleteEvicted, PinZone, UnpinZone, WaitForOtherPods,
     StartDeleting, PodIsGone, EndDeleting, UpdateServiceAccount, BumpRevision,
     StartCreating, CreatePod, SeesNewPods, WaitForNewPodsTimesOut, AwaitPods, Finish
<1>2. CASE ReconcileFails
  BY <1>2 DEF ReconcileFails, objects, RejectCluster, DeletePodFails, ServiceAccountFails,
     VolumesFail, CreatePodFails, FinishFails, Crash
<1>3. ASSUME NEW p \in Pools, NEW s \in Slots,
             \/ BecomeReady(p, s) \/ MinReadySecondsPass(p, s) \/ Recover(p, s)
             \/ Fail(p, s)
      PROVE  Recount
  BY <1>3 DEF BecomeReady, MinReadySecondsPass, Recover, Fail, PodMoves
<1>4. ASSUME NEW p \in Pools, NEW s \in Slots,
             \/ Schedule(p, s) \/ Terminated(p, s) \/ DeleteByOthers(p, s)
             \/ ReplaceByHand(p, s)
      PROVE  UNCHANGED lost
  BY <1>4 DEF Schedule, Terminated, DeleteByOthers, ReplaceByHand
<1>5. ASSUME NEW p \in Pools,
             CacheSync(p) \/ EditTemplate(p) \/ EditCount(p) \/ EditAnnotations(p)
      PROVE  Recount \/ UNCHANGED lost
  BY <1>5 DEF CacheSync, EditTemplate, EditCount, EditAnnotations
<1>6. CASE UNCHANGED vars
  BY <1>6 DEF vars, objects
<1> QED BY <1>1, <1>2, <1>3, <1>4, <1>5, <1>6 DEF Next, Environment

LEMMA ReadyCount ==
  ASSUME NEW p \in Pools
  PROVE  /\ ReadyPods(p) \in SUBSET Slots /\ ReadyPods(p)' \in SUBSET Slots
         /\ Cardinality(ReadyPods(p)) \in Nat /\ Cardinality(ReadyPods(p)') \in Nat
<1>1. ReadyPods(p) \in SUBSET Slots /\ ReadyPods(p)' \in SUBSET Slots
  BY DEF ReadyPods
<1> QED BY <1>1, SlotCount

(* The counts of a spec are numbers of nodes. *)
LEMMA CountIsNat ==
  ASSUME TypeOK, NEW p \in Pools
  PROVE  spec[p].count \in Counts /\ spec[p].count \in Nat
         /\ mem[p].pool.count \in Counts /\ mem[p].pool.count \in Nat
BY CountsAssumption DEF TypeOK, InputsOK, OperatorOK, PoolSpec, Manager

(* A ready pod that is deleted is one less. *)
LEMMA OneReadyLess ==
  ASSUME TypeOK, NEW p \in Pools, NEW s \in ReadyPods(p), pods' = Deleted(p, s)
  PROVE  ReadyPods(p)' \subseteq ReadyPods(p) \ {s}
<1>1. s \in Slots
  BY DEF ReadyPods
<1>2. ASSUME NEW t \in Slots, t # s PROVE pods'[p][t] = pods[p][t]
  BY <1>1, <1>2 DEF Deleted, TypeOK, ObjectsOK, PodsOf
<1>3. pods[p][s] \in Pod
  BY <1>1 DEF TypeOK, ObjectsOK, PodsOf, ReadyPods, Alive, Exists
<1>4. pods'[p][s].deleting
  BY <1>1, <1>3 DEF Deleted, TypeOK, ObjectsOK, PodsOf, Pod
<1> QED BY <1>2, <1>4 DEF ReadyPods, Alive, Exists

LEMMA StepFullAgain ==
  ASSUME TypeOK, FullAgain, [Next]_vars
  PROVE  FullAgain'
<1> SUFFICES ASSUME NEW p \in Pools, Full(p)' PROVE lost'[p] = 0
  BY DEF FullAgain
<1>1. CASE Recount
  BY <1>1 DEF Recount
<1>2. CASE ~Recount
  <2>1. ReadyPods(p)' \subseteq ReadyPods(p) /\ spec'[p].count = spec[p].count
    BY <1>2, MoreReady
  <2>2. Cardinality(ReadyPods(p)') >= spec[p].count
    BY <2>1 DEF Full
  <2>3. Cardinality(ReadyPods(p)') <= Cardinality(ReadyPods(p))
    BY <2>1, ReadyCount, FewerSlots
  <2>4. lost[p] = 0
    BY <2>2, <2>3, ReadyCount, CountIsNat DEF Full, FullAgain
  <2>5. CASE UNCHANGED lost
    BY <2>4, <2>5
  <2>6. CASE DeletePod
    <3> DEFINE s == Min(doomed)
    <3>1. /\ pods' = Deleted(pi, s)
          /\ lost' = [lost EXCEPT ![pi] =
                        IF /\ s \in chosen \cap ReadyPods(pi)
                           /\ Cardinality(ReadyPods(pi)) <= spec[pi].count
                        THEN @ + 1 ELSE @]
      BY <2>6 DEF DeletePod
    <3> HIDE DEF s
    <3>2. pi \in Pools /\ lost \in [Pools -> Nat]
      BY DEF TypeOK, OperatorOK, ObjectsOK
    <3>3. CASE p # pi
      BY <2>4, <3>1, <3>2, <3>3
    <3>4. CASE p = pi /\ ~(/\ s \in chosen \cap ReadyPods(pi)
                           /\ Cardinality(ReadyPods(pi)) <= spec[pi].count)
      BY <2>4, <3>1, <3>2, <3>4
    <3>5. CASE p = pi /\ /\ s \in ReadyPods(pi)
                         /\ Cardinality(ReadyPods(pi)) <= spec[pi].count
      <4>1. ReadyPods(p)' \subseteq ReadyPods(p) \ {s}
        BY <3>1, <3>5, OneReadyLess
      <4>2. IsFiniteSet(ReadyPods(p)) /\ ReadyPods(p) \ {s} \in SUBSET Slots
        BY ReadyCount, SlotsAreFinite
      <4>3. Cardinality(ReadyPods(p) \ {s}) = Cardinality(ReadyPods(p)) - 1
        BY <3>5, <4>2, FS_RemoveElement
      <4>4. Cardinality(ReadyPods(p)') <= Cardinality(ReadyPods(p)) - 1
        BY <4>1, <4>2, <4>3, FewerSlots
      <4> QED BY <2>2, <3>5, <4>4, ReadyCount, CountIsNat
    <3> QED BY <3>3, <3>4, <3>5
  <2> QED BY <1>2, <2>5, <2>6, LostChange
<1> QED BY <1>1, <1>2

(* The loop that stops after k pods has no more than k. *)
LEMMA FirstAreFew ==
  ASSUME NEW S \in SUBSET Slots, NEW k \in Nat
  PROVE  FirstOf(S, k) \in SUBSET S /\ Cardinality(FirstOf(S, k)) <= k
<1> DEFINE F == FirstOf(S, k)
<1>1. F \in SUBSET S /\ F \in SUBSET Slots /\ F \in SUBSET Nat
  <2>1. F \subseteq S
    BY DEF FirstOf
  <2>2. Slots \subseteq Nat
    BY MaxPodsAssumption DEF Slots
  <2> QED BY <2>1, <2>2
<1>2. CASE F = {}
  BY <1>1, <1>2, FS_EmptySet
<1>3. CASE F # {}
  <2>1. Max(F) \in F /\ \A s \in F : s <= Max(F)
    BY <1>1, <1>3, SlotsAreFinite, MaxIsLargest
  <2> DEFINE m == Max(F)
             Before == {t \in S : t < m}
  <2>2. m \in Slots /\ Before \in SUBSET Slots /\ Cardinality(Before) < k
    BY <1>1, <2>1 DEF FirstOf
  <2>3. F \subseteq Before \cup {m}
    BY <1>1, <2>1
  <2> HIDE DEF F, m, Before
  <2>4. Cardinality(F) <= Cardinality(Before) + 1
    BY <2>2, <2>3, OneMoreSlot
  <2> QED BY <1>1, <2>2, <2>4, SlotCount DEF F
<1> QED BY <1>1, <1>2, <1>3

(* maxUnavailable, as it is scaled, is a number of pods, and bounds the budget. *)
LEMMA ScaledIsNat ==
  ASSUME NEW n \in Nat
  PROVE  ScaledMaxUnavailable(n) \in Nat
<1>1. MaxUnavailable * n \in Nat
  BY UnavailableAssumption
<1>2. (MaxUnavailable * n) \div 100 \in Int
  BY <1>1
<1>3. ScaledMaxUnavailable(n) \in Int /\ ScaledMaxUnavailable(n) >= 0
  BY <1>2, UnavailableAssumption DEF ScaledMaxUnavailable
<1> QED BY <1>3

LEMMA BudgetIsBounded ==
  ASSUME TypeOK, NEW p \in Pools
  PROVE  DeletionBudget(p) \in Nat /\ DeletionBudget(p) <= ScaledMaxUnavailable(mem[p].pool.count)
<1>1. In(p, "warm") \in SUBSET Slots
  BY DEF In, Listed
<1> QED BY <1>1, SlotCount, ScaledIsNat, CountIsNat DEF DeletionBudget

(* When pods of a rolling replacement are chosen the pool is full, or none of them is
   ready: the gate on waitingOnPods. *)
LEMMA ChosenOfFullPool ==
  ASSUME OnlyRolling, ~CacheLag, TypeOK, Examine("delete"), state \in Replacing,
         mem[pi].pool.strategy = "RollingUpdate",
         ToBeReplaced(pi) \cap In(pi, "ready") # {}
  PROVE  Full(pi)
<1>1. pi \in Pools /\ mem[pi].pool.tmpl \in Templates
  BY DEF TypeOK, OperatorOK, Manager, PoolSpec
<1>2. ~(Waiting(pi) /\ ShouldRollingRestart(pi)) /\ In(pi, "evicted") = {}
      /\ AllowsMaintenance(pi) /\ Mismatched(pi) # {}
  <2>1. Verdict(pi) = "delete"
    BY DEF Examine
  <2> QED BY <2>1 DEF Verdict, DifferenceDetected
<1>3. Listed(pi) \in SUBSET Slots /\ Mismatched(pi) \in SUBSET Slots
      /\ \A s \in Mismatched(pi) : s \in Listed(pi)
  BY DEF Listed, Mismatched, Compared, In
<1>4. \A s \in Listed(pi) : View(pi)[s].tmpl \in Templates
  BY <1>1 DEF Listed, View, TypeOK, ObjectsOK, PodsOf, Pod
<1>5. ShouldRollingRestart(pi)
  <2>1. Max(Mismatched(pi)) \in Mismatched(pi)
    <3>1. Mismatched(pi) \in SUBSET Nat
      BY <1>3, MaxPodsAssumption DEF Slots
    <3>2. PICK s \in Mismatched(pi) : TRUE
      BY <1>2
    <3> QED BY <1>3, <3>1, <3>2, SlotsAreFinite, MaxIsLargest
  <2>2. View(pi)[Max(Mismatched(pi))].tmpl.url = mem[pi].pool.tmpl.url
    BY <1>1, <1>3, <1>4, <2>1 DEF OnlyRolling
  <2> QED BY <2>2 DEF ShouldRollingRestart, OnlyRolling
<1>6. In(pi, "bad") = {}
  BY DEF ToBeReplaced, Mismatched, Compared, In
<1>7. Cardinality(In(pi, "ready")) >= mem[pi].pool.count
  <2>1. ~Waiting(pi)
    BY <1>2, <1>5
  <2>2. In(pi, "ready") \in SUBSET Slots
    BY DEF In, Listed
  <2> QED BY <1>1, <1>2, <1>6, <2>1, <2>2, SlotCount, CountIsNat DEF Waiting
<1>8. In(pi, "ready") = ReadyPods(pi)
  BY DEF In, Listed, View, ReadyPods, Alive, Exists
<1>9. mem[pi].pool.count = spec[pi].count
  BY <1>1, CountIsNat DEF OnlyRolling
<1> QED BY <1>7, <1>8, <1>9 DEF Full

LEMMA StepWithinBudget ==
  ASSUME OnlyRolling, ~CacheLag, TypeOK, FullAgain, WithinBudget, [Next]_vars
  PROVE  WithinBudget'
<1> SUFFICES ASSUME pc' = "delete", state' \in Replacing,
                    mem'[pi'].pool.strategy = "RollingUpdate", StillChosen' # {}
             PROVE  lost'[pi'] + Cardinality(StillChosen')
                      <= ScaledMaxUnavailable(mem'[pi'].pool.count)
  BY DEF WithinBudget, ScaledMaxUnavailable
<1>1. ~Begin
  BY DEF Begin, Goto
<1>2. pc # "idle" /\ UNCHANGED <<state, status, mem>>
  BY <1>1, Course
<1>3. pi \in Pools /\ pi' \in Pools /\ lost \in [Pools -> Nat] /\ lost' \in [Pools -> Nat]
  BY StepType DEF TypeOK, OperatorOK, ObjectsOK
<1>4. StillChosen \in SUBSET Slots /\ StillChosen' \in SUBSET Slots
  BY StepType DEF StillChosen, TypeOK, OperatorOK
<1>5. ScaledMaxUnavailable(mem[pi].pool.count) \in Nat
  BY <1>3, ScaledIsNat, CountIsNat
<1>6. ASSUME ~DeletePod PROVE lost'[pi] <= lost[pi]
  <2>1. Recount \/ UNCHANGED lost
    BY <1>6, LostChange
  <2>2. CASE Recount
    <3>1. lost'[pi] = 0 \/ lost'[pi] = lost[pi]
      BY <1>3, <2>2 DEF Recount
    <3> QED BY <1>3, <3>1
  <2> QED BY <1>3, <2>1, <2>2
<1>7. CASE DeletePod
  <2> DEFINE s == Min(doomed)
  <2>1. /\ pc = "delete" /\ pi' = pi /\ doomed' = doomed \ {s} /\ chosen' = chosen
        /\ lost'[pi] = lost[pi] \/ (s \in chosen /\ lost'[pi] = lost[pi] + 1)
    BY <1>3, <1>7 DEF DeletePod
  <2>2. s \in doomed
    BY <1>7, FirstSlot DEF DeletePod, TypeOK, OperatorOK
  <2> HIDE DEF s
  <2>3. StillChosen' = StillChosen \ {s}
    BY <2>1 DEF StillChosen
  <2>4. lost[pi] + Cardinality(StillChosen) <= ScaledMaxUnavailable(mem[pi].pool.count)
    BY <1>2, <2>1, <2>3 DEF WithinBudget
  <2>5. Cardinality(StillChosen) \in Nat /\ Cardinality(StillChosen') \in Nat
    BY <1>4, SlotCount
  <2>6. CASE s \in chosen
    <3>1. s \in StillChosen
      BY <2>2, <2>6 DEF StillChosen
    <3>2. Cardinality(StillChosen') = Cardinality(StillChosen) - 1
      BY <1>4, <2>3, <3>1, SlotsAreFinite, FS_RemoveElement
    <3>3. lost'[pi] <= lost[pi] + 1
      BY <1>3, <2>1
    <3>4. lost'[pi] + Cardinality(StillChosen') <= ScaledMaxUnavailable(mem[pi].pool.count)
      BY <1>3, <1>5, <2>4, <2>5, <3>2, <3>3
    <3> QED BY <1>2, <2>1, <3>4 DEF ScaledMaxUnavailable
  <2>7. CASE s \notin chosen
    <3>1. StillChosen' = StillChosen
      BY <2>3, <2>7 DEF StillChosen
    <3> QED BY <1>2, <2>1, <2>4, <2>7, <3>1 DEF ScaledMaxUnavailable
  <2> QED BY <2>6, <2>7
<1>8. CASE UNCHANGED operator
  <2>1. UNCHANGED <<pc, pi, StillChosen>>
    BY <1>8 DEF operator, StillChosen
  <2>2. ~DeletePod
    <3> SUFFICES ASSUME DeletePod PROVE FALSE
      OBVIOUS
    <3>1. doomed' = doomed \ {Min(doomed)} /\ Min(doomed) \in doomed
      BY FirstSlot DEF DeletePod, TypeOK, OperatorOK
    <3> QED BY <1>8, <3>1 DEF operator
  <2>3. lost[pi] + Cardinality(StillChosen) <= ScaledMaxUnavailable(mem[pi].pool.count)
    BY <1>2, <2>1 DEF WithinBudget
  <2>4. Cardinality(StillChosen) \in Nat
    BY <1>4, SlotCount
  <2>5. lost'[pi] + Cardinality(StillChosen) <= ScaledMaxUnavailable(mem[pi].pool.count)
    BY <1>3, <1>5, <1>6, <2>2, <2>3, <2>4
  <2> QED BY <1>2, <2>1, <2>5 DEF ScaledMaxUnavailable
<1>9. CASE StartDeleting
  <2>1. /\ Examine("delete") /\ pi' = pi /\ UNCHANGED lost
        /\ doomed' = FirstOf(ToBeReplaced(pi), DeletionBudget(pi))
        /\ chosen' = doomed' \cap In(pi, "ready")
    BY <1>9 DEF StartDeleting, objects
  <2>2. ToBeReplaced(pi) \in SUBSET Slots
    BY DEF ToBeReplaced, Mismatched, Compared, In, Listed
  <2>3. doomed' \in SUBSET ToBeReplaced(pi) /\ Cardinality(doomed') <= DeletionBudget(pi)
    BY <1>3, <2>1, <2>2, FirstAreFew, BudgetIsBounded
  <2>4. StillChosen' \in SUBSET doomed' /\ doomed' \in SUBSET Slots
        /\ StillChosen' \in SUBSET In(pi, "ready")
    BY <2>1, <2>2, <2>3 DEF StillChosen
  <2>5. Full(pi)
    BY <1>2, <2>1, <2>3, <2>4, ChosenOfFullPool
  <2>6. lost'[pi] = 0
    BY <1>3, <2>1, <2>5 DEF FullAgain
  <2>7. Cardinality(StillChosen') <= Cardinality(doomed')
    BY <2>4, FewerSlots
  <2>8. Cardinality(StillChosen') \in Nat /\ Cardinality(doomed') \in Nat
    BY <1>4, <2>4, SlotCount
  <2>9. lost'[pi] + Cardinality(StillChosen') <= ScaledMaxUnavailable(mem[pi].pool.count)
    BY <1>3, <1>5, <2>3, <2>6, <2>7, <2>8, BudgetIsBounded
  <2> QED BY <1>2, <2>1, <2>9 DEF ScaledMaxUnavailable
<1>10. CASE CreatePod \/ NextPool \/ UpdateServiceAccount \/ StartCreating
  BY <1>10 DEF CreatePod, NextPool, Goto, UpdateServiceAccount, StartCreating
<1> QED BY <1>1, <1>7, <1>8, <1>9, <1>10, Course

BudgetInv == StrategyKept /\ FullAgain /\ WithinBudget

LEMMA BudgetInvariant ==
  ASSUME OnlyRolling, ~CacheLag
  PROVE  Spec => []BudgetInv
<1>1. Init => BudgetInv
  BY DEF Init, BudgetInv, StrategyKept, FullAgain, WithinBudget
<1>2. TypeOK /\ BudgetInv /\ [Next]_vars => BudgetInv'
  BY StepStrategyKept, StepFullAgain, StepWithinBudget DEF BudgetInv
<1> QED BY <1>1, <1>2, TypeCorrect, PTL DEF Spec

(* A rolling replacement takes down at most maxUnavailable ready pods before the pool is
   full again: for any number of pools and nodes, any edits of what can be rolled out, any
   failures and crashes, on a list of pods that is current. *)
THEOREM RollsWithinBudget ==
  ASSUME OnlyRolling, ~CacheLag
  PROVE  Spec => RollingBudget
<1> DEFINE Within ==
      \A p \in Pools :
        Rolling(p) /\ state \in Replacing /\ lost'[p] > lost[p] =>
          lost'[p] <= ScaledMaxUnavailable(mem[p].pool.count)
<1>1. ASSUME TypeOK, BudgetInv, [Next]_vars PROVE Within
  <2> SUFFICES ASSUME NEW p \in Pools, Rolling(p), state \in Replacing, lost'[p] > lost[p]
               PROVE  lost'[p] <= ScaledMaxUnavailable(mem[p].pool.count)
    OBVIOUS
  <2>1. pi \in Pools /\ lost \in [Pools -> Nat]
    BY <1>1 DEF TypeOK, OperatorOK, ObjectsOK
  <2>2. ~(lost'[p] = 0 \/ lost'[p] = lost[p])
    BY <2>1
  <2>3. DeletePod
    <3>1. ~UNCHANGED lost /\ ~Recount
      BY <2>2 DEF Recount
    <3> QED BY <1>1, <3>1, LostChange
  <2>4. /\ pc = "delete" /\ doomed # {}
        /\ p = pi /\ Min(doomed) \in chosen /\ lost'[p] = lost[p] + 1
    BY <2>1, <2>2, <2>3 DEF DeletePod
  <2>5. Min(doomed) \in StillChosen /\ StillChosen \in SUBSET Slots
    BY <1>1, <2>4, FirstSlot DEF StillChosen, TypeOK, OperatorOK
  <2>6. mem[pi].pool.strategy = "RollingUpdate"
    BY <1>1, <2>4 DEF BudgetInv, StrategyKept, Rolling
  <2>7. lost[p] + Cardinality(StillChosen) <= ScaledMaxUnavailable(mem[p].pool.count)
    BY <1>1, <2>4, <2>5, <2>6 DEF BudgetInv, WithinBudget
  <2>8. Cardinality(StillChosen) \in Nat /\ Cardinality(StillChosen) # 0
    BY <2>5, SlotCount, NoSlots
  <2>9. ScaledMaxUnavailable(mem[p].pool.count) \in Nat
    BY <1>1, ScaledIsNat, CountIsNat
  <2> QED BY <2>1, <2>4, <2>7, <2>8, <2>9
<1>2. TypeOK /\ BudgetInv /\ [Next]_vars => [Within]_vars
  BY <1>1
<1> HIDE DEF Within
<1> QED
  <2>1. Spec => [][Within]_vars
    BY <1>2, TypeCorrect, BudgetInvariant, PTL DEF Spec
  <2> QED BY <2>1 DEF Within, RollingBudget
=============================================================================
