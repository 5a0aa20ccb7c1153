--------------------------- MODULE EvictionProofs ---------------------------
(***************************************************************************)
(* What holds of Eviction for every set of pods, every placement in zones  *)
(* and every goal, with any number of edits and failures.                  *)
(***************************************************************************)
EXTENDS Eviction, FiniteSetTheorems, TLAPS

(***************************************************************************)
(* Types                                                                   *)
(***************************************************************************)
LEMMA StageType ==
  ASSUME TypeOK, NEW s \in Stages, Goto(s)
  PROVE  op' \in Op
BY DEF TypeOK, Op, Goto

LEMMA ReturnType == TypeOK /\ Return => op' \in Op
BY DEF TypeOK, Op, Return, Stages

(* Removing pods from those that are left to look at. *)
LEMMA RestType ==
  ASSUME TypeOK, NEW p, op' = [op EXCEPT !.rest = @ \ {p}]
  PROVE  op' \in Op
BY DEF TypeOK, Op

LEMMA UnregisterType ==
  ASSUME TypeOK, NEW p \in Pods, Unregister(p)
  PROVE  node' \in [Pods -> Node] /\ evicted' \subseteq Pods
<1>1. NoNode \in Node
  BY DEF NoNode, Node
<1> QED BY <1>1 DEF TypeOK, Unregister

LEMMA CountersType ==
  ASSUME TypeOK, NoFault
  PROVE  count' \in Counts /\ lagging' \in Lags /\ faults' \in 0..MaxFaults /\ edits' \in 0..MaxEdits
BY DEF TypeOK, NoFault

LEMMA FaultType ==
  ASSUME TypeOK, NEW f, Fault(f)
  PROVE  count' \in Counts /\ lagging' \in Lags /\ faults' \in 0..MaxFaults /\ edits' \in 0..MaxEdits
BY EvictionAssumption DEF TypeOK, Fault

(* In the initial states every variable has its type. *)
LEMMA InitType == Init => TypeOK
<1> SUFFICES ASSUME Init PROVE TypeOK
  OBVIOUS
<1>1. PICK S \in SUBSET Pods :
        /\ pod = [p \in Pods |-> IF p \in S THEN "ready" ELSE "none"]
        /\ node = [p \in Pods |-> IF p \in S THEN NewNode ELSE NoNode]
  BY DEF Init
<1>2. NoNode \in Node /\ NewNode \in Node
  BY DEF NoNode, NewNode, Node
<1>3. op \in Op
  BY DEF Init, Op, Stages
<1>4. faults \in 0..MaxFaults /\ edits \in 0..MaxEdits
  BY EvictionAssumption DEF Init
<1> QED BY <1>1, <1>2, <1>3, <1>4 DEF TypeOK, Init

(* Every step keeps the types. *)
LEMMA NextType == TypeOK /\ [Next]_vars => TypeOK'
<1> SUFFICES ASSUME TypeOK, [Next]_vars PROVE TypeOK'
  OBVIOUS
<1>1. CASE CreatePods
  <2>1. pod' \in [Pods -> {"none", "starting", "ready", "ending"}]
    BY <1>1 DEF CreatePods, TypeOK
  <2> QED BY <1>1, <2>1, CountersType DEF CreatePods, TypeOK
<1>2. CASE BeginDownscaling
  <2>1. op' \in Op
    BY <1>2 DEF BeginDownscaling, TypeOK, Op, Stages, Existing
  <2> QED BY <1>2, <2>1, CountersType DEF BeginDownscaling, TypeOK
<1>3. CASE LabelUnmarked
  <2>1. PICK p \in op.rest : WriteLabel(p, op' = [op EXCEPT !.rest = @ \ {p}])
    BY <1>3 DEF LabelUnmarked
  <2>2. p \in Pods
    BY DEF TypeOK, Op
  <2>3. op' = [op EXCEPT !.rest = @ \ {p}] \/ Return
    BY <2>1 DEF WriteLabel
  <2>4. op' \in Op
    BY <2>3, RestType, ReturnType
  <2>5. labelled' \subseteq Pods /\ unseen' \subseteq labelled'
    BY <2>1, <2>2 DEF WriteLabel, TypeOK
  <2> QED BY <1>3, <2>4, <2>5, CountersType DEF LabelUnmarked, TypeOK
<1>4. CASE NoneUnmarked
  <2>1. op' \in Op
    BY <1>4 DEF NoneUnmarked, TypeOK, Op, Stages
  <2> QED BY <1>4, <2>1, CountersType DEF NoneUnmarked, TypeOK
<1>5. CASE UnregisterLingering
  <2>1. PICK p \in op.rest : Unregister(p) /\ op' = [op EXCEPT !.rest = @ \ {p}]
    BY <1>5 DEF UnregisterLingering
  <2>2. p \in Pods
    BY DEF TypeOK, Op
  <2>3. node' \in [Pods -> Node] /\ evicted' \subseteq Pods
    BY <2>1, <2>2, UnregisterType
  <2>4. op' \in Op
    BY <2>1, RestType
  <2> QED BY <1>5, <2>3, <2>4, CountersType DEF UnregisterLingering, TypeOK
<1>6. CASE Decide
  <2>1. \/ op' = [op EXCEPT !.pc = "check", !.rest = Existing \cap Marked]
        \/ Goto("mark") \/ Return
    BY <1>6 DEF Decide
  <2>2. op' \in Op
    <3>1. CASE op' = [op EXCEPT !.pc = "check", !.rest = Existing \cap Marked]
      BY <3>1 DEF TypeOK, Op, Stages, Existing
    <3>2. CASE Goto("mark")
      BY <3>2, StageType DEF Stages
    <3> QED BY <2>1, <3>1, <3>2, ReturnType
  <2> QED BY <1>6, <2>2, CountersType DEF Decide, TypeOK
<1>7. CASE Evict
  <2>1. PICK p \in Removable(op.unmarked) :
          \/ /\ \E lag \in {lagging, FALSE} :
                  node' = [node EXCEPT ![p] = Told(@, lag)]
             /\ op' = [op EXCEPT !.pc = "label", !.on = {p}]
          \/ UNCHANGED node /\ Return
    BY <1>7 DEF Evict
  <2>2. p \in Pods
    BY DEF Removable, TypeOK, Op
  <2>3. node' \in [Pods -> Node] /\ op' \in Op
    <3>1. CASE UNCHANGED node /\ Return
      BY <3>1, ReturnType DEF TypeOK
    <3>2. ASSUME NEW lag \in {lagging, FALSE},
                 node' = [node EXCEPT ![p] = Told(@, lag)],
                 op' = [op EXCEPT !.pc = "label", !.on = {p}]
          PROVE  node' \in [Pods -> Node] /\ op' \in Op
      <4>1. op' \in Op
        BY <3>2, <2>2 DEF TypeOK, Op, Stages
      <4>2. node[p] \in Node
        BY <2>2 DEF TypeOK
      <4>3. Told(node[p], lag) \in Node
        BY <4>2 DEF Node, Told
      <4>4. node' \in [Pods -> Node]
        BY <3>2, <4>3 DEF TypeOK
      <4> QED BY <4>1, <4>4
    <3>3. CASE \E lag \in {lagging, FALSE} :
                 /\ node' = [node EXCEPT ![p] = Told(@, lag)]
                 /\ op' = [op EXCEPT !.pc = "label", !.on = {p}]
      BY <3>2, <3>3
    <3> QED BY <2>1, <3>1, <3>3
  <2> QED BY <1>7, <2>3, CountersType DEF Evict, TypeOK
<1>8. CASE LabelVictim
  <2>1. PICK p \in op.on :
          \/ WriteLabel(p, Return)
          \/ UNCHANGED <<labelled, unseen>> /\ Return
    BY <1>8 DEF LabelVictim
  <2>2. p \in Pods
    BY DEF TypeOK, Op
  <2>3. Return
    BY <2>1 DEF WriteLabel
  <2>4. labelled' \subseteq Pods /\ unseen' \subseteq labelled'
    BY <2>1, <2>2 DEF WriteLabel, TypeOK
  <2> QED BY <1>8, <2>3, <2>4, ReturnType, CountersType DEF LabelVictim, TypeOK
<1>9. CASE StillEvicting
  <2>1. op' \in Op
    BY <1>9, RestType DEF StillEvicting
  <2> QED BY <1>9, <2>1, CountersType DEF StillEvicting, TypeOK
<1>10. CASE RecordEvicted
  <2>1. PICK p \in op.rest :
          /\ evicted' = evicted \cup {p}
          /\ op' = [op EXCEPT !.pc = "delete", !.on = {p}]
    BY <1>10 DEF RecordEvicted
  <2>2. p \in Pods
    BY DEF TypeOK, Op
  <2>3. op' \in Op
    BY <2>1, <2>2 DEF TypeOK, Op, Stages
  <2>4. evicted' \subseteq Pods
    BY <2>1, <2>2 DEF TypeOK
  <2> QED BY <1>10, <2>3, <2>4, CountersType DEF RecordEvicted, TypeOK
<1>11. CASE DeletePod
  <2>1. PICK p \in op.on :
          \/ Return /\ UNCHANGED pod
          \/ pod' = [pod EXCEPT ![p] = "ending"] /\ Goto("unregister")
    BY <1>11 DEF DeletePod
  <2>2. op' \in Op
    BY <2>1, ReturnType, StageType DEF Stages
  <2>3. pod' \in [Pods -> {"none", "starting", "ready", "ending"}]
    BY <2>1 DEF TypeOK
  <2> QED BY <1>11, <2>2, <2>3, CountersType DEF DeletePod, TypeOK
<1>12. CASE UnregisterDeleted
  <2>1. PICK p \in op.on :
          /\ Unregister(p)
          /\ op' = [op EXCEPT !.pc = "check", !.rest = @ \ {p}, !.on = {}]
    BY <1>12 DEF UnregisterDeleted
  <2>2. p \in Pods /\ op' \in Op
    BY <2>1 DEF TypeOK, Op, Stages
  <2>3. node' \in [Pods -> Node] /\ evicted' \subseteq Pods
    BY <2>1, <2>2, UnregisterType
  <2> QED BY <1>12, <2>2, <2>3, CountersType DEF UnregisterDeleted, TypeOK
<1>13. CASE EndDownscaling
  BY <1>13, ReturnType, CountersType DEF EndDownscaling, TypeOK
<1>14. CASE Abort
  BY <1>14, ReturnType, FaultType DEF Abort, TypeOK
<1>15. CASE CacheCatchesUp
  BY <1>15, CountersType DEF CacheCatchesUp, TypeOK
<1>16. CASE ScalePool
  BY <1>16, EvictionAssumption DEF ScalePool, TypeOK
<1>17. ASSUME NEW p \in Pods, World(p) PROVE TypeOK'
  <2>1. CASE PodStarts(p)
    <3>1. NewNode \in Node
      BY DEF NewNode, Node
    <3> QED BY <2>1, <3>1, CountersType DEF PodStarts, TypeOK
  <2>2. CASE PodEnds(p)
    BY <2>2, CountersType DEF PodEnds, TypeOK
  <2>3. CASE ShowEviction(p)
    <3>1. [node[p] EXCEPT !.shown = TRUE] \in Node
      BY DEF TypeOK, Node
    <3>2. node' \in [Pods -> Node]
      BY <2>3, <3>1 DEF ShowEviction, TypeOK
    <3> QED BY <2>3, <3>2, CountersType DEF ShowEviction, TypeOK
  <2>4. CASE GiveAway(p)
    <3>1. [node[p] EXCEPT !.data = FALSE] \in Node
      BY DEF TypeOK, Node
    <3>2. node' \in [Pods -> Node]
      BY <2>4, <3>1 DEF GiveAway, TypeOK
    <3> QED BY <2>4, <3>2, CountersType DEF GiveAway, TypeOK
  <2> QED BY <1>17, <2>1, <2>2, <2>3, <2>4 DEF World
<1>18. ASSUME NEW p \in Pods, DeleteByOthers(p) PROVE TypeOK'
  BY <1>18, FaultType DEF DeleteByOthers, TypeOK
<1>19. CASE UNCHANGED vars
  BY <1>19 DEF vars, TypeOK
<1> QED BY <1>1, <1>2, <1>3, <1>4, <1>5, <1>6, <1>7, <1>8, <1>9, <1>10, <1>11, <1>12, <1>13,
           <1>14, <1>15, <1>16, <1>17, <1>18, <1>19 DEF Next, Reconcile

(* Every variable keeps its type (the state that humiocluster_controller.go:2270 to 2598
   reads and writes). *)
THEOREM EvictionTypeCorrect == Spec => []TypeOK
BY InitType, NextType, PTL DEF Spec

(***************************************************************************)
(* What the operator has read about the pod it deletes stays true: data    *)
(* never comes back to a node, and no pod starts during a reconcile that   *)
(* downscales, so that no name stands for a new node meanwhile.            *)
(***************************************************************************)
NoneStarting == ~At("idle") => \A p \in Pods : pod[p] # "starting"
EmptyIsEvicting == \A p \in Pods : node[p].known /\ ~node[p].data => node[p].evicting
ChosenIsEmpty == At("delete") => \A p \in op.on : p \in evicted /\ node[p].known /\ ~node[p].data
Reading == NoneStarting /\ EmptyIsEvicting /\ ChosenIsEmpty

LEMMA InitReading == Init => Reading
<1> SUFFICES ASSUME Init PROVE Reading
  OBVIOUS
<1>1. PICK S \in SUBSET Pods : node = [p \in Pods |-> IF p \in S THEN NewNode ELSE NoNode]
  BY DEF Init
<1>2. EmptyIsEvicting
  BY <1>1 DEF EmptyIsEvicting, NewNode, NoNode
<1> QED BY <1>2 DEF Init, Reading, NoneStarting, ChosenIsEmpty, At

(* Unregistering forgets a node or leaves it as it is. *)
LEMMA UnregisterKeeps ==
  ASSUME TypeOK, EmptyIsEvicting, NEW p \in Pods, Unregister(p)
  PROVE  EmptyIsEvicting'
BY DEF TypeOK, EmptyIsEvicting, Unregister, NoNode

(* Telling a node to give away its data changes nothing else of any node. *)
LEMMA EvictTells ==
  ASSUME TypeOK, Evict
  PROVE  \A q \in Pods : /\ node'[q].known = node[q].known
                         /\ node'[q].data = node[q].data
                         /\ node[q].evicting => node'[q].evicting
<1>1. PICK p \in Removable(op.unmarked) :
        \/ \E lag \in {lagging, FALSE} : node' = [node EXCEPT ![p] = Told(@, lag)]
        \/ UNCHANGED node
  BY DEF Evict
<1>2. ASSUME NEW lag \in {lagging, FALSE}, node' = [node EXCEPT ![p] = Told(@, lag)],
             NEW q \in Pods
      PROVE  /\ node'[q].known = node[q].known
             /\ node'[q].data = node[q].data
             /\ node[q].evicting => node'[q].evicting
  <2>1. /\ Told(node[q], lag).known = node[q].known
        /\ Told(node[q], lag).data = node[q].data
        /\ Told(node[q], lag).evicting = TRUE
    BY DEF Told, TypeOK, Node
  <2>2. node'[q] = node[q] \/ node'[q] = Told(node[q], lag)
    BY <1>2 DEF TypeOK
  <2> QED BY <2>1, <2>2
<1> QED BY <1>1, <1>2

LEMMA NextReading == TypeOK /\ Reading /\ [Next]_vars => Reading'
<1> SUFFICES ASSUME TypeOK, Reading, [Next]_vars PROVE Reading'
  OBVIOUS
<1> USE DEF Reading, At
<1>1. CASE CreatePods
  BY <1>1 DEF CreatePods, NoneStarting, EmptyIsEvicting, ChosenIsEmpty
<1>2. CASE BeginDownscaling
  BY <1>2 DEF BeginDownscaling, NoneStarting, EmptyIsEvicting, ChosenIsEmpty, Existing
<1>3. CASE LabelUnmarked
  <2>1. op'.pc = "unmarked" \/ op'.pc = "idle"
    BY <1>3 DEF LabelUnmarked, WriteLabel, Return, TypeOK, Op
  <2> QED BY <1>3, <2>1 DEF LabelUnmarked, NoneStarting, EmptyIsEvicting, ChosenIsEmpty
<1>4. CASE NoneUnmarked
  BY <1>4 DEF NoneUnmarked, NoneStarting, EmptyIsEvicting, ChosenIsEmpty, TypeOK, Op
<1>5. CASE UnregisterLingering
  <2>1. PICK p \in op.rest : Unregister(p) /\ op' = [op EXCEPT !.rest = @ \ {p}]
    BY <1>5 DEF UnregisterLingering
  <2>2. p \in Pods /\ op'.pc = "linger"
    BY <1>5, <2>1 DEF UnregisterLingering, TypeOK, Op
  <2>3. EmptyIsEvicting'
    BY <2>1, <2>2, UnregisterKeeps
  <2> QED BY <1>5, <2>2, <2>3 DEF UnregisterLingering, NoneStarting, ChosenIsEmpty
<1>6. CASE Decide
  <2>0. \/ op' = [op EXCEPT !.pc = "check", !.rest = Existing \cap Marked]
        \/ Goto("mark") \/ Return
    BY <1>6 DEF Decide
  <2>1. op'.pc \in {"check", "mark", "idle"}
    BY <2>0 DEF Goto, Return, TypeOK, Op
  <2> QED BY <1>6, <2>1 DEF Decide, NoneStarting, EmptyIsEvicting, ChosenIsEmpty
<1>7. CASE Evict
  <2>1. op'.pc \in {"label", "idle"}
    BY <1>7 DEF Evict, Return, TypeOK, Op
  <2>3. EmptyIsEvicting'
    BY <1>7, EvictTells DEF EmptyIsEvicting
  <2> QED BY <1>7, <2>1, <2>3 DEF Evict, NoneStarting, ChosenIsEmpty
<1>8. CASE LabelVictim
  <2>1. op'.pc = "idle"
    BY <1>8 DEF LabelVictim, WriteLabel, Return, TypeOK, Op
  <2> QED BY <1>8, <2>1 DEF LabelVictim, NoneStarting, EmptyIsEvicting, ChosenIsEmpty
<1>9. CASE StillEvicting
  <2>1. op'.pc = "check"
    BY <1>9 DEF StillEvicting, TypeOK, Op
  <2> QED BY <1>9, <2>1 DEF StillEvicting, NoneStarting, EmptyIsEvicting, ChosenIsEmpty
<1>10. CASE RecordEvicted
  <2>1. PICK p \in op.rest :
          /\ node[p].known /\ ~node[p].data
          /\ evicted' = evicted \cup {p}
          /\ op' = [op EXCEPT !.pc = "delete", !.on = {p}]
    BY <1>10 DEF RecordEvicted
  <2>2. op'.on = {p}
    BY <2>1 DEF TypeOK, Op
  <2> QED BY <1>10, <2>1, <2>2 DEF RecordEvicted, NoneStarting, EmptyIsEvicting, ChosenIsEmpty
<1>11. CASE DeletePod
  <2>1. op'.pc \in {"idle", "unregister"}
    BY <1>11 DEF DeletePod, Goto, Return, TypeOK, Op
  <2>2. \A p \in Pods : pod'[p] # "starting"
    BY <1>11 DEF DeletePod, NoneStarting, TypeOK
  <2> QED BY <1>11, <2>1, <2>2 DEF DeletePod, NoneStarting, EmptyIsEvicting, ChosenIsEmpty
<1>12. CASE UnregisterDeleted
  <2>1. PICK p \in op.on :
          /\ Unregister(p)
          /\ op' = [op EXCEPT !.pc = "check", !.rest = @ \ {p}, !.on = {}]
    BY <1>12 DEF UnregisterDeleted
  <2>2. p \in Pods /\ op'.pc = "check"
    BY <2>1 DEF TypeOK, Op
  <2>3. EmptyIsEvicting'
    BY <2>1, <2>2, UnregisterKeeps
  <2> QED BY <1>12, <2>2, <2>3 DEF UnregisterDeleted, NoneStarting, ChosenIsEmpty
<1>13. CASE EndDownscaling
  BY <1>13 DEF EndDownscaling, Return, NoneStarting, EmptyIsEvicting, ChosenIsEmpty, TypeOK, Op
<1>14. CASE Abort
  BY <1>14 DEF Abort, Return, NoneStarting, EmptyIsEvicting, ChosenIsEmpty, TypeOK, Op
<1>15. CASE CacheCatchesUp
  BY <1>15 DEF CacheCatchesUp, NoneStarting, EmptyIsEvicting, ChosenIsEmpty
<1>16. CASE ScalePool
  BY <1>16 DEF ScalePool, NoneStarting, EmptyIsEvicting, ChosenIsEmpty
<1>17. ASSUME NEW p \in Pods, World(p) PROVE Reading'
  <2>1. CASE PodStarts(p)
    <3>1. At("idle")
      BY <2>1 DEF PodStarts, NoneStarting
    <3>2. EmptyIsEvicting'
      BY <2>1 DEF PodStarts, EmptyIsEvicting, NewNode, TypeOK
    <3> QED BY <2>1, <3>1, <3>2 DEF PodStarts, NoneStarting, ChosenIsEmpty
  <2>2. CASE PodEnds(p)
    BY <2>2 DEF PodEnds, NoneStarting, EmptyIsEvicting, ChosenIsEmpty, TypeOK
  <2>3. CASE ShowEviction(p)
    <3>1. \A q \in Pods : /\ node'[q].known = node[q].known
                         /\ node'[q].data = node[q].data
                         /\ node'[q].evicting = node[q].evicting
      BY <2>3 DEF ShowEviction, TypeOK, Node
    <3>2. op.on \subseteq Pods
      BY DEF TypeOK, Op
    <3> QED BY <2>3, <3>1, <3>2 DEF ShowEviction, NoneStarting, EmptyIsEvicting, ChosenIsEmpty
  <2>4. CASE GiveAway(p)
    <3>1. \A q \in Pods : /\ node'[q].known = node[q].known
                         /\ node'[q].evicting = node[q].evicting
                         /\ (q # p => node'[q].data = node[q].data)
                         /\ (q = p => ~node'[q].data /\ node[q].evicting)
      BY <2>4 DEF GiveAway, TypeOK, Node
    <3>2. op.on \subseteq Pods
      BY DEF TypeOK, Op
    <3> QED BY <2>4, <3>1, <3>2 DEF GiveAway, NoneStarting, EmptyIsEvicting, ChosenIsEmpty
  <2> QED BY <1>17, <2>1, <2>2, <2>3, <2>4 DEF World
<1>18. ASSUME NEW p \in Pods, DeleteByOthers(p) PROVE Reading'
  BY <1>18 DEF DeleteByOthers, NoneStarting, EmptyIsEvicting, ChosenIsEmpty, TypeOK
<1>19. CASE UNCHANGED vars
  BY <1>19 DEF vars, NoneStarting, EmptyIsEvicting, ChosenIsEmpty
<1> QED BY <1>1, <1>2, <1>3, <1>4, <1>5, <1>6, <1>7, <1>8, <1>9, <1>10, <1>11, <1>12, <1>13,
           <1>14, <1>15, <1>16, <1>17, <1>18, <1>19 DEF Next, Reconcile

(***************************************************************************)
(* Deleting pods                                                           *)
(***************************************************************************)
Deletes == \A p \in Pods :
  pod[p] = "ready" /\ pod'[p] = "ending" /\ faults' = faults
  => ~node[p].data /\ node[p].evicting /\ p \in evicted

LEMMA NextDeletes == TypeOK /\ Reading /\ [Next]_vars => Deletes
<1> SUFFICES ASSUME TypeOK, Reading, [Next]_vars,
                    NEW p \in Pods, pod[p] = "ready", pod'[p] = "ending", faults' = faults
             PROVE  ~node[p].data /\ node[p].evicting /\ p \in evicted
  BY DEF Deletes
<1>1. CASE DeletePod
  <2>1. p \in op.on /\ At("delete")
    BY <1>1 DEF DeletePod, TypeOK
  <2> QED BY <2>1 DEF Reading, ChosenIsEmpty, EmptyIsEvicting
<1>2. CASE CreatePods
  BY <1>2 DEF CreatePods
<1>3. ASSUME NEW q \in Pods, World(q) PROVE FALSE
  BY <1>3 DEF World, PodStarts, PodEnds, ShowEviction, GiveAway, TypeOK
<1>4. ASSUME NEW q \in Pods, DeleteByOthers(q) PROVE FALSE
  <2>1. faults' = faults + 1 /\ faults \in Nat
    BY <1>4, EvictionAssumption DEF DeleteByOthers, Fault, TypeOK
  <2> QED BY <2>1
<1>5. CASE UNCHANGED pod
  BY <1>5
<1>6. CASE UNCHANGED vars
  BY <1>6 DEF vars
<1> QED BY <1>1, <1>2, <1>3, <1>4, <1>5, <1>6
     DEF Next, Reconcile, BeginDownscaling, LabelUnmarked, NoneUnmarked, UnregisterLingering,
         Decide, Evict, LabelVictim, StillEvicting, RecordEvicted, UnregisterDeleted,
         EndDownscaling, Abort, CacheCatchesUp, ScalePool

(* The operator deletes a pod only when its node has given away its data and is recorded
   for being unregistered (humiocluster_controller.go:2319 to 2342). *)
THEOREM NoDataIsLost == Spec => DeletedHoldNothing
<1>1. TypeOK /\ Reading /\ [Next]_vars => [Deletes]_vars
  BY NextDeletes
<1>2. Spec => [][Deletes]_vars
  BY <1>1, InitType, InitReading, NextType, NextReading, PTL DEF Spec
<1> QED BY <1>2 DEF DeletedHoldNothing, Deletes

(***************************************************************************)
(* Nodes of deleted pods                                                   *)
(***************************************************************************)
LEMMA InitRemembered == Init => NodesRemembered
BY DEF Init, NodesRemembered, NoNode, NewNode

LEMMA UnregisterRemembers ==
  ASSUME TypeOK, NodesRemembered, NEW p \in Pods, Unregister(p), UNCHANGED pod
  PROVE  NodesRemembered'
BY DEF TypeOK, NodesRemembered, Unregister, NoNode

LEMMA NextRemembered ==
  ASSUME "delete_by_others" \notin FaultKinds
  PROVE  TypeOK /\ Reading /\ NodesRemembered /\ [Next]_vars => NodesRemembered'
<1> SUFFICES ASSUME TypeOK, Reading, NodesRemembered, [Next]_vars PROVE NodesRemembered'
  OBVIOUS
<1>1. CASE CreatePods
  BY <1>1 DEF CreatePods, NodesRemembered
<1>2. CASE UnregisterLingering \/ UnregisterDeleted
  <2>1. PICK p \in op.rest \cup op.on : Unregister(p) /\ UNCHANGED pod
    BY <1>2 DEF UnregisterLingering, UnregisterDeleted
  <2>2. p \in Pods
    BY DEF TypeOK, Op
  <2> QED BY <2>1, <2>2, UnregisterRemembers
<1>3. CASE Evict
  <2>1. \A p \in Pods : node'[p].known = node[p].known
    BY <1>3, EvictTells
  <2> QED BY <1>3, <2>1 DEF Evict, NodesRemembered
<1>4. CASE RecordEvicted
  BY <1>4 DEF RecordEvicted, NodesRemembered
<1>5. CASE DeletePod
  BY <1>5 DEF DeletePod, NodesRemembered, Reading, ChosenIsEmpty, TypeOK
<1>6. ASSUME NEW p \in Pods, World(p) PROVE NodesRemembered'
  <2>1. CASE PodStarts(p)
    BY <2>1 DEF PodStarts, NodesRemembered, TypeOK
  <2>2. CASE PodEnds(p)
    BY <2>2 DEF PodEnds, NodesRemembered, TypeOK
  <2>3. CASE ShowEviction(p) \/ GiveAway(p)
    <3>1. \A q \in Pods : node'[q].known = node[q].known
      BY <2>3 DEF ShowEviction, GiveAway, TypeOK, Node
    <3> QED BY <2>3, <3>1 DEF ShowEviction, GiveAway, NodesRemembered
  <2> QED BY <1>6, <2>1, <2>2, <2>3 DEF World
<1>7. ASSUME NEW p \in Pods, DeleteByOthers(p) PROVE FALSE
  BY <1>7 DEF DeleteByOthers, Fault
<1>8. CASE UNCHANGED <<pod, node, evicted>>
  BY <1>8 DEF NodesRemembered
<1>9. CASE UNCHANGED vars
  BY <1>9 DEF vars, NodesRemembered
<1> QED BY <1>1, <1>2, <1>3, <1>4, <1>5, <1>6, <1>7, <1>8, <1>9
     DEF Next, Reconcile, BeginDownscaling, LabelUnmarked, NoneUnmarked, Decide, LabelVictim,
         StillEvicting, EndDownscaling, Abort, CacheCatchesUp, ScalePool

(* When only the operator deletes pods, every node whose pod is gone is on the list of the
   nodes to unregister, whatever call fails and wherever the operator dies
   (humiocluster_controller.go:2290 to 2296, 2331 to 2342 and 2397 to 2445). *)
THEOREM DeadNodesAreRemembered ==
  ASSUME "delete_by_others" \notin FaultKinds
  PROVE  Spec => []NodesRemembered
<1>1. TypeOK /\ Reading /\ NodesRemembered /\ [Next]_vars => NodesRemembered'
  BY NextRemembered
<1> QED BY <1>1, InitType, InitReading, InitRemembered, NextType, NextReading, PTL DEF Spec

(***************************************************************************)
(* One node at a time.  When nothing lags, a node that is being evicted is *)
(* shown so; until the next reconcile has labelled its pod it is among     *)
(* those to label; and no node is chosen while a listed pod is marked.     *)
(***************************************************************************)
Prompt == unseen = {} /\ \A p \in Pods : node[p].evicting => node[p].shown

AtMostOne == \A p, q \in Evicting : p = q

OneInTurn ==
  ~lagging =>
    /\ Prompt
    /\ AtMostOne
    /\ At("unmarked") => Evicting \subseteq labelled \cup op.rest
    /\ At("linger") => Evicting \subseteq labelled
    /\ At("mark") => Evicting = {}
    /\ At("label") => Evicting \subseteq op.on /\ \A p, q \in op.on : p = q

(* Forgetting a node does not make it one that is being evicted. *)
LEMMA UnregisterEvictsNone ==
  ASSUME TypeOK, NEW p \in Pods, Unregister(p), UNCHANGED <<pod, unseen>>
  PROVE  Evicting' \subseteq Evicting /\ (Prompt => Prompt')
BY DEF TypeOK, Unregister, NoNode, Evicting, Prompt

(* A label written when nothing lags is seen at once. *)
LEMMA LabelIsSeen ==
  ASSUME TypeOK, NEW p, NEW then, ~lagging, WriteLabel(p, then), UNCHANGED node, Prompt
  PROVE  Prompt' /\ labelled \subseteq labelled'
BY DEF TypeOK, WriteLabel, Prompt

(* A reconcile that returns leaves at most one node being evicted. *)
LEMMA TurnIsOver ==
  ASSUME op'.pc \in {"idle", "check", "delete", "unregister"}, Evicting' \subseteq Evicting,
         ~lagging => AtMostOne, UNCHANGED lagging, ~lagging => Prompt'
  PROVE  OneInTurn'
BY DEF OneInTurn, AtMostOne, At

(* What another than the operator does evicts none and takes no label from a pod that is. *)
LEMMA NobodyElseEvicts ==
  ASSUME OneInTurn, UNCHANGED <<op, lagging>>, Evicting' \subseteq Evicting,
         Evicting' \cap labelled \subseteq labelled', ~lagging => Prompt'
  PROVE  OneInTurn'
BY DEF OneInTurn, AtMostOne, At

(* The node that is told to give away its data is the only one. *)
LEMMA EvictsOne ==
  ASSUME TypeOK, OneInTurn, Evict
  PROVE  OneInTurn'
<1> SUFFICES ASSUME ~lagging PROVE OneInTurn'
  BY DEF OneInTurn, Evict, NoFault
<1>1. /\ UNCHANGED <<pod, labelled, unseen, lagging>>
      /\ Prompt /\ Evicting = {}
  BY DEF Evict, NoFault, OneInTurn
<1>2. PICK p \in Removable(op.unmarked) :
        IF pod[p] = "ready" /\ node[p].known
        THEN /\ \E lag \in {lagging, FALSE} : node' = [node EXCEPT ![p] = Told(@, lag)]
             /\ op' = [op EXCEPT !.pc = "label", !.on = {p}]
        ELSE UNCHANGED node /\ Return
  BY DEF Evict
<1>3. p \in Pods
  BY DEF Removable, TypeOK, Op
<1>4. CASE pod[p] = "ready" /\ node[p].known
  <2>0. lagging = FALSE
    BY EvictionAssumption DEF TypeOK
  <2>1. node' = [node EXCEPT ![p] = Told(node[p], FALSE)] /\ op'.on = {p} /\ op'.pc = "label"
    <3>1. op' = [op EXCEPT !.pc = "label", !.on = {p}]
      BY <1>2, <1>4
    <3>2. node' = [node EXCEPT ![p] = Told(node[p], FALSE)]
      BY <1>2, <1>4, <2>0
    <3> QED BY <3>1, <3>2 DEF TypeOK, Op
  <2>2. Told(node[p], FALSE).shown = TRUE
    BY <1>3 DEF Told, TypeOK, Node
  <2>3. \A q \in Pods : q = p \/ node'[q] = node[q]
    BY <2>1 DEF TypeOK
  <2>4. node'[p].shown
    BY <1>3, <2>1, <2>2 DEF TypeOK
  <2>5. Evicting' \subseteq {p}
    BY <1>1, <2>3 DEF Evicting
  <2>6. Prompt'
    BY <1>1, <2>3, <2>4 DEF Prompt
  <2> QED BY <1>1, <2>1, <2>5, <2>6 DEF OneInTurn, AtMostOne, At
<1>5. CASE ~(pod[p] = "ready" /\ node[p].known)
  <2>1. UNCHANGED node /\ op'.pc = "idle"
    BY <1>2, <1>5 DEF Return, TypeOK, Op
  <2>2. Evicting' = {} /\ Prompt'
    BY <1>1, <2>1 DEF Evicting, Prompt
  <2> QED BY <1>1, <2>1, <2>2 DEF OneInTurn, AtMostOne, At
<1> QED BY <1>4, <1>5

LEMMA NextOneInTurn == TypeOK /\ OneInTurn /\ [Next]_vars => OneInTurn'
<1> SUFFICES ASSUME TypeOK, OneInTurn, [Next]_vars PROVE OneInTurn'
  OBVIOUS
<1>1. UNCHANGED lagging
  BY DEF Next, Reconcile, World, vars, NoFault, Fault, CreatePods, BeginDownscaling,
     LabelUnmarked, NoneUnmarked, UnregisterLingering, Decide, Evict, LabelVictim,
     StillEvicting, RecordEvicted, DeletePod, UnregisterDeleted, EndDownscaling, Abort,
     CacheCatchesUp, ScalePool, PodStarts, PodEnds, ShowEviction, GiveAway, DeleteByOthers
<1> SUFFICES ASSUME ~lagging PROVE OneInTurn'
  BY <1>1 DEF OneInTurn
<1>2. Prompt /\ AtMostOne
  BY DEF OneInTurn
<1>3. ASSUME UNCHANGED <<pod, node>> PROVE Evicting' = Evicting
  BY <1>3 DEF Evicting
<1>4. ASSUME UNCHANGED <<node, unseen>> PROVE Prompt'
  BY <1>2, <1>4 DEF Prompt
<1>5. CASE CreatePods
  <2>1. Evicting' \subseteq Evicting
    BY <1>5 DEF CreatePods, Evicting
  <2> QED BY <1>1, <1>4, <1>5, <2>1, NobodyElseEvicts DEF CreatePods
<1>6. CASE BeginDownscaling
  <2>1. Evicting \subseteq labelled \cup {p \in Existing \ Marked : node[p].shown}
    BY <1>2 DEF Evicting, Existing, Marked, Prompt
  <2>2. op'.pc = "unmarked" /\ op'.rest = {p \in Existing \ Marked : node[p].shown}
    BY <1>6 DEF BeginDownscaling
  <2> QED BY <1>1, <1>2, <1>3, <1>4, <1>6, <2>1, <2>2
          DEF BeginDownscaling, OneInTurn, AtMostOne, At
<1>7. CASE LabelUnmarked
  <2>1. PICK p \in op.rest : WriteLabel(p, op' = [op EXCEPT !.rest = @ \ {p}])
    BY <1>7 DEF LabelUnmarked
  <2>2. Prompt' /\ labelled \subseteq labelled'
    BY <1>2, <1>7, <2>1, LabelIsSeen DEF LabelUnmarked
  <2>3. \/ op' = [op EXCEPT !.rest = @ \ {p}] /\ labelled' = labelled \cup {p}
        \/ Return
    BY <2>1 DEF WriteLabel
  <2>4. CASE Return
    <3>1. op'.pc = "idle"
      BY <2>4 DEF Return, TypeOK, Op
    <3> QED BY <1>1, <1>2, <1>3, <1>7, <2>2, <3>1, TurnIsOver DEF LabelUnmarked
  <2>5. CASE op' = [op EXCEPT !.rest = @ \ {p}] /\ labelled' = labelled \cup {p}
    <3>1. op'.pc = "unmarked" /\ op'.rest = op.rest \ {p}
      BY <1>7, <2>5 DEF LabelUnmarked, At, TypeOK, Op
    <3>2. Evicting \subseteq labelled \cup op.rest
      BY <1>7 DEF OneInTurn, LabelUnmarked
    <3> QED BY <1>1, <1>2, <1>3, <1>7, <2>2, <2>5, <3>1, <3>2
            DEF LabelUnmarked, OneInTurn, AtMostOne, At
  <2> QED BY <2>3, <2>4, <2>5
<1>8. CASE NoneUnmarked
  <2>1. op'.pc = "linger"
    BY <1>8 DEF NoneUnmarked, TypeOK, Op
  <2>2. Evicting \subseteq labelled
    BY <1>8 DEF NoneUnmarked, OneInTurn
  <2> QED BY <1>1, <1>2, <1>3, <1>4, <1>8, <2>1, <2>2 DEF NoneUnmarked, OneInTurn, AtMostOne, At
<1>9. CASE UnregisterLingering
  <2>1. PICK p \in op.rest : Unregister(p) /\ op' = [op EXCEPT !.rest = @ \ {p}]
    BY <1>9 DEF UnregisterLingering
  <2>2. p \in Pods /\ op'.pc = "linger"
    BY <1>9, <2>1 DEF UnregisterLingering, At, TypeOK, Op
  <2>3. Evicting' \subseteq Evicting /\ Prompt'
    BY <1>2, <1>9, <2>1, <2>2, UnregisterEvictsNone DEF UnregisterLingering
  <2>4. Evicting \subseteq labelled
    BY <1>9 DEF UnregisterLingering, OneInTurn
  <2> QED BY <1>1, <1>2, <1>9, <2>2, <2>3, <2>4 DEF UnregisterLingering, OneInTurn, AtMostOne, At
<1>10. CASE Decide
  <2>1. Evicting \subseteq Existing \cap Marked
    BY <1>2, <1>10 DEF Decide, OneInTurn, Prompt, Marked, Evicting, Existing
  <2>2. CASE op'.pc \in {"check", "idle"}
    BY <1>1, <1>2, <1>3, <1>4, <1>10, <2>2, TurnIsOver DEF Decide
  <2>3. CASE Existing \cap Marked = {} /\ Goto("mark")
    <3>1. op'.pc = "mark"
      BY <2>3 DEF Goto, TypeOK, Op
    <3> QED BY <1>1, <1>2, <1>3, <1>4, <1>10, <2>1, <2>3, <3>1 DEF Decide, OneInTurn, AtMostOne, At
  <2>4. ASSUME Return \/ op' = [op EXCEPT !.pc = "check", !.rest = Existing \cap Marked]
        PROVE  op'.pc \in {"check", "idle"}
    BY <2>4 DEF Return, TypeOK, Op
  <2> QED BY <1>10, <2>2, <2>3, <2>4 DEF Decide
<1>11. CASE Evict
  BY <1>11, EvictsOne
<1>12. CASE LabelVictim
  <2>1. op'.pc = "idle"
    BY <1>12 DEF LabelVictim, WriteLabel, Return, TypeOK, Op
  <2>2. Prompt'
    BY <1>2, <1>4, <1>12, LabelIsSeen DEF LabelVictim
  <2> QED BY <1>1, <1>2, <1>3, <1>12, <2>1, <2>2, TurnIsOver DEF LabelVictim
<1>13. CASE StillEvicting \/ RecordEvicted \/ EndDownscaling \/ Abort
  <2>1. op'.pc \in {"check", "delete", "idle"}
    BY <1>13 DEF StillEvicting, RecordEvicted, EndDownscaling, Abort, Return, At, TypeOK, Op
  <2> QED BY <1>1, <1>2, <1>3, <1>4, <1>13, <2>1, TurnIsOver
          DEF StillEvicting, RecordEvicted, EndDownscaling, Abort
<1>14. CASE DeletePod
  <2>1. op'.pc \in {"idle", "unregister"}
    BY <1>14 DEF DeletePod, Goto, Return, TypeOK, Op
  <2>2. Evicting' \subseteq Evicting
    BY <1>14 DEF DeletePod, Evicting, TypeOK
  <2> QED BY <1>1, <1>2, <1>4, <1>14, <2>1, <2>2, TurnIsOver DEF DeletePod
<1>15. CASE UnregisterDeleted
  <2>1. PICK p \in op.on :
          /\ Unregister(p)
          /\ op' = [op EXCEPT !.pc = "check", !.rest = @ \ {p}, !.on = {}]
    BY <1>15 DEF UnregisterDeleted
  <2>2. p \in Pods /\ op'.pc = "check"
    BY <2>1 DEF TypeOK, Op
  <2>3. Evicting' \subseteq Evicting /\ Prompt'
    BY <1>2, <1>15, <2>1, <2>2, UnregisterEvictsNone DEF UnregisterDeleted
  <2> QED BY <1>1, <1>2, <2>2, <2>3, TurnIsOver
<1>16. CASE CacheCatchesUp \/ ScalePool
  <2>1. Prompt'
    BY <1>2, <1>16 DEF CacheCatchesUp, ScalePool, Prompt
  <2> QED BY <1>1, <1>3, <1>16, <2>1, NobodyElseEvicts DEF CacheCatchesUp, ScalePool
<1>17. ASSUME NEW p \in Pods, World(p) PROVE OneInTurn'
  <2>1. UNCHANGED op
    BY <1>17 DEF World, PodStarts, PodEnds, ShowEviction, GiveAway
  <2>2. CASE PodStarts(p)
    <3>1. Evicting' \subseteq Evicting /\ Prompt' /\ labelled' = labelled
      BY <1>2, <2>2 DEF PodStarts, NewNode, Evicting, Prompt, TypeOK
    <3> QED BY <1>1, <2>1, <3>1, NobodyElseEvicts
  <2>3. CASE PodEnds(p)
    <3>1. Evicting' \subseteq Evicting \ {p} /\ Prompt' /\ labelled' = labelled \ {p}
      BY <1>2, <2>3 DEF PodEnds, Evicting, Prompt, TypeOK
    <3> QED BY <1>1, <2>1, <3>1, NobodyElseEvicts
  <2>4. CASE ShowEviction(p)
    <3>1. \A q \in Pods : node'[q].evicting = node[q].evicting /\ (node[q].shown => node'[q].shown)
      BY <2>4 DEF ShowEviction, TypeOK, Node
    <3>2. Evicting' \subseteq Evicting /\ Prompt' /\ labelled' = labelled
      BY <1>2, <2>4, <3>1 DEF ShowEviction, Evicting, Prompt
    <3> QED BY <1>1, <2>1, <3>2, NobodyElseEvicts
  <2>5. CASE GiveAway(p)
    <3>1. \A q \in Pods : node'[q].evicting = node[q].evicting /\ (node[q].shown => node'[q].shown)
      BY <2>5 DEF GiveAway, TypeOK, Node
    <3>2. Evicting' \subseteq Evicting /\ Prompt' /\ labelled' = labelled
      BY <1>2, <2>5, <3>1 DEF GiveAway, Evicting, Prompt
    <3> QED BY <1>1, <2>1, <3>2, NobodyElseEvicts
  <2> QED BY <1>17, <2>2, <2>3, <2>4, <2>5 DEF World
<1>18. ASSUME NEW p \in Pods, DeleteByOthers(p) PROVE OneInTurn'
  <2>1. Evicting' \subseteq Evicting
    BY <1>18 DEF DeleteByOthers, Evicting, TypeOK
  <2> QED BY <1>1, <1>4, <1>18, <2>1, NobodyElseEvicts DEF DeleteByOthers
<1>19. CASE UNCHANGED vars
  BY <1>1, <1>3, <1>4, <1>19, NobodyElseEvicts DEF vars
<1> QED BY <1>5, <1>6, <1>7, <1>8, <1>9, <1>10, <1>11, <1>12, <1>13, <1>14, <1>15, <1>16,
           <1>17, <1>18, <1>19 DEF Next, Reconcile

LEMMA InitOneInTurn == Init => OneInTurn
<1> SUFFICES ASSUME Init PROVE OneInTurn
  OBVIOUS
<1>1. PICK S \in SUBSET Pods : node = [p \in Pods |-> IF p \in S THEN NewNode ELSE NoNode]
  BY DEF Init
<1>2. \A p \in Pods : ~node[p].evicting
  BY <1>1 DEF NewNode, NoNode
<1>3. Evicting = {} /\ Prompt
  BY <1>2 DEF Evicting, Prompt, Init
<1> QED BY <1>3 DEF Init, OneInTurn, AtMostOne, At

(* A set whose elements are all the same has one at most. *)
LEMMA OneOrNone ==
  ASSUME NEW S, \A x, y \in S : x = y
  PROVE  Cardinality(S) =< 1
<1>1. CASE S = {}
  BY <1>1, FS_EmptySet
<1>2. ASSUME NEW x \in S PROVE Cardinality(S) =< 1
  <2>1. S = {x}
    BY <1>2
  <2> QED BY <2>1, FS_Singleton
<1> QED BY <1>1, <1>2

(* At most one node of a pool is evicted at a time: for any pods, zones, edits and failures,
   and whoever deletes pods, as long as what is read is current. *)
THEOREM NodesGoOneByOne == Spec => []OneByOne
<1>1. OneInTurn => OneByOne
  BY OneOrNone DEF OneInTurn, AtMostOne, OneByOne
<1> QED BY <1>1, InitType, NextType, InitOneInTurn, NextOneInTurn, PTL DEF Spec
=============================================================================
