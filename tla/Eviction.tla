------------------------------ MODULE Eviction ------------------------------
(***************************************************************************)
(* How the HumioCluster controller takes a node out of a pool that has     *)
(* more pods than it should: the node is told to give away its data, its   *)
(* pod is marked, and when the data has gone the pod is deleted and the    *)
(* node unregistered.  Humio, the API server, its cache and the operator   *)
(* each know a part of how far that is.                                    *)
(*                                                                         *)
(* A pod and the Humio node that runs in it are one element of Pods: a pod *)
(* is annotated with the ID (vhost) of its own node.  One action is one    *)
(* call that changes something, with the reads that lead to it.            *)
(***************************************************************************)
EXTENDS Integers, FiniteSets

CONSTANTS
  Pods,        \* names of pods, and the nodes in them
  Zone,        \* [Pods -> zones]: where a pod is scheduled
  Counts,      \* values of spec.nodeCount
  Lags,        \* the values lagging may have
  FaultKinds, MaxFaults,  \* which failures may happen, and a bound on how many
  MaxEdits     \* bound on changes of spec.nodeCount

ASSUME EvictionAssumption ==
  /\ IsFiniteSet(Pods)
  /\ Counts \subseteq Nat
  /\ Lags \subseteq BOOLEAN
  /\ MaxFaults \in Nat /\ MaxEdits \in Nat

VARIABLES
  count,     \* spec.nodeCount
  pod,       \* per pod: "none", "starting", "ready" or "ending"
  labelled,  \* pods with the label that marks them for eviction
  unseen,    \* labelled pods whose label the cache does not have yet
  node,      \* per pod: what Humio knows of its node
  evicted,   \* status.evictedNodeIds
  op,        \* where the operator is, with what it has read
  lagging,   \* may a list of pods miss the last change of a label, and may Humio take a
             \* while to show that a node is being evicted?  It never changes.
  faults, edits

vars == <<count, pod, labelled, unseen, node, evicted, op, lagging, faults, edits>>

Node == [known : BOOLEAN, evicting : BOOLEAN, shown : BOOLEAN, data : BOOLEAN]
NoNode == [known |-> FALSE, evicting |-> FALSE, shown |-> FALSE, data |-> FALSE]
NewNode == [known |-> TRUE, evicting |-> FALSE, shown |-> FALSE, data |-> TRUE]
Stages == {"idle", "unmarked", "linger", "decide", "mark", "label", "check", "delete", "unregister"}
Op == [pc : Stages, goal : Counts, unmarked : SUBSET Pods, rest : SUBSET Pods,
       on : SUBSET Pods]

(* Every variable has its type. *)
TypeOK ==
  /\ count \in Counts
  /\ pod \in [Pods -> {"none", "starting", "ready", "ending"}]
  /\ labelled \subseteq Pods
  /\ unseen \subseteq labelled
  /\ node \in [Pods -> Node]
  /\ evicted \subseteq Pods
  /\ op \in Op
  /\ lagging \in Lags
  /\ faults \in 0..MaxFaults
  /\ edits \in 0..MaxEdits

(***************************************************************************)
(* What there is, and what the operator sees of it                         *)
(***************************************************************************)
Existing == {p \in Pods : pod[p] # "none"}
Alive(p) == pod[p] \in {"ready", "ending"}
Marked == labelled \ unseen       \* the pods that a list shows as marked
At(stage) == op.pc = stage

Goto(stage) == op' = [op EXCEPT !.pc = stage]
Return == op' = [op EXCEPT !.pc = "idle", !.unmarked = {}, !.rest = {}, !.on = {}]

\* The pods to choose the next one from: those of a zone with the most of them.
ZoneCount(S, z) == Cardinality({p \in S : Zone[p] = z})
Removable(S) == {p \in S : \A q \in S : ZoneCount(S, Zone[q]) =< ZoneCount(S, Zone[p])}

Fault(f) ==
  /\ f \in FaultKinds
  /\ faults < MaxFaults
  /\ faults' = faults + 1
  /\ UNCHANGED <<count, lagging, edits>>
NoFault == UNCHANGED <<count, lagging, faults, edits>>

Init ==
  /\ count \in Counts /\ lagging \in Lags
  /\ \E S \in SUBSET Pods :
       /\ Cardinality(S) = count
       /\ pod = [p \in Pods |-> IF p \in S THEN "ready" ELSE "none"]
       /\ node = [p \in Pods |-> IF p \in S THEN NewNode ELSE NoNode]
  /\ labelled = {} /\ unseen = {} /\ evicted = {}
  /\ op = [pc |-> "idle", goal |-> count, unmarked |-> {}, rest |-> {}, on |-> {}]
  /\ faults = 0 /\ edits = 0

(***************************************************************************)
(* The reconcile, from ensurePodsExist on                                  *)
(***************************************************************************)
\* A new pod starts with the label "false".  Names are random: one that was used before
\* stands for a new one when its node is no longer known.
CreatePods ==
  /\ At("idle")
  /\ Cardinality(Existing) < count
  /\ \E S \in SUBSET {p \in Pods : pod[p] = "none" /\ ~node[p].known} :
       /\ Cardinality(S) = count - Cardinality(Existing)
       /\ pod' = [p \in Pods |-> IF p \in S THEN "starting" ELSE pod[p]]
  /\ UNCHANGED <<labelled, unseen, node, evicted, op>> /\ NoFault

\* The reconcile gets this far only when all pods are ready.  The pods that are not
\* marked are listed once, and so are the nodes that are shown as being evicted.
BeginDownscaling ==
  /\ At("idle")
  /\ Cardinality(Existing) >= count
  /\ \A p \in Existing : pod[p] = "ready"
  /\ op' = [pc |-> "unmarked", goal |-> count, unmarked |-> Existing \ Marked,
            rest |-> {p \in Existing \ Marked : node[p].shown}, on |-> {}]
  /\ UNCHANGED <<pod, labelled, unseen, node, evicted>> /\ NoFault

\* The label is written to the pod as it was listed: if that is old the write fails.
WriteLabel(p, then) ==
  IF pod[p] # "none" /\ p \notin labelled
  THEN /\ labelled' = labelled \cup {p}
       /\ \E lag \in {lagging, FALSE} : unseen' = IF lag THEN unseen \cup {p} ELSE unseen
       /\ then
  ELSE /\ UNCHANGED <<labelled, unseen>>
       /\ Return

\* handleUnmarkedEvictions
LabelUnmarked ==
  /\ At("unmarked")
  /\ \E p \in op.rest : WriteLabel(p, op' = [op EXCEPT !.rest = @ \ {p}])
  /\ UNCHANGED <<pod, node, evicted>> /\ NoFault

\* Mutant: lingering nodes are not looked at.
NoneUnmarked_NoLingering ==
  /\ At("unmarked")
  /\ op.rest = {}
  /\ op' = [op EXCEPT !.pc = "linger", !.rest = {}]
  /\ UNCHANGED <<pod, labelled, unseen, node, evicted>> /\ NoFault

NoneUnmarked ==
  /\ At("unmarked")
  /\ op.rest = {}
  /\ op' = [op EXCEPT !.pc = "linger", !.rest = evicted]
  /\ UNCHANGED <<pod, labelled, unseen, node, evicted>> /\ NoFault

\* unregisterNode: what it says of the node is read once, right after a pod was deleted
\* too, so a node that is about to die counts as alive, and as dealt with.
Unregister(p) ==
  IF node[p].known /\ Alive(p)
  THEN UNCHANGED <<node, evicted>>
  ELSE /\ node' = [node EXCEPT ![p] = NoNode]
       /\ evicted' = evicted \ {p}

UnregisterLingering ==
  /\ At("linger")
  /\ \E p \in op.rest :
       /\ Unregister(p)
       /\ op' = [op EXCEPT !.rest = @ \ {p}]
  /\ UNCHANGED <<pod, labelled, unseen>> /\ NoFault

\* Mutant: the next pod is evicted while the last one still is.
Decide_NotOneByOne ==
  /\ At("linger")
  /\ op.rest = {}
  /\ IF Cardinality(op.unmarked) > op.goal
     THEN Goto("mark")
     ELSE op' = [op EXCEPT !.pc = "check", !.rest = Existing \cap Marked]
  /\ UNCHANGED <<pod, labelled, unseen, node, evicted>> /\ NoFault

\* The marked pods are listed again; the unmarked ones are those of the first list.
Decide ==
  /\ At("linger")
  /\ op.rest = {}
  /\ LET marked == Existing \cap Marked IN
     \/ /\ marked # {}
        /\ op' = [op EXCEPT !.pc = "check", !.rest = marked]
     \/ /\ marked = {}
        /\ IF Cardinality(op.unmarked) > op.goal THEN Goto("mark") ELSE Return
  /\ UNCHANGED <<pod, labelled, unseen, node, evicted>> /\ NoFault

\* SetIsBeingEvicted.
Told(n, lag) == [n EXCEPT !.evicting = TRUE, !.shown = IF lag THEN @ ELSE TRUE]

\* markPodForEviction, up to SetIsBeingEvicted.  A pod whose node is not available is
\* taken for node 0, which there is not: the call fails.
Evict ==
  /\ At("mark")
  /\ \E p \in Removable(op.unmarked) :
       IF pod[p] = "ready" /\ node[p].known
       THEN /\ \E lag \in {lagging, FALSE} :
                 node' = [node EXCEPT ![p] = Told(@, lag)]
            /\ op' = [op EXCEPT !.pc = "label", !.on = {p}]
       ELSE /\ UNCHANGED node
            /\ Return
  /\ UNCHANGED <<pod, labelled, unseen, evicted>> /\ NoFault

\* The list of nodes is read once: waiting longer for the eviction to show is in vain.
LabelVictim ==
  /\ At("label")
  /\ \E p \in op.on :
       IF node[p].shown
       THEN WriteLabel(p, Return)
       ELSE UNCHANGED <<labelled, unseen>> /\ Return
  /\ UNCHANGED <<pod, node, evicted>> /\ NoFault

\* checkEvictionStatusForPod says no: the next marked pod.
StillEvicting ==
  /\ At("check")
  /\ \E p \in op.rest :
       /\ node[p].data \/ ~node[p].known
       /\ op' = [op EXCEPT !.rest = @ \ {p}]
  /\ UNCHANGED <<pod, labelled, unseen, node, evicted>> /\ NoFault

\* Mutant: the data that is still there is not looked at.
RecordEvicted_DataLoss ==
  /\ At("check")
  /\ \E p \in op.rest :
       /\ node[p].known
       /\ evicted' = evicted \cup {p}
       /\ op' = [op EXCEPT !.pc = "delete", !.on = {p}]
  /\ UNCHANGED <<pod, labelled, unseen, node>> /\ NoFault

\* It says yes: the node is recorded before its pod is deleted.
RecordEvicted ==
  /\ At("check")
  /\ \E p \in op.rest :
       /\ node[p].known /\ ~node[p].data
       /\ evicted' = evicted \cup {p}
       /\ op' = [op EXCEPT !.pc = "delete", !.on = {p}]
  /\ UNCHANGED <<pod, labelled, unseen, node>> /\ NoFault

DeletePod ==
  /\ At("delete")
  /\ \E p \in op.on :
       IF pod[p] = "none"
       THEN Return /\ UNCHANGED pod
       ELSE /\ pod' = [pod EXCEPT ![p] = "ending"]
            /\ Goto("unregister")
  /\ UNCHANGED <<labelled, unseen, node, evicted>> /\ NoFault

UnregisterDeleted ==
  /\ At("unregister")
  /\ \E p \in op.on :
       /\ Unregister(p)
       /\ op' = [op EXCEPT !.pc = "check", !.rest = @ \ {p}, !.on = {}]
  /\ UNCHANGED <<pod, labelled, unseen>> /\ NoFault

EndDownscaling ==
  /\ At("check")
  /\ op.rest = {}
  /\ Return
  /\ UNCHANGED <<pod, labelled, unseen, node, evicted>> /\ NoFault

\* Any call fails, or a write is refused as something else has changed: the reconcile ends.
\* So it does when the operator dies.
Abort ==
  /\ ~At("idle")
  /\ Fault("abort")
  /\ Return
  /\ UNCHANGED <<pod, labelled, unseen, node, evicted>>

(***************************************************************************)
(* Kubernetes, Humio and the users                                         *)
(***************************************************************************)
PodStarts(p) ==
  /\ pod[p] = "starting"
  /\ pod' = [pod EXCEPT ![p] = "ready"]
  /\ node' = [node EXCEPT ![p] = NewNode]
  /\ UNCHANGED <<labelled, unseen, evicted, op>> /\ NoFault

PodEnds(p) ==
  /\ pod[p] = "ending"
  /\ pod' = [pod EXCEPT ![p] = "none"]
  /\ labelled' = labelled \ {p}
  /\ unseen' = unseen \ {p}
  /\ UNCHANGED <<node, evicted, op>> /\ NoFault

CacheCatchesUp ==
  /\ unseen # {}
  /\ unseen' = {}
  /\ UNCHANGED <<pod, labelled, node, evicted, op>> /\ NoFault

ShowEviction(p) ==
  /\ node[p].evicting /\ ~node[p].shown
  /\ node' = [node EXCEPT ![p].shown = TRUE]
  /\ UNCHANGED <<pod, labelled, unseen, evicted, op>> /\ NoFault

\* Data goes to the nodes that stay, if there are any.
GiveAway(p) ==
  /\ node[p].evicting /\ node[p].data /\ Alive(p)
  /\ \E q \in Pods \ {p} : pod[q] = "ready" /\ node[q].known /\ ~node[q].evicting
  /\ node' = [node EXCEPT ![p].data = FALSE]
  /\ UNCHANGED <<pod, labelled, unseen, evicted, op>> /\ NoFault

ScalePool ==
  /\ edits < MaxEdits
  /\ edits' = edits + 1
  /\ count' \in Counts \ {count}
  /\ UNCHANGED <<pod, labelled, unseen, node, evicted, op, lagging, faults>>

\* Somebody, or another part of the operator, deletes a pod.
DeleteByOthers(p) ==
  /\ Fault("delete_by_others")
  /\ pod[p] \in {"starting", "ready"}
  /\ pod' = [pod EXCEPT ![p] = "ending"]
  /\ UNCHANGED <<labelled, unseen, node, evicted, op>>

Reconcile ==
  \/ CreatePods \/ BeginDownscaling \/ LabelUnmarked \/ NoneUnmarked \/ UnregisterLingering
  \/ Decide \/ Evict \/ LabelVictim \/ StillEvicting \/ RecordEvicted \/ DeletePod
  \/ UnregisterDeleted \/ EndDownscaling
World(p) == PodStarts(p) \/ PodEnds(p) \/ ShowEviction(p) \/ GiveAway(p)

Next ==
  \/ Reconcile \/ Abort \/ CacheCatchesUp \/ ScalePool
  \/ \E p \in Pods : World(p) \/ DeleteByOthers(p)

\* A reconcile that is not held up goes on and is requeued; Kubernetes and Humio get done
\* what they have begun.
Fairness ==
  /\ WF_vars(Reconcile)
  /\ WF_vars(CacheCatchesUp)
  /\ \A p \in Pods : WF_vars(World(p))

Spec == Init /\ [][Next]_vars /\ Fairness

(***************************************************************************)
(* Properties                                                              *)
(***************************************************************************)
(* The operator deletes a pod only when its node has given away its data and is recorded
   for being unregistered, whatever it has read how long ago ("delete pod before
   unregistering node", "keep track of the evicted node for unregistering"). *)
DeletedHoldNothing == [][\A p \in Pods :
  pod[p] = "ready" /\ pod'[p] = "ending" /\ faults' = faults
  => ~node[p].data /\ node[p].evicting /\ p \in evicted]_vars

(* A node that Humio knows and whose pod was taken away is in status.evictedNodeIds: a
   crash or a failed call between deleting the pod and unregistering the node does not
   leave a dead node in the cluster for good. *)
NodesRemembered == \A p \in Pods :
  node[p].known /\ pod[p] \in {"none", "ending"} => p \in evicted

Evicting == {p \in Pods : pod[p] = "ready" /\ node[p].evicting}

(* One node of a pool is evicted at a time, whatever fails and whoever deletes pods, if
   the cache and the status that are read are current ("mark a single pod, to slowly
   reduce the node count", "return after one pod is processed to ensure pods are removed
   one-by-one"). *)
OneByOne == ~lagging => Cardinality(Evicting) =< 1

(* In the end there are as many pods as there should be, none of them is being evicted,
   and Humio knows no node without a pod. *)
Downscaled ==
  /\ Cardinality(Existing) = count
  /\ evicted = {}
  /\ \A p \in Pods : node[p].known <=> pod[p] = "ready"
  /\ \A p \in Pods : ~node[p].evicting
=============================================================================
