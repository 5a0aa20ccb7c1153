------------------------------ MODULE Telemetry ------------------------------
(***************************************************************************)
(* Telemetry: a cluster's telemetryConfig becomes a HumioTelemetry         *)
(* resource, made, changed and removed by the controller of the cluster;   *)
(* the controller of telemetry collects the data types that are due and    *)
(* sends them to a remote cluster.                                         *)
(*                                                                         *)
(* Time is relative: of every data type the model keeps how long ago it    *)
(* was last collected.  What is Horizon ago, or never was, is always due.  *)
(***************************************************************************)
EXTENDS Integers

CONSTANTS
  Types,      \* what users may ask for
  Valid,      \* the data types that validation knows
  Known,      \* the data types that can be collected
  Configs,    \* the sets of collections that users may ask for
  Horizon,    \* the longest interval
  FaultKinds, MaxFaults,  \* which failures may happen, and a bound on how many
  MaxEdits                \* bound on edits of the cluster

Collection == [interval : 1..Horizon, include : (SUBSET Types) \ {{}}]

TelemetryAssumption ==
  /\ Known \subseteq Valid /\ Valid \subseteq Types
  /\ Configs \subseteq SUBSET Collection
  /\ Horizon \in Nat \ {0} /\ MaxFaults \in Nat /\ MaxEdits \in Nat

VARIABLES
  wanted,   \* telemetryConfig of the cluster, {} if it has none
  shown,    \* telemetryStatus of the cluster
  ht,       \* the HumioTelemetry resource; exported: whose last collection its LastExport tells of
  op,       \* the reconcile of telemetry; fresh: its copy of ht is the current one
  cop,      \* the reconcile of the cluster; current: and so is its copy of the cluster
  since,    \* how long ago each data type last arrived at the remote cluster
  faults, edits

vars == <<wanted, shown, ht, op, cop, since, faults, edits>>

Ages == [Types -> 0..Horizon]
States == {"", "Enabled", "ConfigError", "Collecting"}
Shown == [set : BOOLEAN, state : States, last : 0..Horizon]
Resource == [there : BOOLEAN, deleting : BOOLEAN, finalizer : BOOLEAN, collections : SUBSET Collection,
             state : States, age : Ages, exported : SUBSET Types, last : 0..Horizon]
Op == [pc : {"idle", "finalizer", "release", "error", "mark", "collect", "save"}, fresh : BOOLEAN,
       due : SUBSET Collection, ok : BOOLEAN, arrived : SUBSET Types]
ClusterOp == [pc : {"idle", "delete", "create", "update", "show"}, fresh : BOOLEAN, current : BOOLEAN,
              wanted : SUBSET Collection, shows : Shown]

(* Every variable has its type. *)
TypeOK ==
  /\ wanted \in SUBSET Collection /\ shown \in Shown /\ ht \in Resource
  /\ op \in Op /\ cop \in ClusterOp
  /\ since \in Ages
  /\ faults \in 0..MaxFaults /\ edits \in 0..MaxEdits

NoResource == [there |-> FALSE, deleting |-> FALSE, finalizer |-> FALSE, collections |-> {}, state |-> "",
               age |-> [d \in Types |-> Horizon], exported |-> {}, last |-> Horizon]
NotShown == [set |-> FALSE, state |-> "", last |-> Horizon]
Idle == [pc |-> "idle", fresh |-> FALSE, due |-> {}, ok |-> FALSE, arrived |-> {}]
ClusterIdle == [pc |-> "idle", fresh |-> FALSE, current |-> FALSE, wanted |-> {}, shows |-> NotShown]

Init ==
  /\ wanted \in Configs /\ shown = NotShown /\ ht = NoResource
  /\ op = Idle /\ cop = ClusterIdle
  /\ since = [d \in Types |-> Horizon]
  /\ faults = 0 /\ edits = 0

Fault(f) == f \in FaultKinds /\ faults < MaxFaults /\ faults' = faults + 1 /\ UNCHANGED edits
Quiet == UNCHANGED <<faults, edits>>

(***************************************************************************)
(* Users and time                                                          *)
(***************************************************************************)
EditCluster ==
  /\ edits < MaxEdits /\ edits' = edits + 1
  /\ wanted' \in (Configs \cup {{}}) \ {wanted}
  /\ cop' = [cop EXCEPT !.current = FALSE]
  /\ UNCHANGED <<shown, ht, op, since, faults>>

Later(age) == IF age < Horizon THEN age + 1 ELSE Horizon
AllLater(ages) == [d \in Types |-> Later(ages[d])]

Tick ==
  /\ ht' = [ht EXCEPT !.age = AllLater(@), !.last = Later(@)]
  /\ since' = AllLater(since)
  /\ shown' = [shown EXCEPT !.last = Later(@)]
  /\ cop' = [cop EXCEPT !.shows.last = Later(@)]
  /\ UNCHANGED <<wanted, op>> /\ Quiet

(***************************************************************************)
(* The controller of telemetry                                             *)
(***************************************************************************)
\* A write that is refused if the resource has changed since it was read.
WriteTelemetry(new) ==
  IF op.fresh THEN ht' = new /\ cop' = [cop EXCEPT !.fresh = FALSE]
  ELSE UNCHANGED <<ht, cop>>

Included(collections) == UNION {c.include : c \in collections}
IsValid(collections) == collections # {} /\ Included(collections) \subseteq Valid

\* The last collection of any of its data types is long enough ago.
Due(c) == \A d \in c.include : ht.age[d] >= c.interval

\* The cluster is there: it owns the resource.
Begin ==
  /\ op.pc = "idle" /\ ht.there
  /\ LET due == {c \in ht.collections : Due(c)} IN
     op' = [Idle EXCEPT !.fresh = TRUE,
              !.pc = IF ht.deleting THEN "release" ELSE IF ~ht.finalizer THEN "finalizer"
                     ELSE IF ~IsValid(ht.collections) THEN "error"
                     ELSE IF due = {} THEN "idle" ELSE "mark",
              !.due = due]
  /\ UNCHANGED <<wanted, shown, ht, cop, since>> /\ Quiet

AddFinalizer ==
  /\ op.pc = "finalizer"
  /\ WriteTelemetry([ht EXCEPT !.finalizer = TRUE])
  /\ op' = Idle
  /\ UNCHANGED <<wanted, shown, since>> /\ Quiet

RemoveFinalizer ==
  /\ op.pc = "release"
  /\ WriteTelemetry(NoResource)
  /\ op' = Idle
  /\ UNCHANGED <<wanted, shown, since>> /\ Quiet

ReportConfigError ==
  /\ op.pc = "error"
  /\ WriteTelemetry([ht EXCEPT !.state = "ConfigError"])
  /\ op' = Idle
  /\ UNCHANGED <<wanted, shown, since>> /\ Quiet

MarkCollecting ==
  /\ op.pc = "mark"
  /\ WriteTelemetry([ht EXCEPT !.state = "Collecting"])
  /\ op' = IF op.fresh THEN [op EXCEPT !.pc = "collect"] ELSE Idle
  /\ UNCHANGED <<wanted, shown, since>> /\ Quiet

\* CollectTelemetryData leaves out what it cannot collect, and it is an error if that is
\* all; then every payload is sent, whatever becomes of the others.
Collected(failed) == (Included(op.due) \cap Known) \ failed
Collect(failed, lost) ==
  LET arrived == Collected(failed) \ lost IN
  /\ op.pc = "collect"
  /\ op' = [op EXCEPT !.pc = "save", !.arrived = arrived,
                      !.ok = Collected(failed) # {} /\ lost = {}]
  /\ since' = [d \in Types |-> IF d \in arrived THEN 0 ELSE since[d]]
  /\ UNCHANGED <<wanted, shown, ht, cop>>

CollectAll == Collect({}, {}) /\ Quiet
CollectFails ==
  Fault("send") /\ \E failed \in SUBSET Known : \E lost \in SUBSET Collected(failed) :
                      failed \cup lost # {} /\ Collect(failed, lost)

\* Every data type that was due gets the same time, whatever came of it.
Saved ==
  LET types == Included(op.due) IN
  [ht EXCEPT !.state = "Enabled", !.last = 0,
             !.age = [d \in Types |-> IF d \in types THEN 0 ELSE @[d]],
             !.exported = IF op.ok THEN @ \cup types ELSE @ \ types]

SaveStatus ==
  /\ op.pc = "save"
  /\ WriteTelemetry(Saved)
  /\ op' = Idle
  /\ UNCHANGED <<wanted, shown, since>> /\ Quiet

TelemetryStep ==
  \/ Begin \/ AddFinalizer \/ RemoveFinalizer \/ ReportConfigError
  \/ MarkCollecting \/ CollectAll \/ CollectFails \/ SaveStatus

\* What the status of the cluster is to show of the resource, taken over with its state.
Shows ==
  IF wanted = {} THEN NotShown
  ELSE IF ~ht.there THEN [set |-> TRUE, state |-> "Enabled", last |-> Horizon]
  ELSE IF shown.set /\ shown.state = ht.state THEN shown
  ELSE [set |-> TRUE, state |-> ht.state, last |-> ht.last]

ClusterReads ==
  /\ cop.pc = "idle"
  /\ cop' = [pc |-> IF wanted = {} THEN IF ht.there THEN "delete" ELSE "show"
                    ELSE IF ~ht.there THEN "create"
                    ELSE IF ht.collections # wanted THEN "update" ELSE "show",
             fresh |-> TRUE, current |-> TRUE, wanted |-> wanted, shows |-> Shows]
  /\ UNCHANGED <<wanted, shown, ht, op, since>> /\ Quiet

CreateTelemetry ==
  /\ cop.pc = "create"
  /\ ht' = IF ht.there THEN ht ELSE [NoResource EXCEPT !.there = TRUE, !.collections = cop.wanted]
  /\ cop' = [cop EXCEPT !.pc = IF ht.there THEN "idle" ELSE "show"]
  /\ UNCHANGED <<wanted, shown, op, since>> /\ Quiet

UpdateTelemetry ==
  /\ cop.pc = "update"
  /\ ht' = IF cop.fresh THEN [ht EXCEPT !.collections = cop.wanted] ELSE ht
  /\ op' = IF cop.fresh THEN [op EXCEPT !.fresh = FALSE] ELSE op
  /\ cop' = ClusterIdle
  /\ UNCHANGED <<wanted, shown, since>> /\ Quiet

\* A deletion is not refused for the sake of other changes, and a second one changes nothing.
DeleteTelemetry ==
  /\ cop.pc = "delete"
  /\ ht' = IF ht.there /\ ht.finalizer THEN [ht EXCEPT !.deleting = TRUE] ELSE NoResource
  /\ op' = [op EXCEPT !.fresh = @ /\ ht.deleting]
  /\ cop' = [cop EXCEPT !.pc = "show"]
  /\ UNCHANGED <<wanted, shown, since>> /\ Quiet

ShowTelemetry ==
  /\ cop.pc = "show"
  /\ shown' = IF cop.current THEN cop.shows ELSE shown
  /\ cop' = ClusterIdle
  /\ UNCHANGED <<wanted, ht, op, since>> /\ Quiet

ClusterStep == ClusterReads \/ CreateTelemetry \/ UpdateTelemetry \/ DeleteTelemetry \/ ShowTelemetry

\* The operator stops, or a call of one of the controllers fails.
Stop ==
  /\ Fault("stop")
  /\ \/ op' = Idle /\ cop' = ClusterIdle
     \/ op' = Idle /\ UNCHANGED cop
     \/ cop' = ClusterIdle /\ UNCHANGED op
  /\ UNCHANGED <<wanted, shown, ht, since>>

Next == EditCluster \/ Tick \/ TelemetryStep \/ ClusterStep \/ Stop

\* The update of a resource that nobody wrote since it was read.
UpdateRead == UpdateTelemetry /\ cop.fresh

\* Time passes, and both controllers are requeued; a reconcile of the cluster, which is tried
\* again and again, does not each time meet a write of the other between its read and its own.
Fairness ==
  /\ WF_vars(Tick) /\ WF_vars(TelemetryStep) /\ WF_vars(ClusterStep)
  /\ SF_vars(UpdateRead)

Spec == Init /\ [][Next]_vars /\ Fairness

(***************************************************************************)
(* Properties                                                              *)
(***************************************************************************)
(* Every data type that is asked for and can be collected arrives again and again: collections
   that fail, edits and crashes only delay it. *)
EveryTypeComes == \A d \in Known : []<>(d \in Included(wanted) => since[d] = 0)

(* In the end there is a HumioTelemetry resource as the cluster asks for, or none, and a
   configuration error is in the state of both as long as there is one. *)
Settled ==
  /\ ht.there <=> wanted # {}
  /\ ht.there => /\ ~ht.deleting /\ ht.collections = wanted
                 /\ (ht.state = "ConfigError") = ~IsValid(wanted)
                 /\ (~IsValid(wanted) => shown.state = "ConfigError")
  /\ ~ht.there => ~shown.set
=============================================================================
