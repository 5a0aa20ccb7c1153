--------------------------- MODULE ScheduledSearch ---------------------------
(***************************************************************************)
(* A HumioScheduledSearch in its two API versions.  It is stored as        *)
(* v1beta1; users of v1alpha1 write and read it through a conversion, and  *)
(* the controller, which works on v1beta1, converts once more when the     *)
(* cluster is too old for the newer calls of Humio.                        *)
(*                                                                         *)
(* What differs between the versions is modelled: a time is a number with  *)
(* a unit in one and a number of seconds in the other; which timestamp is  *)
(* searched by exists in v1beta1 only.  One action is one call.            *)
(***************************************************************************)
EXTENDS Integers

CONSTANTS
  AlphaSpecs,  \* what users write as v1alpha1: a subset of Alpha
  BetaSpecs,   \* what users write as v1beta1: a subset of Beta
  Validates,   \* is the validating webhook in place?
  FaultKinds, MaxFaults,  \* which failures may happen, and a bound on how many
  MaxEdits                \* bound on writes by users

(***************************************************************************)
(* The two versions                                                        *)
(***************************************************************************)
Duration == [now |-> 0, s |-> 1, m |-> 60, h |-> 3600, d |-> 86400, w |-> 604800, y |-> 31536000]
Time == [n : Nat, unit : DOMAIN Duration]
Now == [n |-> 0, unit |-> "now"]

ParseTimeStringToSeconds(t) == t.n * Duration[t.unit]

\* The largest unit that makes it a whole number.
ParseSecondsToString(x) ==
  IF x <= 0 THEN Now
  ELSE LET whole == {u \in {"d", "h", "m", "s"} : x % Duration[u] = 0}
           unit == CHOOSE u \in whole : \A v \in whole : Duration[v] <= Duration[u]
       IN [n |-> x \div Duration[unit], unit |-> unit]

\* A field that may be missing is a set with at most one element.
Optional(S) == {O \in SUBSET S : \A x, y \in O : x = y}
Alpha == [start : Time, end : Time, backfill : Nat]
Beta == [type : {"Event", "Ingest"}, interval : Int, offset : Optional(Int), wait : Nat,
         backfill : Optional(Nat)]

ASSUME SearchAssumption ==
  /\ AlphaSpecs \subseteq Alpha /\ BetaSpecs \subseteq Beta
  /\ Validates \in BOOLEAN /\ MaxFaults \in Nat /\ MaxEdits \in Nat

ConvertTo(a) ==
  [type |-> "Event", interval |-> ParseTimeStringToSeconds(a.start),
   offset |-> {ParseTimeStringToSeconds(a.end)}, wait |-> 0, backfill |-> {a.backfill}]

\* Mutant: the end is always now.
ConvertFrom_NoOffset(b) ==
  [start |-> ParseSecondsToString(b.interval), end |-> Now,
   backfill |-> IF b.backfill = {} THEN 0 ELSE CHOOSE n \in b.backfill : TRUE]

ConvertFrom(b) ==
  [start |-> ParseSecondsToString(b.interval),
   end |-> IF b.offset = {} THEN Now ELSE ParseSecondsToString(CHOOSE x \in b.offset : TRUE),
   backfill |-> IF b.backfill = {} THEN 0 ELSE CHOOSE n \in b.backfill : TRUE]

\* The rules of the resource definition.
Admitted(b) ==
  IF b.type = "Ingest" THEN b.backfill = {} /\ b.offset = {}
  ELSE b.backfill # {} /\ b.offset # {} /\ \A x \in b.offset : x >= 0

VARIABLES
  hss,      \* the resource: its spec as it is stored
  cluster,  \* the version of the cluster
  known,    \* the version in its status, "" if there is none yet
  humio,    \* the scheduled search in Humio
  op,       \* the reconcile: where it is, the copy of hss that it works on
  faults, edits

vars == <<hss, cluster, known, humio, op, faults, edits>>

Resource == [there : BOOLEAN, deleting : BOOLEAN, finalizer : BOOLEAN, gen : Nat, spec : Beta,
             state : {"", "Exists", "NotFound", "Unknown"}]
Search == [there : BOOLEAN, spec : Beta]
Stages == {"idle", "finalizer", "lookup", "delete", "release", "get", "add", "update", "report"}
Op == [pc : Stages, hss : Resource]

(* Every variable has its type. *)
TypeOK ==
  /\ hss \in Resource /\ humio \in Search /\ op \in Op
  /\ cluster \in {"old", "new"} /\ known \in {"", "old", "new"}
  /\ faults \in 0..MaxFaults /\ edits \in 0..MaxEdits

Fault(f) == f \in FaultKinds /\ faults < MaxFaults /\ faults' = faults + 1 /\ UNCHANGED edits
Edit == edits < MaxEdits /\ edits' = edits + 1 /\ UNCHANGED faults
Quiet == UNCHANGED <<faults, edits>>

NoSpec == [type |-> "Event", interval |-> 0, offset |-> {}, wait |-> 0, backfill |-> {}]
NoResource == [there |-> FALSE, deleting |-> FALSE, finalizer |-> FALSE, gen |-> 0, spec |-> NoSpec,
               state |-> ""]
NoSearch == [there |-> FALSE, spec |-> NoSpec]

Init ==
  /\ hss = NoResource /\ humio = NoSearch
  /\ cluster \in {"old", "new"} /\ known = ""
  /\ op = [pc |-> "idle", hss |-> NoResource]
  /\ faults = 0 /\ edits = 0

(***************************************************************************)
(* The users                                                               *)
(***************************************************************************)
\* A write of a spec; the first one makes the resource.
Write(spec) ==
  /\ hss' = [hss EXCEPT !.there = TRUE, !.gen = edits + 1, !.spec = spec]
  /\ UNCHANGED <<cluster, known, humio, op>>

WriteAlpha == Edit /\ \E a \in AlphaSpecs : Write(ConvertTo(a))

\* Reads the resource as v1alpha1 and writes it back with a change that is not modelled.
TouchAlpha == Edit /\ hss.there /\ Write(ConvertTo(ConvertFrom(hss.spec)))

\* validatePayload: the timestamp of ingest needs a cluster whose version is known and new.
Validated(b) == Admitted(b) /\ (Validates /\ b.type = "Ingest" => known = "new")

WriteBeta == Edit /\ \E b \in BetaSpecs : Validated(b) /\ Write(b)

DeleteSearch ==
  /\ Edit
  /\ hss.there /\ ~hss.deleting
  /\ hss' = IF hss.finalizer THEN [hss EXCEPT !.deleting = TRUE] ELSE NoResource
  /\ UNCHANGED <<cluster, known, humio, op>>

Upgrade ==
  /\ cluster = "old"
  /\ cluster' = "new"
  /\ UNCHANGED <<hss, known, humio, op>> /\ Quiet

\* The controller of the cluster writes its version to the status.
PublishVersion ==
  /\ known # cluster
  /\ known' = cluster
  /\ UNCHANGED <<hss, cluster, humio, op>> /\ Quiet

(***************************************************************************)
(* The controller                                                          *)
(***************************************************************************)
At(stage) == op.pc = stage
Goto(stage) == op' = [op EXCEPT !.pc = stage]

Begin ==
  /\ At("idle") /\ hss.there
  /\ op' = [pc |-> IF hss.deleting THEN "lookup" ELSE IF hss.finalizer THEN "get" ELSE "finalizer",
            hss |-> hss]
  /\ UNCHANGED <<hss, cluster, known, humio>> /\ Quiet

\* A write is refused if the resource has changed since it was read.
AddFinalizer ==
  /\ At("finalizer")
  /\ hss' = IF hss = op.hss THEN [hss EXCEPT !.finalizer = TRUE] ELSE hss
  /\ Goto("report")
  /\ UNCHANGED <<cluster, known, humio>> /\ Quiet

\* determineAPIVersion.  Every v1beta1 spec can be converted, so that an old cluster is
\* always talked to in the older way.
UsesV1 == known = "old"
UsesV2 == known = "new" /\ cluster = "new"
Reachable == UsesV1 \/ UsesV2

\* getScheduledSearchVersionAware
Found == IF UsesV1 THEN ConvertTo(ConvertFrom(humio.spec)) ELSE humio.spec

\* What Humio has after a write of b: the older calls have no timestamp and no wait, the newer
\* ones take the wait only with the timestamp of ingest.
Stored(b) ==
  IF UsesV1 THEN ConvertTo(ConvertFrom(b)) ELSE [b EXCEPT !.wait = IF b.type = "Event" THEN 0 ELSE @]

\* scheduledSearchAlreadyAsExpectedV2
GetSearch ==
  /\ At("get")
  /\ Goto(IF ~Reachable THEN "report" ELSE IF ~humio.there THEN "add"
          ELSE IF Found = op.hss.spec THEN "report" ELSE "update")
  /\ UNCHANGED <<hss, cluster, known, humio>> /\ Quiet

AddSearch ==
  /\ At("add")
  /\ humio' = IF Reachable /\ ~humio.there THEN [there |-> TRUE, spec |-> Stored(op.hss.spec)] ELSE humio
  /\ Goto("report")
  /\ UNCHANGED <<hss, cluster, known>> /\ Quiet

UpdateSearch ==
  /\ At("update")
  /\ humio' = IF Reachable /\ humio.there THEN [humio EXCEPT !.spec = Stored(op.hss.spec)] ELSE humio
  /\ Goto("report")
  /\ UNCHANGED <<hss, cluster, known>> /\ Quiet

LookupDeleted ==
  /\ At("lookup")
  /\ Goto(IF ~Reachable \/ humio.there THEN "delete" ELSE "release")
  /\ UNCHANGED <<hss, cluster, known, humio>> /\ Quiet

DeleteInHumio ==
  /\ At("delete")
  /\ humio' = IF Reachable THEN NoSearch ELSE humio
  /\ Goto("report")
  /\ UNCHANGED <<hss, cluster, known>> /\ Quiet

RemoveFinalizer ==
  /\ At("release")
  /\ hss' = IF hss = op.hss THEN NoResource ELSE hss
  /\ Goto("report")
  /\ UNCHANGED <<cluster, known, humio>> /\ Quiet

\* The deferred lookup, whatever came before; the state goes to a fresh copy.
Report ==
  /\ At("report")
  /\ hss' = IF ~hss.there THEN hss
            ELSE [hss EXCEPT !.state = IF ~Reachable THEN "Unknown" ELSE IF humio.there THEN "Exists" ELSE "NotFound"]
  /\ Goto("idle")
  /\ UNCHANGED <<cluster, known, humio>> /\ Quiet

Reconcile ==
  \/ Begin \/ AddFinalizer \/ GetSearch \/ AddSearch \/ UpdateSearch
  \/ LookupDeleted \/ DeleteInHumio \/ RemoveFinalizer \/ Report

\* A call fails, or an action that the search refers to is not there.
CallFails ==
  /\ op.pc \notin {"idle", "report"}
  /\ Fault("call")
  /\ Goto(IF At("lookup") THEN "delete" ELSE "report")
  /\ UNCHANGED <<hss, cluster, known, humio>>

Stop ==
  /\ ~At("idle")
  /\ Fault("stop")
  /\ Goto("idle")
  /\ UNCHANGED <<hss, cluster, known, humio>>

Next ==
  \/ WriteAlpha \/ TouchAlpha \/ WriteBeta \/ DeleteSearch \/ Upgrade \/ PublishVersion
  \/ Reconcile \/ CallFails \/ Stop

\* A reconcile is requeued, the version of a cluster comes to its status.
Fairness == WF_vars(Reconcile) /\ WF_vars(PublishVersion)

Spec == Init /\ [][Next]_vars /\ Fairness

(***************************************************************************)
(* Properties                                                              *)
(***************************************************************************)
(* A user of v1alpha1 who writes back what the conversion shows changes nothing of a search
   by the time of its events, whatever seconds a user of v1beta1 has chosen. *)
TouchKeepsEvents == [][TouchAlpha /\ hss.spec.type = "Event" => hss'.spec = hss.spec]_vars

(* In the end Humio has the search as the resource has it, in whichever version it was
   written and whichever the cluster knows, and updates of it end; or it is gone. *)
Settled ==
  /\ hss.there => ~hss.deleting /\ humio.there /\ humio.spec = hss.spec /\ hss.state = "Exists"
  /\ ~At("update")

(* A search that was made in v1beta1 is not sent by the older calls: "If conversion fails
   (resource was originally v1beta1), returns nil to indicate V2 API should be used instead". *)
SentAsIs == [][humio'.there /\ humio' # humio => humio'.spec = op.hss.spec]_vars
=============================================================================
