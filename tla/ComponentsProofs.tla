-------------------------- MODULE ComponentsProofs --------------------------
(***************************************************************************)
(* Proofs about the components that run one by one: for each instance of   *)
(* Components, whatever its constants, what that component may never do.   *)
(* The types of all of them follow, and last what this says of Components, *)
(* whose behaviours are about one of them each.                            *)
(*                                                                         *)
(* First scheduled searches: what the conversion between the versions      *)
(* keeps, for every number of seconds, and from it that neither a user of  *)
(* the older version nor an older cluster changes a scheduled search by    *)
(* the time of its events.                                                 *)
(***************************************************************************)
EXTENDS Components, Sequences, FiniteSetTheorems, TLAPS

(* A time that is formatted and parsed again is the same number of seconds. *)
LEMMA SecondsRoundTrip ==
  ASSUME NEW x \in Nat
  PROVE  /\ ParseSecondsToString(x) \in Time
         /\ ParseTimeStringToSeconds(ParseSecondsToString(x)) = x
<1>1. CASE x = 0
  BY <1>1, SMT DEF ParseSecondsToString, ParseTimeStringToSeconds, Now, Time, Duration
<1>2. CASE x > 0
  <2> DEFINE whole == {u \in {"d", "h", "m", "s"} : x % Duration[u] = 0}
             unit == CHOOSE u \in whole : \A v \in whole : Duration[v] <= Duration[u]
  <2>1. "s" \in whole
    BY SMT DEF Duration
  <2>2. \E u \in whole : \A v \in whole : Duration[v] <= Duration[u]
    <3>1. whole \subseteq {"d", "h", "m", "s"}
      OBVIOUS
    <3>2. Duration["s"] = 1 /\ Duration["m"] = 60 /\ Duration["h"] = 3600 /\ Duration["d"] = 86400
      BY DEF Duration
    <3> HIDE DEF whole
    <3>3. CASE "d" \in whole
      BY <3>1, <3>2, <3>3, SMT
    <3>4. CASE "d" \notin whole /\ "h" \in whole
      BY <3>1, <3>2, <3>4, SMT
    <3>5. CASE "d" \notin whole /\ "h" \notin whole /\ "m" \in whole
      BY <3>1, <3>2, <3>5, SMT
    <3>6. CASE whole = {"s"}
      BY <3>2, <3>6, SMT
    <3>7. QED
      BY <2>1, <3>1, <3>3, <3>4, <3>5, <3>6
  <2>3. unit \in whole
    <3> HIDE DEF whole
    <3> QED
      BY <2>2
  <2>4. unit \in {"d", "h", "m", "s"} /\ x % Duration[unit] = 0
    BY <2>3
  <2>5. ParseSecondsToString(x) = [n |-> x \div Duration[unit], unit |-> unit]
    BY <1>2, SMT DEF ParseSecondsToString
  <2> HIDE DEF unit, whole
  <2>6. x \div Duration[unit] \in Nat /\ (x \div Duration[unit]) * Duration[unit] = x
    <3>1. CASE unit = "d"
      BY <2>4, <3>1, SMT DEF Duration
    <3>2. CASE unit = "h"
      BY <2>4, <3>2, SMT DEF Duration
    <3>3. CASE unit = "m"
      BY <2>4, <3>3, SMT DEF Duration
    <3>4. CASE unit = "s"
      BY <2>4, <3>4, SMT DEF Duration
    <3>5. QED
      BY <2>4, <3>1, <3>2, <3>3, <3>4
  <2>7. unit \in DOMAIN Duration
    BY <2>4 DEF Duration
  <2>8. QED
    BY <2>5, <2>6, <2>7 DEF ParseTimeStringToSeconds, Time
<1>3. QED
  BY <1>1, <1>2, SMT

LEMMA SecondsType ==
  ASSUME NEW x \in Int
  PROVE  ParseSecondsToString(x) \in Time
<1>1. CASE x <= 0
  <2>1. ParseSecondsToString(x) = Now
    BY <1>1 DEF ParseSecondsToString
  <2>2. QED
    BY <2>1, SMT DEF Now, Time, Duration
<1>2. CASE x > 0
  BY <1>2, SecondsRoundTrip, SMT
<1>3. QED
  BY <1>1, <1>2, SMT

(* The conversions give what the other version has. *)
LEMMA ConvertToType ==
  ASSUME NEW a \in Alpha
  PROVE  /\ ConvertTo(a) \in Beta /\ ConvertTo(a).type = "Event" /\ ConvertTo(a).wait = 0
         /\ ConvertTo(a).interval \in Nat
         /\ \E x, n \in Nat : ConvertTo(a).offset = {x} /\ ConvertTo(a).backfill = {n}
<1>1. ASSUME NEW t \in Time
      PROVE  ParseTimeStringToSeconds(t) \in Nat
  <2>1. Duration[t.unit] \in Nat
    BY <1>1 DEF Time, Duration
  <2>2. QED
    BY <1>1, <2>1, SMT DEF Time, ParseTimeStringToSeconds
<1>2. a.start \in Time /\ a.end \in Time /\ a.backfill \in Nat
  BY DEF Alpha
<1> DEFINE i == ParseTimeStringToSeconds(a.start)
           o == ParseTimeStringToSeconds(a.end)
<1>3. i \in Nat /\ o \in Nat
  BY <1>1, <1>2
<1>4. ConvertTo(a) = [type |-> "Event", interval |-> i, offset |-> {o}, wait |-> 0,
                      backfill |-> {a.backfill}]
  BY DEF ConvertTo
<1> HIDE DEF i, o
<1>5. {o} \in Optional(Int) /\ {a.backfill} \in Optional(Nat)
  BY <1>2, <1>3, SMT DEF Optional
<1>6. ConvertTo(a) \in Beta
  BY <1>2, <1>3, <1>4, <1>5, SMT DEF Beta
<1>7. QED
  BY <1>2, <1>3, <1>4, <1>6, SMT

LEMMA ConvertFromType ==
  ASSUME NEW b \in Beta
  PROVE  ConvertFrom(b) \in Alpha
<1>1. ParseSecondsToString(b.interval) \in Time
  BY SecondsType DEF Beta
<1>2. ConvertFrom(b).end \in Time
  <2>1. Now \in Time
    BY SMT DEF Now, Time, Duration
  <2>2. b.offset # {} => (CHOOSE x \in b.offset : TRUE) \in Int
    BY DEF Beta, Optional
  <2>3. QED
    BY <2>1, <2>2, SecondsType DEF ConvertFrom
<1>3. ConvertFrom(b).backfill \in Nat
  BY SMT DEF ConvertFrom, Beta, Optional
<1>4. ConvertFrom(b) = [start |-> ParseSecondsToString(b.interval), end |-> ConvertFrom(b).end,
                        backfill |-> ConvertFrom(b).backfill]
  BY DEF ConvertFrom
<1>5. QED
  BY <1>1, <1>2, <1>3, <1>4 DEF Alpha

(* A search by the time of its events that has no wait and searches no negative time: the
   conversion back and forth keeps it. *)
Sensible(b) ==
  /\ b \in Beta /\ b.interval \in Nat
  /\ b.type = "Event" => /\ b.wait = 0
                         /\ \E x, n \in Nat : b.offset = {x} /\ b.backfill = {n}

LEMMA EventIsKept ==
  ASSUME NEW b, Sensible(b), b.type = "Event"
  PROVE  ConvertTo(ConvertFrom(b)) = b
<1> DEFINE a == ConvertFrom(b)
<1>1. PICK x, n \in Nat : b.offset = {x} /\ b.backfill = {n}
  BY DEF Sensible
<1>2. (CHOOSE y \in b.offset : TRUE) = x /\ (CHOOSE y \in b.backfill : TRUE) = n
  BY <1>1
<1>3. a = [start |-> ParseSecondsToString(b.interval), end |-> ParseSecondsToString(x), backfill |-> n]
  BY <1>1, <1>2 DEF ConvertFrom
<1>4. b.interval \in Nat
  BY DEF Sensible
<1>5. ParseTimeStringToSeconds(a.start) = b.interval /\ ParseTimeStringToSeconds(a.end) = x
  BY <1>3, <1>4, SecondsRoundTrip
<1>6. b = [type |-> "Event", interval |-> b.interval, offset |-> {x}, wait |-> 0, backfill |-> {n}]
  BY <1>1, SMT DEF Sensible, Beta
<1>7. ConvertTo(a) = [type |-> "Event", interval |-> b.interval, offset |-> {x}, wait |-> 0,
                      backfill |-> {n}]
  BY <1>3, <1>5 DEF ConvertTo
<1>8. QED
  BY <1>6, <1>7

(***************************************************************************)
(* The types                                                               *)
(***************************************************************************)
LEMMA StoredType ==
  ASSUME NEW b \in Beta
  PROVE  Stored(b) \in Beta
<1>1. ConvertTo(ConvertFrom(b)) \in Beta
  BY ConvertFromType, ConvertToType
<1>2. [b EXCEPT !.wait = IF b.type = "Event" THEN 0 ELSE @] \in Beta
  BY SMT DEF Beta
<1>3. QED
  BY <1>1, <1>2 DEF Stored

LEMMA NoSpecType == NoSpec \in Beta /\ NoSearch \in Search /\ NoResource \in Resource
<1>1. {} \in Optional(Int) /\ {} \in Optional(Nat)
  BY DEF Optional
<1>2. NoSpec \in Beta
  BY <1>1, SMT DEF NoSpec, Beta
<1>3. QED
  BY <1>2, SMT DEF NoSearch, NoResource, Search, Resource

LEMMA InitType == Init => TypeOK
<1> SUFFICES ASSUME Init PROVE TypeOK
  OBVIOUS
<1>1. op \in Op
  BY NoSpecType DEF Init, Op, Stages
<1>2. 0 \in 0..MaxFaults /\ 0 \in 0..MaxEdits
  BY SearchAssumption
<1>3. QED
  BY <1>1, <1>2, NoSpecType DEF Init, TypeOK

(* The counters stay within their bounds. *)
LEMMA BudgetType ==
  ASSUME TypeOK
  PROVE  /\ Quiet => faults' \in 0..MaxFaults /\ edits' \in 0..MaxEdits
         /\ Edit => faults' \in 0..MaxFaults /\ edits' \in 0..MaxEdits /\ edits + 1 \in Nat
         /\ \A f : Fault(f) => faults' \in 0..MaxFaults /\ edits' \in 0..MaxEdits
<1>1. faults \in 0..MaxFaults /\ edits \in 0..MaxEdits
  BY DEF TypeOK
<1>2. MaxFaults \in Nat /\ MaxEdits \in Nat
  BY SearchAssumption
<1>3. QED
  BY <1>1, <1>2 DEF Quiet, Edit, Fault

LEMMA GotoType ==
  ASSUME TypeOK, NEW stage \in Stages, Goto(stage)
  PROVE  op' \in Op
BY DEF TypeOK, Goto, Op

LEMMA WriteType ==
  ASSUME TypeOK, Edit, NEW b \in Beta, Write(b)
  PROVE  TypeOK'
<1>1. hss' \in Resource
  BY BudgetType DEF TypeOK, Write, Resource
<1>2. QED
  BY <1>1, BudgetType DEF TypeOK, Write

LEMMA NextType == TypeOK /\ [Next]_vars => TypeOK'
<1> SUFFICES ASSUME TypeOK, [Next]_vars PROVE TypeOK'
  OBVIOUS
<1>0. /\ hss \in Resource /\ humio \in Search /\ op \in Op
      /\ op.hss \in Resource /\ op.hss.spec \in Beta /\ humio.spec \in Beta /\ hss.spec \in Beta
  BY DEF TypeOK, Op, Resource, Search
<1>1. CASE WriteAlpha
  BY <1>1, ConvertToType, WriteType, SearchAssumption DEF WriteAlpha
<1>2. CASE TouchAlpha
  BY <1>0, <1>2, ConvertFromType, ConvertToType, WriteType DEF TouchAlpha
<1>3. CASE WriteBeta
  BY <1>3, WriteType, SearchAssumption DEF WriteBeta
<1>4. CASE DeleteSearch
  <2>1. [hss EXCEPT !.deleting = TRUE] \in Resource
    BY <1>0 DEF Resource
  <2>2. QED
    BY <1>4, <2>1, NoSpecType, BudgetType DEF TypeOK, DeleteSearch
<1>5. CASE Upgrade \/ PublishVersion
  BY <1>5 DEF TypeOK, Upgrade, PublishVersion, Quiet
<1>6. CASE Begin
  <2>1. op' \in Op
    BY <1>0, <1>6 DEF Begin, Op, Stages
  <2>2. QED
    BY <1>6, <2>1, BudgetType DEF TypeOK, Begin
<1>7. CASE GetSearch \/ LookupDeleted
  <2>1. op' \in Op
    BY <1>7, GotoType DEF GetSearch, LookupDeleted, Stages
  <2>2. QED
    BY <1>7, <2>1, BudgetType DEF TypeOK, GetSearch, LookupDeleted
<1>8. CASE AddFinalizer \/ RemoveFinalizer \/ Report
  <2>1. hss' \in Resource
    BY <1>0, <1>8, NoSpecType DEF AddFinalizer, RemoveFinalizer, Report, Resource
  <2>2. op' \in Op
    BY <1>8, GotoType DEF AddFinalizer, RemoveFinalizer, Report, Stages
  <2>3. QED
    BY <1>8, <2>1, <2>2, BudgetType DEF TypeOK, AddFinalizer, RemoveFinalizer, Report
<1>9. CASE AddSearch \/ UpdateSearch \/ DeleteInHumio
  <2>1. Stored(op.hss.spec) \in Beta
    BY <1>0, StoredType
  <2>2. humio' \in Search
    <3>1. NoSearch \in Search
      BY NoSpecType
    <3>2. /\ [humio EXCEPT !.spec = Stored(op.hss.spec)] \in Search
          /\ [there |-> TRUE, spec |-> Stored(op.hss.spec)] \in Search
      BY <1>0, <2>1 DEF Search
    <3>3. QED
      BY <1>0, <1>9, <3>1, <3>2 DEF AddSearch, UpdateSearch, DeleteInHumio
  <2>3. op' \in Op
    BY <1>9, GotoType DEF AddSearch, UpdateSearch, DeleteInHumio, Stages
  <2>4. QED
    BY <1>9, <2>2, <2>3, BudgetType DEF TypeOK, AddSearch, UpdateSearch, DeleteInHumio
<1>10. CASE CallFails \/ Stop
  <2>1. op' \in Op
    BY <1>10, GotoType DEF CallFails, Stop, Stages
  <2>2. QED
    BY <1>10, <2>1, BudgetType DEF TypeOK, CallFails, Stop
<1>11. CASE UNCHANGED vars
  BY <1>11 DEF TypeOK, vars
<1>12. QED
  BY <1>1, <1>2, <1>3, <1>4, <1>5, <1>6, <1>7, <1>8, <1>9, <1>10, <1>11 DEF Next, Reconcile

(* Resource, cluster, search and reconcile are what they should be. *)
THEOREM SearchTypeCorrect == Spec => []TypeOK
BY InitType, NextType, PTL DEF Spec

(***************************************************************************)
(* Sensible searches stay what they are                                    *)
(***************************************************************************)
\* What users may write for the theorems below.
SensibleWrites == \A b \in BetaSpecs : Admitted(b) => Sensible(b)

(* Whatever is stored, and whatever a reconcile sends, is sensible. *)
SensibleInv ==
  /\ hss.there => Sensible(hss.spec)
  /\ op.pc \in {"get", "add", "update"} => Sensible(op.hss.spec)

(* A search by the time of ingest was let in when the cluster was known to be new, which
   it stays. *)
NewEnough ==
  /\ known = "new" => cluster = "new"
  /\ hss.there /\ hss.spec.type = "Ingest" => known = "new"
  /\ op.pc \in {"get", "add", "update"} /\ op.hss.spec.type = "Ingest" => known = "new"

LEMMA AlphaIsSensible ==
  ASSUME NEW a \in Alpha
  PROVE  Sensible(ConvertTo(a)) /\ ConvertTo(a).type = "Event"
BY ConvertToType DEF Sensible

LEMMA SensibleInit == Init => SensibleInv /\ NewEnough
<1> SUFFICES ASSUME Init PROVE SensibleInv /\ NewEnough
  OBVIOUS
<1>1. hss.there = FALSE /\ op.pc = "idle" /\ known = ""
  BY DEF Init, NoResource
<1>2. QED
  BY <1>1 DEF SensibleInv, NewEnough

\* What a step of the controller leaves alone.
LEMMA ReconcileKeeps ==
  ASSUME TypeOK, Reconcile \/ CallFails \/ Stop
  PROVE  /\ known' = known /\ cluster' = cluster
         /\ hss'.there => hss.there /\ hss'.spec = hss.spec
         /\ op'.pc \in {"get", "add", "update"} =>
              \/ op'.hss = op.hss /\ op.pc \in {"get", "add", "update"}
              \/ op'.hss = hss /\ hss.there
<1>0. hss \in Resource /\ op \in Op
  BY DEF TypeOK
<1>1. CASE Begin
  BY <1>1 DEF Begin
<1>2. CASE AddFinalizer \/ RemoveFinalizer \/ Report
  <2>1. known' = known /\ cluster' = cluster /\ op'.pc \in {"report", "idle"}
    BY <1>0, <1>2 DEF AddFinalizer, RemoveFinalizer, Report, Goto, Op
  <2>2. hss'.there => hss.there /\ hss'.spec = hss.spec
    <3>1. CASE AddFinalizer
      BY <1>0, <3>1 DEF AddFinalizer, Resource
    <3>2. CASE RemoveFinalizer
      <4>1. NoResource.there = FALSE
        BY DEF NoResource
      <4>2. QED
        BY <3>2, <4>1 DEF RemoveFinalizer
    <3>3. CASE Report
      BY <1>0, <3>3 DEF Report, Resource
    <3>4. QED
      BY <1>2, <3>1, <3>2, <3>3
  <2>3. QED
    BY <2>1, <2>2
<1>3. CASE GetSearch
  BY <1>0, <1>3 DEF GetSearch, At, Goto, Op
<1>4. CASE AddSearch \/ UpdateSearch \/ DeleteInHumio \/ LookupDeleted \/ CallFails \/ Stop
  BY <1>0, <1>4 DEF AddSearch, UpdateSearch, DeleteInHumio, LookupDeleted, CallFails, Stop, Goto, Op
<1>5. QED
  BY <1>1, <1>2, <1>3, <1>4 DEF Reconcile

\* What a user's write changes.
LEMMA WriteKeeps ==
  ASSUME TypeOK, NEW b, Write(b)
  PROVE  hss'.spec = b /\ op' = op /\ known' = known /\ cluster' = cluster
BY DEF TypeOK, Write, Resource

LEMMA DeleteKeeps ==
  ASSUME TypeOK, DeleteSearch
  PROVE  /\ hss'.there => hss.there /\ hss'.spec = hss.spec
         /\ op' = op /\ known' = known /\ cluster' = cluster
BY DEF TypeOK, DeleteSearch, Resource, NoResource

LEMMA SensibleStep ==
  ASSUME SensibleWrites
  PROVE  TypeOK /\ SensibleInv /\ [Next]_vars => SensibleInv'
<1> SUFFICES ASSUME TypeOK, SensibleInv, [Next]_vars PROVE SensibleInv'
  OBVIOUS
<1>0. hss.spec \in Beta
  BY DEF TypeOK, Resource
<1>1. ASSUME NEW b, Sensible(b), Write(b)
      PROVE  SensibleInv'
  BY <1>1, WriteKeeps DEF SensibleInv
<1>2. CASE WriteAlpha
  BY <1>1, <1>2, AlphaIsSensible, SearchAssumption DEF WriteAlpha
<1>3. CASE TouchAlpha
  BY <1>0, <1>1, <1>3, ConvertFromType, AlphaIsSensible DEF TouchAlpha
<1>4. CASE WriteBeta
  BY <1>1, <1>4 DEF WriteBeta, Validated, SensibleWrites
<1>5. CASE DeleteSearch
  BY <1>5, DeleteKeeps DEF SensibleInv
<1>6. CASE Upgrade \/ PublishVersion \/ UNCHANGED vars
  BY <1>6 DEF Upgrade, PublishVersion, vars, SensibleInv
<1>7. CASE Reconcile \/ CallFails \/ Stop
  BY <1>7, ReconcileKeeps DEF SensibleInv
<1>8. QED
  BY <1>2, <1>3, <1>4, <1>5, <1>6, <1>7 DEF Next

LEMMA NewEnoughStep ==
  ASSUME Validates = TRUE
  PROVE  TypeOK /\ NewEnough /\ [Next]_vars => NewEnough'
<1> SUFFICES ASSUME TypeOK, NewEnough, [Next]_vars PROVE NewEnough'
  OBVIOUS
<1>0. hss.spec \in Beta /\ cluster \in {"old", "new"}
  BY DEF TypeOK, Resource
<1>1. ASSUME NEW b, b.type = "Ingest" => known = "new", Write(b)
      PROVE  NewEnough'
  BY <1>1, WriteKeeps DEF NewEnough
<1>2. CASE WriteAlpha
  BY <1>1, <1>2, AlphaIsSensible, SearchAssumption DEF WriteAlpha
<1>3. CASE TouchAlpha
  BY <1>0, <1>1, <1>3, ConvertFromType, AlphaIsSensible DEF TouchAlpha
<1>4. CASE WriteBeta
  BY <1>1, <1>4 DEF WriteBeta, Validated
<1>5. CASE DeleteSearch
  BY <1>5, DeleteKeeps DEF NewEnough
<1>6. CASE Upgrade \/ PublishVersion \/ UNCHANGED vars
  BY <1>0, <1>6 DEF Upgrade, PublishVersion, vars, NewEnough
<1>7. CASE Reconcile \/ CallFails \/ Stop
  BY <1>7, ReconcileKeeps DEF NewEnough
<1>8. QED
  BY <1>2, <1>3, <1>4, <1>5, <1>6, <1>7 DEF Next

(* What the older or the newer calls write is what the reconcile has, if the search is
   sensible and the older calls are not used for one by the time of ingest. *)
LEMMA StoredAsIs ==
  ASSUME NEW b, Sensible(b), b.type = "Ingest" => ~UsesV1
  PROVE  Stored(b) = b
<1>1. CASE b.type = "Event" /\ UsesV1
  BY <1>1, EventIsKept DEF Stored
<1>2. CASE b.type = "Event" /\ ~UsesV1
  <2>1. [b EXCEPT !.wait = 0] = b
    BY <1>2 DEF Sensible, Beta
  <2>2. QED
    BY <1>2, <2>1 DEF Stored
<1>3. CASE b.type = "Ingest"
  <2>1. [b EXCEPT !.wait = b.wait] = b
    BY DEF Sensible, Beta
  <2>2. QED
    BY <1>3, <2>1 DEF Stored
<1>4. QED
  BY <1>1, <1>2, <1>3 DEF Sensible, Beta

(* A user of the older version who writes back what it shows changes nothing of a search by
   the time of its events, however many seconds it has: the conversion takes a unit that
   divides them. *)
THEOREM OldVersionIsSafe == SensibleWrites /\ Spec => TouchKeepsEvents
<1> SUFFICES ASSUME SensibleWrites PROVE Spec => TouchKeepsEvents
  OBVIOUS
<1>1. TypeOK /\ SensibleInv /\ [Next]_vars
        => [TouchAlpha /\ hss.spec.type = "Event" => hss'.spec = hss.spec]_vars
  <2> SUFFICES ASSUME TypeOK, SensibleInv, TouchAlpha, hss.spec.type = "Event"
               PROVE  hss'.spec = hss.spec
    OBVIOUS
  <2>1. ConvertTo(ConvertFrom(hss.spec)) = hss.spec
    BY EventIsKept DEF TouchAlpha, SensibleInv
  <2>2. QED
    BY <2>1, WriteKeeps DEF TouchAlpha
<1>2. QED
  BY <1>1, SensibleInit, SensibleStep, SearchTypeCorrect, PTL DEF Spec, TouchKeepsEvents

(* With the validating webhook, what reaches Humio is what the resource has, whichever
   version a cluster knows and whenever it is upgraded. *)
THEOREM SentIsWritten == SensibleWrites /\ Validates = TRUE /\ Spec => SentAsIs
<1> SUFFICES ASSUME SensibleWrites, Validates = TRUE PROVE Spec => SentAsIs
  OBVIOUS
<1>1. TypeOK /\ SensibleInv /\ NewEnough /\ [Next]_vars
        => [humio'.there /\ humio' # humio => humio'.spec = op.hss.spec]_vars
  <2> SUFFICES ASSUME TypeOK, SensibleInv, NewEnough, Next, humio'.there, humio' # humio
               PROVE  humio'.spec = op.hss.spec
    OBVIOUS
  <2>1. AddSearch \/ UpdateSearch
    <3>1. CASE DeleteInHumio
      <4>1. NoSearch.there = FALSE
        BY DEF NoSearch
      <4>2. QED
        BY <3>1, <4>1 DEF DeleteInHumio
    <3>2. CASE WriteAlpha \/ TouchAlpha \/ WriteBeta \/ DeleteSearch \/ Upgrade \/ PublishVersion
      BY <3>2 DEF WriteAlpha, TouchAlpha, WriteBeta, Write, DeleteSearch, Upgrade, PublishVersion
    <3>3. CASE \/ Begin \/ AddFinalizer \/ GetSearch \/ LookupDeleted \/ RemoveFinalizer \/ Report
               \/ CallFails \/ Stop
      BY <3>3 DEF Begin, AddFinalizer, GetSearch, LookupDeleted, RemoveFinalizer, Report, CallFails, Stop
    <3>4. QED
      BY <3>1, <3>2, <3>3 DEF Next, Reconcile
  <2>2. op.pc \in {"get", "add", "update"}
    BY <2>1 DEF AddSearch, UpdateSearch, At
  <2>3. Stored(op.hss.spec) = op.hss.spec
    BY <2>2, StoredAsIs DEF SensibleInv, NewEnough, UsesV1
  <2>4. humio'.spec = Stored(op.hss.spec)
    <3>1. humio \in [there : BOOLEAN, spec : Beta]
      BY DEF TypeOK, Search
    <3>2. CASE AddSearch
      BY <3>2 DEF AddSearch
    <3>3. CASE UpdateSearch
      BY <3>1, <3>3 DEF UpdateSearch
    <3>4. QED
      BY <2>1, <3>2, <3>3
  <2>5. QED
    BY <2>3, <2>4
<1>2. QED
  BY <1>1, SensibleInit, SensibleStep, NewEnoughStep, SearchTypeCorrect, PTL DEF Spec, SentAsIs

(***************************************************************************)
(* Clients of resources (HumioClients).                                    *)
(***************************************************************************)
\* What a configuration, a client and a reconcile consist of.
Config == [cluster : Clusters, https : BOOLEAN, slash : BOOLEAN, token : Int, ca : Int, insecure : BOOLEAN]
Client == [config : Config, transport : [id : Int, ca : Int, insecure : BOOLEAN]]
Caller ==
  {Clients!Idle}
  \cup [pc : {"url", "token", "ca", "client", "call"}, tls : BOOLEAN, config : Config,
        client : Client \cup {Clients!NoClient}]
  \cup [pc : {"show"}, shown : {"Ready", "Unknown"}]

ClientsShape ==
  /\ tls \in [Clusters -> BOOLEAN] /\ authority \in [Clusters -> Int]
  /\ token \in [Clusters -> Int] /\ secret \in [Clusters -> Int]
  /\ slots \in [Clients!Names -> Client \cup {Clients!NoClient}]
  /\ proc \in [Resources -> Caller]

\* A client verifies what its configuration says, whoever it was made for.
Verifies(client) ==
  client.transport.ca = client.config.ca /\ client.transport.insecure = client.config.insecure

SlotsVerify == \A n \in Clients!Names : slots[n] # Clients!NoClient => Verifies(slots[n])

ClientsInv == ClientsShape /\ SlotsVerify /\ Clients!OwnClient

LEMMA ClientsInit == Clients!Init => ClientsInv
<1> SUFFICES ASSUME Clients!Init PROVE ClientsInv
  OBVIOUS
<1>1. Clients!Idle \in Caller /\ Clients!Idle.pc # "call"
  BY DEF Caller, Clients!Idle
<1>2. ClientsShape /\ SlotsVerify
  <2>1. tls \in [Clusters -> BOOLEAN]
    BY DEF Clients!Init
  <2>2. /\ authority \in [Clusters -> Int] /\ token \in [Clusters -> Int]
        /\ secret \in [Clusters -> Int]
    <3>1. authority = [c \in Clusters |-> 1] /\ token = [c \in Clusters |-> 1] /\ secret = token
      BY Zenon DEF Clients!Init
    <3> QED BY <3>1
  <2>3. proc \in [Resources -> Caller]
    BY <1>1 DEF Clients!Init
  <2>4. /\ slots \in [Clients!Names -> Client \cup {Clients!NoClient}]
        /\ \A n \in Clients!Names : slots[n] = Clients!NoClient
    BY DEF Clients!Init
  <2> QED BY <2>1, <2>2, <2>3, <2>4 DEF ClientsShape, SlotsVerify
<1> QED BY <1>1, <1>2 DEF Clients!Init, ClientsInv, Clients!OwnClient

(* A reconcile that is not yet to call, or has called. *)
LEMMA ElsewhereOwn ==
  ASSUME ClientsInv, NEW r \in Resources, NEW p \in Caller, Clients!Step(r, p), p.pc # "call",
         UNCHANGED <<slots, tls, authority, token, secret>>
  PROVE  ClientsInv'
<1>1. proc' \in [Resources -> Caller] /\ \A q \in Resources : proc'[q] = IF q = r THEN p ELSE proc[q]
  BY DEF ClientsInv, ClientsShape, Clients!Step
<1>2. Clients!OwnClient'
  BY <1>1 DEF ClientsInv, Clients!OwnClient, Clients!Slashed
<1> QED BY <1>1, <1>2 DEF ClientsInv, ClientsShape, SlotsVerify

(* Nothing that a client depends on changes. *)
LEMMA RestOwn ==
  ASSUME ClientsInv, UNCHANGED <<slots, proc>>, 
         tls' \in [Clusters -> BOOLEAN] /\ authority' \in [Clusters -> Int],
         token' \in [Clusters -> Int] /\ secret' \in [Clusters -> Int]
  PROVE  ClientsInv'
<1>1. Clients!OwnClient'
  BY DEF ClientsInv, Clients!OwnClient, Clients!Slashed
<1> QED BY <1>1 DEF ClientsInv, ClientsShape, SlotsVerify

LEMMA ConfigOwn ==
  ASSUME ClientsInv, NEW r \in Resources, proc[r].pc \in {"url", "token", "ca"},
         NEW pc \in {"token", "ca", "client"}, NEW c \in Config, Clients!With(r, pc, c),
         UNCHANGED <<slots, tls, authority, token, secret>>
  PROVE  ClientsInv'
<1> DEFINE p == [proc[r] EXCEPT !.pc = pc, !.config = c]
<1>1. proc[r] \in [pc : {"url", "token", "ca", "client", "call"}, tls : BOOLEAN, config : Config,
        client : Client \cup {Clients!NoClient}]
  BY DEF ClientsInv, ClientsShape, Caller, Clients!Idle
<1>2. p \in Caller /\ p.pc = pc
  <2> HIDE DEF Config, Client, Clients!NoClient
  <2> QED BY <1>1 DEF Caller
<1> QED BY <1>2, ElsewhereOwn DEF Clients!With

LEMMA GetOwn ==
  ASSUME ClientsInv, NEW r \in Resources, Clients!GetHumioHttpClient(r)
  PROVE  ClientsInv'
<1> DEFINE n == NameOf[r]
           config == proc[r].config
           fresh == [id |-> IF slots[n] = Clients!NoClient THEN 0 ELSE 1 - slots[n].transport.id,
                     ca |-> config.ca, insecure |-> config.insecure]
           kept == slots[n] # Clients!NoClient /\ Clients!Same(slots[n].config, config)
           client == [config |-> Clients!Slashed(config), transport |-> IF kept THEN slots[n].transport ELSE fresh]
           p == [proc[r] EXCEPT !.pc = "call", !.client = client]
<1>1. proc[r] \in [pc : {"url", "token", "ca", "client", "call"}, tls : BOOLEAN, config : Config,
        client : Client \cup {Clients!NoClient}]
  BY DEF ClientsInv, ClientsShape, Caller, Clients!Idle, Clients!GetHumioHttpClient
<1>2. n \in Clients!Names
  BY DEF Clients!Names
<1>3. slots' = [slots EXCEPT ![n] = client] /\ proc' = [proc EXCEPT ![r] = p]
      /\ UNCHANGED <<tls, authority, token, secret>>
  BY DEF Clients!GetHumioHttpClient, Clients!Step, Clients!Outside
<1>4. config \in Config
  BY <1>1
<1>5. slots[n] \in Client \cup {Clients!NoClient}
  BY <1>2 DEF ClientsInv, ClientsShape
<1>6. client \in Client /\ Verifies(client) /\ client.config = Clients!Slashed(config)
  <2>1. Clients!Slashed(config) \in Config /\ Clients!Slashed(config).ca = config.ca
        /\ Clients!Slashed(config).insecure = config.insecure
    BY <1>4 DEF Config, Clients!Slashed
  <2>2. CASE kept
    <3>1. slots[n] \in Client /\ slots[n].config = config /\ Verifies(slots[n])
      BY <1>2, <1>5, <2>2 DEF ClientsInv, SlotsVerify, Clients!Same
    <3> QED BY <2>1, <2>2, <3>1 DEF Client, Verifies
  <2>3. CASE ~kept
    <3>1. fresh \in [id : Int, ca : Int, insecure : BOOLEAN]
      <4>1. CASE slots[n] = Clients!NoClient
        BY <1>4, <4>1 DEF Config
      <4>2. CASE slots[n] \in Client
        BY <1>4, <4>2 DEF Config, Client
      <4> QED BY <1>5, <4>1, <4>2
    <3> QED BY <2>1, <2>3, <3>1 DEF Client, Verifies
  <2> QED BY <2>2, <2>3
<1>7. p \in Caller /\ p.pc = "call" /\ p.client = client /\ p.config = config
  <2> HIDE DEF client
  <2> QED BY <1>1, <1>6 DEF Caller
<1> HIDE DEF p, client, n
<1>8. ClientsShape'
  BY <1>2, <1>3, <1>6, <1>7 DEF ClientsInv, ClientsShape
<1>9. SlotsVerify'
  BY <1>2, <1>3, <1>6 DEF ClientsInv, ClientsShape, SlotsVerify
<1>10. Clients!OwnClient'
  <2> SUFFICES ASSUME NEW q \in Resources, proc'[q].pc = "call"
               PROVE  proc'[q].client.config = Clients!Slashed(proc'[q].config) /\ Verifies(proc'[q].client)
    BY DEF Clients!OwnClient, Verifies, Clients!Slashed
  <2>1. CASE q = r
    BY <1>3, <1>6, <1>7, <2>1 DEF ClientsInv, ClientsShape
  <2>2. CASE q # r
    BY <1>3, <2>2 DEF ClientsInv, ClientsShape, Clients!OwnClient, Verifies
  <2> QED BY <2>1, <2>2
<1> QED BY <1>8, <1>9, <1>10 DEF ClientsInv

LEMMA ClientsStep ==
  ASSUME Clients!ClustersAssumption, ClientsInv, [Clients!Next]_(Clients!vars)
  PROVE  ClientsInv'
<1> USE DEF Clients!Outside
<1>0. Clients!Idle \in Caller /\ Clients!Idle.pc # "call"
  BY DEF Caller, Clients!Idle
<1>1. ASSUME NEW r \in Resources, Clients!StartReconcile(r) PROVE ClientsInv'
  <2> DEFINE c == ClusterOf[r]
             p == [pc |-> IF c = Ext THEN "token" ELSE "url", tls |-> tls[c], client |-> Clients!NoClient,
                   config |-> [cluster |-> c, https |-> tls[c], slash |-> IF c = Ext THEN Slash ELSE TRUE,
                               token |-> 0, ca |-> 0, insecure |-> FALSE]]
  <2>1. c \in Clusters /\ tls[c] \in BOOLEAN /\ Slash \in BOOLEAN
    BY DEF Clients!ClustersAssumption, ClientsInv, ClientsShape
  <2>2. p \in Caller /\ p.pc # "call"
    <3>1. p.config \in Config
      <4>1. (IF c = Ext THEN Slash ELSE TRUE) \in BOOLEAN
        BY <2>1
      <4> HIDE DEF c
      <4>2. ASSUME NEW https \in BOOLEAN, NEW slash \in BOOLEAN, NEW insecure \in BOOLEAN
            PROVE  [cluster |-> c, https |-> https, slash |-> slash, token |-> 0, ca |-> 0,
                    insecure |-> insecure] \in Config
        BY <2>1 DEF Config
      <4> QED BY <2>1, <4>1, <4>2
    <3> HIDE DEF Config, Client
    <3> QED BY <2>1, <3>1 DEF Caller
  <2>3. Clients!Step(r, p) /\ UNCHANGED <<slots, tls, authority, token, secret>>
    BY <1>1 DEF Clients!StartReconcile
  <2> QED BY <2>2, <2>3, ElsewhereOwn
<1>2. ASSUME NEW r \in Resources, Clients!ReadUrl(r) \/ Clients!ReadToken(r) \/ Clients!ReadCA(r)
      PROVE ClientsInv'
  <2>1. proc[r].pc \in {"url", "token", "ca"}
    BY <1>2 DEF Clients!ReadUrl, Clients!ReadToken, Clients!ReadCA
  <2>2. ClusterOf[r] \in Clusters
    BY DEF Clients!ClustersAssumption
  <2>3. proc[r].config \in Config /\ proc[r].tls \in BOOLEAN
    BY <2>1 DEF ClientsInv, ClientsShape, Caller, Clients!Idle
  <2>4. CASE Clients!ReadUrl(r)
    <3>1. [proc[r].config EXCEPT !.https = tls[ClusterOf[r]]] \in Config
      BY <2>2, <2>3 DEF Config, ClientsInv, ClientsShape
    <3> QED BY <2>1, <2>4, <3>1, ConfigOwn DEF Clients!ReadUrl
  <2>5. CASE Clients!ReadToken(r)
    <3>1. [proc[r].config EXCEPT !.token = secret[ClusterOf[r]]] \in Config
      BY <2>2, <2>3 DEF Config, ClientsInv, ClientsShape
    <3> QED BY <1>0, <2>1, <2>5, <3>1, ConfigOwn, ElsewhereOwn DEF Clients!ReadToken
  <2>6. CASE Clients!ReadCA(r)
    <3>1. [proc[r].config EXCEPT !.ca = IF proc[r].tls THEN authority[ClusterOf[r]] ELSE 0,
                                 !.insecure = ~proc[r].tls] \in Config
      <4>1. (IF proc[r].tls THEN authority[ClusterOf[r]] ELSE 0) \in Int
        BY <2>2 DEF ClientsInv, ClientsShape
      <4>2. (~proc[r].tls) \in BOOLEAN
        OBVIOUS
      <4> QED BY <2>3, <4>1, <4>2 DEF Config
    <3> QED BY <2>1, <2>6, <3>1, ConfigOwn DEF Clients!ReadCA
  <2> QED BY <1>2, <2>4, <2>5, <2>6
<1>3. ASSUME NEW r \in Resources, Clients!Call(r) \/ Clients!Fault(r) PROVE ClientsInv'
  <2>1. [pc |-> "show", shown |-> IF Clients!Answered(proc[r].client) THEN "Ready" ELSE "Unknown"] \in Caller
    BY DEF Caller
  <2> QED BY <1>0, <1>3, <2>1, ElsewhereOwn DEF Clients!Call, Clients!Fault
<1>4. ASSUME Clients!ShowState PROVE ClientsInv'
  BY <1>0, <1>4, ElsewhereOwn DEF Clients!ShowState, Clients!ClustersAssumption
<1>5. ASSUME Clients!Restart PROVE ClientsInv'
  BY <1>0, <1>5 DEF Clients!Restart, ClientsInv, ClientsShape, SlotsVerify, Clients!OwnClient
<1>6. ASSUME NEW c \in Clusters,
             Clients!ToggleTLS(c) \/ Clients!RenewAuthority(c) \/ Clients!RenewToken(c)
      PROVE ClientsInv'
  <2> USE DEF ClientsInv, ClientsShape, Clients!Edit
  <2>1. CASE Clients!ToggleTLS(c)
    <3>1. tls' \in [Clusters -> BOOLEAN]
      BY <2>1, Zenon DEF Clients!ToggleTLS
    <3> QED BY <2>1, <3>1, RestOwn DEF Clients!ToggleTLS
  <2>2. CASE Clients!RenewAuthority(c)
    BY <2>2, RestOwn DEF Clients!RenewAuthority
  <2>3. CASE Clients!RenewToken(c)
    <3>1. token' \in [Clusters -> Int]
      BY <2>3 DEF Clients!RenewToken
    <3>2. token'[c] \in Int /\ secret \in [Clusters -> Int]
      BY <3>1
    <3>3. secret' \in [Clusters -> Int]
      BY <2>3, <3>2 DEF Clients!RenewToken
    <3> QED BY <2>3, <3>1, <3>3, RestOwn DEF Clients!RenewToken
  <2> QED BY <1>6, <2>1, <2>2, <2>3
<1>7. ASSUME Clients!WriteSecret \/ Clients!DeleteSecret PROVE ClientsInv'
  BY <1>7, RestOwn DEF Clients!WriteSecret, Clients!DeleteSecret, Clients!Edit, ClientsInv, ClientsShape,
     Clients!ClustersAssumption
<1>8. ASSUME UNCHANGED Clients!vars PROVE ClientsInv'
  BY <1>8, RestOwn DEF Clients!vars, ClientsInv, ClientsShape
<1> QED
  BY <1>1, <1>2, <1>3, <1>4, <1>5, <1>6, <1>7, <1>8, GetOwn DEF Clients!Next, Clients!Work, Clients!Others

(* Every call goes out with the client of its own reconcile: with the address and the token that were
   read for it, over a transport that verifies what these say, for all resources, clusters and names, also
   where resources of one name share an entry of the table (src/internal/humio/client.go:336 to 381). *)
THEOREM EveryCallHasItsClient ==
  ASSUME Clients!ClustersAssumption
  PROVE  Clients!Init /\ [][Clients!Next]_(Clients!vars) => []Clients!OwnClient
<1>1. ClientsInv => Clients!OwnClient
  BY DEF ClientsInv
<1> QED BY <1>1, ClientsInit, ClientsStep, PTL

(***************************************************************************)
(* Persistent volume claims (VolumeClaims).                                *)
(***************************************************************************)
OpFields ==
  op = [pc |-> op.pc, missing |-> op.missing, listed |-> op.listed, inUse |-> op.inUse, made |-> op.made]

VolumesShape ==
  /\ claim \in [Volumes!Claims -> [state : Volumes!ClaimStates, node : Nodes \cup {Volumes!NoNode}]]
  /\ pod \in [VolumePods -> Volumes!Pod \cup {Volumes!NoPod}]
  /\ podStatus \in [VolumePods -> [claim : Volumes!Claims, node : Nodes \cup {Volumes!NoNode}]
                             \cup {Volumes!Forgotten}]
  /\ unseen \subseteq VolumePods
  /\ OpFields

(* A pod is none that is not there. *)
LEMMA PodIsThere ==
  ASSUME NEW x \in Volumes!Pod PROVE x # Volumes!NoPod
<1>1. x.claim \in Volumes!Claims /\ 0 \notin Volumes!Claims
  BY DEF Volumes!Pod, Volumes!Claims
<1> QED BY <1>1 DEF Volumes!NoPod

LEMMA GotoShape ==
  ASSUME NEW pc, Volumes!Goto(pc)
  PROVE  OpFields' /\ op'.pc = pc
BY DEF Volumes!Goto, Volumes!Idle, OpFields

LEMMA IdleShape ==
  ASSUME op' = Volumes!Idle
  PROVE  OpFields' /\ op'.pc = "idle"
BY DEF Volumes!Idle, OpFields

\* The record of a new pod.
NewPod(c) == [claim |-> c, node |-> Volumes!NoNode, phase |-> "pending", unschedulable |-> FALSE]

\* A pod named p is made with the claim c.
Creates(p, c) ==
  /\ ~TLS => podStatus[p] = Volumes!Forgotten
  /\ pod' = [pod EXCEPT ![p] = NewPod(c)]
  /\ unseen' = IF CacheLag THEN unseen \cup {p} ELSE unseen
  /\ op' = [op EXCEPT !.pc = IF op.missing = 1 THEN "wait" ELSE "create",
                      !.missing = @ - 1, !.inUse = @ \cup {c}, !.made = @ \cup {p}]
  /\ UNCHANGED <<claim, podStatus>>

(* What CreatePod does to pods and to the reconcile. *)
LEMMA CreatedPod ==
  ASSUME VolumesShape, Volumes!CreatePod
  PROVE  \/ Volumes!Goto("status") /\ UNCHANGED <<pod, unseen, claim, podStatus>>
         \/ \E c \in Volumes!Claims, p \in VolumePods : c \notin op.inUse /\ Creates(p, c)
<1>1. Volumes!NextClaims \subseteq Volumes!Claims \ op.inUse
  BY DEF Volumes!NextClaims, Volumes!Schedulable
<1>2. Volumes!FreeNames \subseteq VolumePods /\ (~TLS => \A p \in Volumes!FreeNames : podStatus[p] = Volumes!Forgotten)
  BY DEF Volumes!FreeNames
<1> QED BY <1>1, <1>2, Zenon DEF Volumes!CreatePod, Creates, NewPod

LEMMA NewPodIsPod ==
  ASSUME NEW c \in Volumes!Claims
  PROVE  NewPod(c) \in Volumes!Pod /\ NewPod(c).claim = c /\ NewPod(c).node = Volumes!NoNode
<1>1. FALSE \in BOOLEAN
  OBVIOUS
<1> HIDE DEF Volumes!Claims
<1> QED BY <1>1 DEF NewPod, Volumes!Pod

(* What Kubernetes and others do to one pod: it stays with its claim, or goes. *)
LEMMA PodElsewhere ==
  ASSUME VolumesShape,
         NEW p \in VolumePods,
         \/ Volumes!Schedule(p) \/ Volumes!Unschedulable(p) \/ Volumes!Start(p) \/ Volumes!LosePod(p)
         \/ Volumes!CollectPod(p) \/ Volumes!DeletePod(p)
  PROVE  /\ pod' \in [VolumePods -> Volumes!Pod \cup {Volumes!NoPod}]
         /\ \A q \in Volumes!Pods' : /\ q \in Volumes!Pods /\ pod'[q].claim = pod[q].claim
                                   /\ (Volumes!Schedule(p) \/ pod'[q].node = pod[q].node)
         /\ unseen' \subseteq unseen /\ UNCHANGED <<podStatus, op>>
<1> USE DEF Volumes!Quiet, Volumes!Hurt
<1>1. CASE Volumes!CollectPod(p) \/ Volumes!DeletePod(p)
  BY <1>1 DEF VolumesShape, Volumes!CollectPod, Volumes!DeletePod, Volumes!Pods
<1>2. CASE \/ Volumes!Schedule(p) \/ Volumes!Unschedulable(p) \/ Volumes!Start(p) \/ Volumes!LosePod(p)
  <2>1. p \in Volumes!Pods /\ pod[p] \in Volumes!Pod
    BY <1>2 DEF VolumesShape, Volumes!Pods, Volumes!Schedule, Volumes!Unschedulable, Volumes!Unscheduled,
         Volumes!Start, Volumes!LosePod, Volumes!OnLostNode
  <2>2. \E x \in Volumes!Pod : pod' = [pod EXCEPT ![p] = x] /\ x.claim = pod[p].claim
                            /\ (Volumes!Schedule(p) \/ x.node = pod[p].node)
    <3>1. CASE Volumes!Schedule(p)
      <4>1. PICK n \in Nodes : pod' = [pod EXCEPT ![p].node = n, ![p].unschedulable = FALSE]
        BY <3>1 DEF Volumes!Schedule
      <4>2. [pod[p] EXCEPT !.node = n, !.unschedulable = FALSE] \in Volumes!Pod
        BY <2>1 DEF Volumes!Pod
      <4>3. pod' = [pod EXCEPT ![p] = [pod[p] EXCEPT !.node = n, !.unschedulable = FALSE]]
        BY <4>1 DEF VolumesShape
      <4> QED BY <2>1, <3>1, <4>2, <4>3 DEF Volumes!Pod
    <3>2. CASE Volumes!Unschedulable(p)
      <4>1. [pod[p] EXCEPT !.unschedulable = TRUE] \in Volumes!Pod
        BY <2>1 DEF Volumes!Pod
      <4>2. pod' = [pod EXCEPT ![p] = [pod[p] EXCEPT !.unschedulable = TRUE]]
        BY <3>2 DEF Volumes!Unschedulable
      <4> QED BY <2>1, <4>1, <4>2 DEF Volumes!Pod
    <3>3. CASE Volumes!Start(p) \/ Volumes!LosePod(p)
      <4>1. PICK phase \in {"running", "lost"} : pod' = [pod EXCEPT ![p].phase = phase]
        BY <3>3 DEF Volumes!Start, Volumes!LosePod
      <4>2. [pod[p] EXCEPT !.phase = phase] \in Volumes!Pod
        BY <2>1 DEF Volumes!Pod
      <4>3. pod' = [pod EXCEPT ![p] = [pod[p] EXCEPT !.phase = phase]]
        BY <4>1
      <4> QED BY <2>1, <4>2, <4>3 DEF Volumes!Pod
    <3> QED BY <1>2, <3>1, <3>2, <3>3
  <2>3. unseen' = unseen /\ UNCHANGED <<podStatus, op>>
    BY <1>2 DEF Volumes!Schedule, Volumes!Unschedulable, Volumes!Start, Volumes!LosePod
  <2> QED BY <2>1, <2>2, <2>3 DEF VolumesShape, Volumes!Pods
<1> QED BY <1>1, <1>2

(***************************************************************************)
(* A claim is not shared                                                   *)
(***************************************************************************)
ClaimsInUse == op.pc = "create" => \A p \in Volumes!Pods : pod[p].claim \in op.inUse

SharingInv == VolumesShape /\ unseen = {} /\ Volumes!NoSharedClaim /\ ClaimsInUse

LEMMA SharingKept ==
  ASSUME SharingInv, VolumesShape', unseen' = {}, op'.pc # "create" \/ op' = op,
         \A q \in Volumes!Pods' : q \in Volumes!Pods /\ pod'[q].claim = pod[q].claim
  PROVE  SharingInv'
BY DEF SharingInv, Volumes!NoSharedClaim, ClaimsInUse

LEMMA CreationShape ==
  ASSUME VolumesShape, NEW c \in Volumes!Claims, NEW p \in VolumePods, Creates(p, c)
  PROVE  /\ VolumesShape' /\ UNCHANGED <<claim, podStatus>>
         /\ pod'[p].claim = c /\ pod'[p].node = Volumes!NoNode /\ op'.inUse = op.inUse \cup {c}
         /\ \A q \in Volumes!Pods' : q = p \/ (q \in Volumes!Pods /\ pod'[q] = pod[q])
<1> USE DEF Creates
<1>1. NewPod(c) \in Volumes!Pod /\ NewPod(c).claim = c /\ NewPod(c).node = Volumes!NoNode
  BY NewPodIsPod
<1>2. OpFields' /\ op'.inUse = op.inUse \cup {c}
  BY DEF VolumesShape, OpFields
<1>3. unseen' \subseteq VolumePods
  BY DEF VolumesShape
<1>4. pod' \in [VolumePods -> Volumes!Pod \cup {Volumes!NoPod}] /\ pod'[p] = NewPod(c)
      /\ \A q \in VolumePods : q = p \/ pod'[q] = pod[q]
  BY <1>1 DEF VolumesShape
<1> QED BY <1>1, <1>2, <1>3, <1>4 DEF VolumesShape, Volumes!Pods

(* The steps that make no pod, of the reconcile and of others. *)
LEMMA OtherSteps ==
  ASSUME VolumesShape, Volumes!Next \/ UNCHANGED Volumes!vars, ~Volumes!CreatePod
  PROVE  /\ VolumesShape'
         /\ unseen' \subseteq unseen
         /\ \A q \in Volumes!Pods' : q \in Volumes!Pods /\ pod'[q].claim = pod[q].claim
         /\ Volumes!EnsurePodsExist \/ op'.pc # "create" \/ op' = op
<1> USE DEF Volumes!Alone, Volumes!Quiet, Volumes!Hurt
<1>1. ASSUME Volumes!EnsureMismatchedPodsAreDeleted PROVE VolumesShape' /\ unseen' = unseen /\ op'.pc # "create"
        /\ \A q \in Volumes!Pods' : q \in Volumes!Pods /\ pod'[q] = pod[q]
  <2>1. OpFields' /\ op'.pc # "create"
    BY <1>1, GotoShape DEF Volumes!EnsureMismatchedPodsAreDeleted
  <2>2. Volumes!OrphanedPods \subseteq VolumePods
    BY DEF Volumes!OrphanedPods, Volumes!Listed, Volumes!Pods
  <2>3. pod' \in [VolumePods -> Volumes!Pod \cup {Volumes!NoPod}]
        /\ \A q \in VolumePods : pod'[q] = pod[q] \/ pod'[q] = Volumes!NoPod
    BY <1>1, <2>2 DEF Volumes!EnsureMismatchedPodsAreDeleted, VolumesShape
  <2> QED BY <1>1, <2>1, <2>3 DEF Volumes!EnsureMismatchedPodsAreDeleted, VolumesShape, Volumes!Pods
<1>2. ASSUME \/ Volumes!EnsureClaimsExist \/ Volumes!EnsureOrphanedPvcsAreDeleted
             \/ \E c \in Volumes!Claims : Volumes!RemoveClaim(c)
      PROVE  VolumesShape' /\ UNCHANGED <<unseen, pod>> /\ (op'.pc # "create" \/ op' = op)
  <2>1. OpFields' /\ (op'.pc # "create" \/ op' = op)
    BY <1>2, GotoShape DEF Volumes!EnsureClaimsExist, Volumes!EnsureOrphanedPvcsAreDeleted, Volumes!RemoveClaim,
         VolumesShape, OpFields
  <2>2. claim' \in [Volumes!Claims -> [state : Volumes!ClaimStates, node : Nodes \cup {Volumes!NoNode}]]
    <3>1. \/ UNCHANGED claim
          \/ \E c \in Volumes!Claims, s \in Volumes!ClaimStates : claim' = [claim EXCEPT ![c].state = s]
      BY <1>2 DEF Volumes!EnsureClaimsExist, Volumes!EnsureOrphanedPvcsAreDeleted, Volumes!RemoveClaim, Volumes!ClaimStates
    <3> QED BY <3>1 DEF VolumesShape
  <2> QED BY <1>2, <2>1, <2>2 DEF Volumes!EnsureClaimsExist, Volumes!EnsureOrphanedPvcsAreDeleted, Volumes!RemoveClaim, VolumesShape
<1>3. ASSUME Volumes!EnsurePodsExist PROVE VolumesShape' /\ UNCHANGED <<unseen, pod>>
  <2>1. OpFields'
    <3>1. CASE Volumes!Goto("ready")
      BY <3>1, GotoShape
    <3>2. CASE ~Volumes!Goto("ready")
      BY <1>3, <3>2 DEF Volumes!EnsurePodsExist, Volumes!Idle, OpFields
    <3> QED BY <3>1, <3>2
  <2> QED BY <1>3, <2>1 DEF Volumes!EnsurePodsExist, VolumesShape
<1>4. ASSUME Volumes!WaitForNewPods \/ Volumes!NodePoolPodsReady
      PROVE  VolumesShape' /\ UNCHANGED <<unseen, pod>> /\ op'.pc # "create"
  <2>1. OpFields' /\ op'.pc # "create"
    BY <1>4, GotoShape DEF Volumes!WaitForNewPods, Volumes!NodePoolPodsReady
  <2> QED BY <1>4, <2>1 DEF Volumes!WaitForNewPods, Volumes!NodePoolPodsReady, VolumesShape
<1>5. ASSUME Volumes!GetPodStatusList
      PROVE  VolumesShape' /\ UNCHANGED <<unseen, pod>> /\ op'.pc # "create"
  <2>1. OpFields' /\ op'.pc # "create"
    BY <1>5, IdleShape DEF Volumes!GetPodStatusList
  <2>2. ASSUME NEW p \in Volumes!Listed
        PROVE  [claim |-> pod[p].claim, node |-> Volumes!Remembered(p)]
                 \in [claim : Volumes!Claims, node : Nodes \cup {Volumes!NoNode}]
    <3>1. p \in VolumePods /\ pod[p] \in Volumes!Pod
      BY DEF VolumesShape, Volumes!Listed, Volumes!Pods
    <3>2. pod[p].claim \in Volumes!Claims /\ pod[p].node \in Nodes \cup {Volumes!NoNode}
      BY <3>1 DEF Volumes!Pod
    <3>3. podStatus[p] # Volumes!Forgotten => podStatus[p].node \in Nodes \cup {Volumes!NoNode}
      BY <3>1 DEF VolumesShape
    <3> QED BY <3>2, <3>3 DEF Volumes!Remembered
  <2>3. podStatus' \in [VolumePods -> [claim : Volumes!Claims, node : Nodes \cup {Volumes!NoNode}]
                                \cup {Volumes!Forgotten}]
    BY <1>5, <2>2, Zenon DEF Volumes!GetPodStatusList
  <2> QED BY <1>5, <2>1, <2>3 DEF Volumes!GetPodStatusList, VolumesShape
<1>6. ASSUME NEW p \in VolumePods, \/ Volumes!Schedule(p) \/ Volumes!Unschedulable(p) \/ Volumes!Start(p)
                              \/ Volumes!LosePod(p) \/ Volumes!CollectPod(p) \/ Volumes!DeletePod(p)
      PROVE  VolumesShape' /\ UNCHANGED op
  <2>1. claim' \in [Volumes!Claims -> [state : Volumes!ClaimStates, node : Nodes \cup {Volumes!NoNode}]]
    <3>1. CASE Volumes!Schedule(p)
      <4>1. PICK n \in Nodes : claim' = [claim EXCEPT ![pod[p].claim] = [state |-> "bound", node |-> n]]
        BY <3>1 DEF Volumes!Schedule
      <4>2. [state |-> "bound", node |-> n] \in [state : Volumes!ClaimStates, node : Nodes \cup {Volumes!NoNode}]
        BY DEF Volumes!ClaimStates
      <4> QED BY <4>1, <4>2 DEF VolumesShape
    <3>2. CASE ~Volumes!Schedule(p)
      BY <1>6, <3>2 DEF VolumesShape, Volumes!Unschedulable, Volumes!Start, Volumes!LosePod, Volumes!CollectPod,
           Volumes!DeletePod
    <3> QED BY <3>1, <3>2
  <2> QED BY <1>6, <2>1, PodElsewhere DEF VolumesShape, OpFields
<1>7. ASSUME \/ \E p \in VolumePods : Volumes!ShowPod(p)
             \/ \E n \in Nodes : Volumes!DeleteNode(n) \/ Volumes!Cordon(n)
             \/ UNCHANGED Volumes!vars
      PROVE  VolumesShape' /\ unseen' \subseteq unseen /\ UNCHANGED <<pod, op>>
  BY <1>7 DEF Volumes!ShowPod, Volumes!DeleteNode, Volumes!Cordon, Volumes!vars, VolumesShape, OpFields
<1>8. ASSUME Volumes!Fail \/ Volumes!Restart
      PROVE  VolumesShape' /\ unseen' \subseteq unseen /\ UNCHANGED pod /\ op'.pc # "create"
  <2>1. OpFields' /\ op'.pc # "create"
    BY <1>8, GotoShape, IdleShape DEF Volumes!Fail, Volumes!Restart
  <2> QED BY <1>8, <2>1 DEF Volumes!Fail, Volumes!Restart, Volumes!Fault, VolumesShape
<1>9. ASSUME UNCHANGED pod PROVE \A q \in Volumes!Pods' : q \in Volumes!Pods /\ pod'[q].claim = pod[q].claim
  BY <1>9 DEF Volumes!Pods
<1>10. CASE Volumes!Reconcile
  BY <1>1, <1>2, <1>3, <1>4, <1>5, <1>9, <1>10 DEF Volumes!Reconcile
<1>11. CASE Volumes!Kubernetes
  BY <1>2, <1>6, <1>7, <1>9, <1>11, PodElsewhere DEF Volumes!Kubernetes
<1>12. CASE Volumes!Others \/ UNCHANGED Volumes!vars
  BY <1>6, <1>7, <1>8, <1>9, <1>12, PodElsewhere DEF Volumes!Others
<1> QED BY <1>10, <1>11, <1>12 DEF Volumes!Next

LEMMA SharingInit == Volumes!Init => SharingInv
<1> SUFFICES ASSUME Volumes!Init PROVE SharingInv
  OBVIOUS
<1>1. VolumesShape
  BY DEF Volumes!Init, VolumesShape, OpFields, Volumes!Idle, Volumes!ClaimStates
<1> QED BY <1>1 DEF Volumes!Init, SharingInv, Volumes!NoSharedClaim, ClaimsInUse, Volumes!Pods

LEMMA SharingStep ==
  ASSUME CacheLag = FALSE, SharingInv, [Volumes!Next]_(Volumes!vars)
  PROVE  SharingInv'
<1>0. VolumesShape /\ unseen = {}
  BY DEF SharingInv
<1>1. CASE Volumes!CreatePod
  <2>1. CASE Volumes!Goto("status") /\ UNCHANGED <<pod, unseen, claim, podStatus>>
    <3>1. VolumesShape' /\ op'.pc # "create"
      BY <1>0, <2>1, GotoShape DEF VolumesShape
    <3> QED BY <1>0, <2>1, <3>1, SharingKept DEF Volumes!Pods
  <2>2. ASSUME NEW c \in Volumes!Claims, NEW p \in VolumePods, c \notin op.inUse, Creates(p, c)
        PROVE  SharingInv'
    <3>1. VolumesShape' /\ pod'[p].claim = c /\ op'.inUse = op.inUse \cup {c}
          /\ \A q \in Volumes!Pods' : q = p \/ (q \in Volumes!Pods /\ pod'[q] = pod[q])
      BY <1>0, <2>2, CreationShape
    <3>2. op.pc = "create"
      <4>1. Volumes!At("create")
        BY <1>1 DEF Volumes!CreatePod
      <4> QED BY <4>1 DEF Volumes!At
    <3>3. unseen' = {}
      BY <1>0, <2>2 DEF Creates
    <3> QED BY <1>0, <2>2, <3>1, <3>2, <3>3 DEF SharingInv, Volumes!NoSharedClaim, ClaimsInUse
  <2> QED BY <1>0, <1>1, <2>1, <2>2, CreatedPod
<1>2. CASE Volumes!EnsurePodsExist
  <2>1. VolumesShape' /\ UNCHANGED <<unseen, pod>>
    <3>1. ~Volumes!CreatePod
      <4>1. op.pc = "pods"
        BY <1>2 DEF Volumes!EnsurePodsExist, Volumes!At
      <4>2. Volumes!CreatePod => op.pc = "create"
        <5>1. Volumes!CreatePod => Volumes!At("create")
          BY Zenon DEF Volumes!CreatePod
        <5> QED BY <5>1 DEF Volumes!At
      <4> QED BY <4>1, <4>2
    <3>2. VolumesShape'
      BY <1>0, <1>2, <3>1, OtherSteps DEF Volumes!Next, Volumes!Reconcile
    <3> QED BY <1>2, <3>2 DEF Volumes!EnsurePodsExist
  <2>2. ClaimsInUse'
    <3>1. CASE Volumes!Goto("ready")
      BY <3>1, GotoShape DEF ClaimsInUse
    <3>2. CASE ~Volumes!Goto("ready")
      <4>1. op'.inUse = {pod[p].claim : p \in Volumes!Listed}
        BY <1>2, <3>2 DEF Volumes!EnsurePodsExist, Volumes!Idle
      <4>2. Volumes!Pods' = Volumes!Listed
        BY <1>0, <2>1 DEF Volumes!Listed, Volumes!Pods
      <4> QED BY <2>1, <4>1, <4>2 DEF ClaimsInUse
    <3> QED BY <3>1, <3>2
  <2>3. Volumes!NoSharedClaim'
    BY <2>1 DEF SharingInv, Volumes!NoSharedClaim, Volumes!Pods
  <2> QED BY <1>0, <2>1, <2>2, <2>3 DEF SharingInv
<1>3. CASE ~Volumes!CreatePod /\ ~Volumes!EnsurePodsExist
  BY <1>0, <1>3, OtherSteps, SharingKept
<1> QED BY <1>1, <1>2, <1>3

(* Two pods never write to one volume, for every number of nodes, claims and names, whichever
   volumes and policy there are, as long as a pod that was made is in the next list
   (humiocluster_persistent_volumes.go:63 to 96, humiocluster_pods.go:901 to 914). *)
THEOREM EveryPodHasItsClaim ==
  ASSUME CacheLag = FALSE
  PROVE  Volumes!Init /\ [][Volumes!Next]_(Volumes!vars) => []Volumes!NoSharedClaim
<1>1. SharingInv => Volumes!NoSharedClaim
  BY DEF SharingInv
<1> QED BY <1>1, SharingInit, SharingStep, PTL

(***************************************************************************)
(* Data goes with its node only                                            *)
(***************************************************************************)
ClaimsUnbound == \A c \in Volumes!Claims : claim[c].state \in {"new", "pending"} => claim[c].node = Volumes!NoNode

PodsOnNode ==
  \A p \in Volumes!Pods : pod[p].node # Volumes!NoNode => claim[pod[p].claim].node = pod[p].node

StatusOnNode ==
  \A p \in VolumePods : podStatus[p] # Volumes!Forgotten /\ podStatus[p].node # Volumes!NoNode
                    => claim[podStatus[p].claim].node = podStatus[p].node

StatusOfPod ==
  \A p \in Volumes!Pods : podStatus[p] # Volumes!Forgotten => podStatus[p].claim = pod[p].claim

LivingInv == VolumesShape /\ ClaimsUnbound /\ PodsOnNode /\ StatusOnNode /\ StatusOfPod

(* What there is to know of an entry of the status, and of a pod. *)
LEMMA EntryShape ==
  ASSUME VolumesShape
  PROVE  /\ \A p \in Volumes!Pods : p \in VolumePods /\ pod[p] \in Volumes!Pod /\ pod[p].claim \in Volumes!Claims
         /\ \A p \in VolumePods : podStatus[p] # Volumes!Forgotten => podStatus[p].claim \in Volumes!Claims
BY DEF VolumesShape, Volumes!Pods, Volumes!Pod

LEMMA LivingKept ==
  ASSUME LivingInv, VolumesShape', UNCHANGED podStatus,
         \A c \in Volumes!Claims : /\ claim'[c].node = claim[c].node
                                   /\ claim'[c].state \in {"new", "pending"} => claim[c].state \in {"new", "pending"},
         \A q \in Volumes!Pods' : q \in Volumes!Pods /\ pod'[q].claim = pod[q].claim /\ pod'[q].node = pod[q].node
  PROVE  LivingInv'
<1>1. VolumesShape
  BY DEF LivingInv
<1>2. ClaimsUnbound'
  BY DEF LivingInv, ClaimsUnbound
<1>3. PodsOnNode'
  BY <1>1, EntryShape DEF LivingInv, PodsOnNode
<1>4. StatusOnNode'
  BY <1>1, EntryShape DEF LivingInv, StatusOnNode
<1>5. StatusOfPod'
  BY <1>1, EntryShape DEF LivingInv, StatusOfPod
<1> QED BY <1>2, <1>3, <1>4, <1>5 DEF LivingInv

LEMMA ScheduleKeeps ==
  ASSUME LivingInv, NEW p \in VolumePods, Volumes!Schedule(p), VolumesShape'
  PROVE  LivingInv'
<1>0. VolumesShape
  BY DEF LivingInv
<1>1. PICK n \in Nodes :
        /\ Volumes!CanRun(p, n)
        /\ pod' = [pod EXCEPT ![p].node = n, ![p].unschedulable = FALSE]
        /\ claim' = [claim EXCEPT ![pod[p].claim] = [state |-> "bound", node |-> n]]
  BY DEF Volumes!Schedule
<1>2. p \in Volumes!Pods /\ pod[p] \in Volumes!Pod /\ pod[p].claim \in Volumes!Claims
  BY <1>0, EntryShape DEF Volumes!Schedule, Volumes!Unscheduled
<1> DEFINE d == pod[p].claim
<1>3. claim'[d].node = n /\ claim'[d].state = "bound" /\ \A c \in Volumes!Claims : c # d => claim'[c] = claim[c]
  BY <1>0, <1>1, <1>2 DEF VolumesShape
<1>4. claim[d].node \in {Volumes!NoNode, n}
  BY <1>1, <1>2 DEF Volumes!CanRun, LivingInv, ClaimsUnbound
<1>5. /\ pod'[p].claim = d /\ pod'[p].node = n
      /\ \A q \in Volumes!Pods' : q = p \/ (q \in Volumes!Pods /\ pod'[q] = pod[q])
  <2>1. pod' = [pod EXCEPT ![p] = [pod[p] EXCEPT !.node = n, !.unschedulable = FALSE]]
    BY <1>0, <1>1 DEF VolumesShape
  <2> QED BY <1>0, <1>2, <2>1 DEF VolumesShape, Volumes!Pod, Volumes!Pods
<1>6. UNCHANGED podStatus
  BY DEF Volumes!Schedule, Volumes!Quiet
<1> HIDE DEF d
<1>7. ClaimsUnbound'
  BY <1>3 DEF LivingInv, ClaimsUnbound
<1>8. PodsOnNode'
  <2> SUFFICES ASSUME NEW q \in Volumes!Pods', pod'[q].node # Volumes!NoNode
               PROVE  claim'[pod'[q].claim].node = pod'[q].node
    BY DEF PodsOnNode
  <2>1. CASE q = p
    BY <1>3, <1>5, <2>1
  <2>2. CASE q # p
    <3>1. q \in Volumes!Pods /\ pod'[q] = pod[q]
      BY <1>5, <2>2
    <3>2. pod[q].claim \in Volumes!Claims /\ claim[pod[q].claim].node = pod[q].node
      BY <1>0, <3>1, EntryShape DEF LivingInv, PodsOnNode
    <3> QED BY <1>3, <1>4, <3>1, <3>2
  <2> QED BY <2>1, <2>2
<1>9. StatusOnNode'
  <2> SUFFICES ASSUME NEW q \in VolumePods, podStatus[q] # Volumes!Forgotten, podStatus[q].node # Volumes!NoNode
               PROVE  claim'[podStatus[q].claim].node = podStatus[q].node
    BY <1>6 DEF StatusOnNode
  <2>1. podStatus[q].claim \in Volumes!Claims /\ claim[podStatus[q].claim].node = podStatus[q].node
    BY <1>0, EntryShape DEF LivingInv, StatusOnNode
  <2> QED BY <1>3, <1>4, <2>1
<1>10. StatusOfPod'
  BY <1>2, <1>5, <1>6 DEF LivingInv, StatusOfPod, d
<1> QED BY <1>7, <1>8, <1>9, <1>10 DEF LivingInv

LEMMA StatusKeeps ==
  ASSUME LivingInv, Volumes!GetPodStatusList, VolumesShape'
  PROVE  LivingInv'
<1>0. VolumesShape
  BY DEF LivingInv
<1>1. UNCHANGED <<claim, pod>> /\ \A p \in VolumePods :
        podStatus'[p] = IF p \in Volumes!Listed THEN [claim |-> pod[p].claim, node |-> Volumes!Remembered(p)]
                        ELSE Volumes!Forgotten
  BY DEF Volumes!GetPodStatusList
<1>2. ASSUME NEW p \in Volumes!Listed, Volumes!Remembered(p) # Volumes!NoNode
      PROVE  claim[pod[p].claim].node = Volumes!Remembered(p)
  <2>1. p \in Volumes!Pods /\ p \in VolumePods
    BY DEF Volumes!Listed, Volumes!Pods
  <2> QED BY <1>2, <2>1 DEF Volumes!Remembered, LivingInv, PodsOnNode, StatusOnNode, StatusOfPod
<1>3. ASSUME NEW p \in VolumePods, podStatus'[p] # Volumes!Forgotten
      PROVE  p \in Volumes!Listed /\ podStatus'[p].claim = pod[p].claim /\ podStatus'[p].node = Volumes!Remembered(p)
  <2>1. p \in Volumes!Listed
    BY <1>1, <1>3
  <2>2. podStatus'[p] = [claim |-> pod[p].claim, node |-> Volumes!Remembered(p)]
    BY <1>1, <2>1
  <2> QED BY <2>1, <2>2
<1>4. StatusOnNode' /\ StatusOfPod'
  <2>1. StatusOnNode'
    BY <1>1, <1>2, <1>3 DEF StatusOnNode
  <2>2. ASSUME NEW p \in Volumes!Pods' PROVE p \in VolumePods
    BY DEF Volumes!Pods
  <2>3. StatusOfPod'
    BY <1>1, <1>3, <2>2 DEF StatusOfPod
  <2> QED BY <2>1, <2>3
<1>5. PodsOnNode' /\ ClaimsUnbound'
  BY <1>1 DEF LivingInv, PodsOnNode, ClaimsUnbound, Volumes!Pods
<1> QED BY <1>4, <1>5 DEF LivingInv

LEMMA LivingStep ==
  ASSUME TLS = FALSE, LivingInv, [Volumes!Next]_(Volumes!vars)
  PROVE  LivingInv'
<1>0. VolumesShape
  BY DEF LivingInv
<1>1. CASE Volumes!CreatePod
  <2>1. CASE Volumes!Goto("status") /\ UNCHANGED <<pod, unseen, claim, podStatus>>
    <3>1. VolumesShape'
      BY <1>0, <2>1, GotoShape DEF VolumesShape
    <3> QED BY <2>1, <3>1, LivingKept DEF Volumes!Pods
  <2>2. ASSUME NEW c \in Volumes!Claims, NEW p \in VolumePods, Creates(p, c)
        PROVE  LivingInv'
    <3>1. VolumesShape' /\ UNCHANGED <<claim, podStatus>> /\ pod'[p].claim = c /\ pod'[p].node = Volumes!NoNode
          /\ \A q \in Volumes!Pods' : q = p \/ (q \in Volumes!Pods /\ pod'[q] = pod[q])
      BY <1>0, <2>2, CreationShape
    <3>2. podStatus[p] = Volumes!Forgotten
      BY <2>2 DEF Creates
    <3> QED
      BY <3>1, <3>2 DEF LivingInv, ClaimsUnbound, PodsOnNode, StatusOnNode, StatusOfPod
  <2> QED BY <1>0, <1>1, <2>1, <2>2, CreatedPod
<1> SUFFICES ASSUME ~Volumes!CreatePod PROVE LivingInv'
  BY <1>1
<1>2. VolumesShape'
  BY <1>0, OtherSteps
<1>3. ASSUME UNCHANGED pod
      PROVE  \A q \in Volumes!Pods' : q \in Volumes!Pods /\ pod'[q].claim = pod[q].claim /\ pod'[q].node = pod[q].node
  BY <1>3 DEF Volumes!Pods
<1>4. ASSUME UNCHANGED claim
      PROVE  \A c \in Volumes!Claims :
                /\ claim'[c].node = claim[c].node
                /\ claim'[c].state \in {"new", "pending"} => claim[c].state \in {"new", "pending"}
  BY <1>4
<1>5. ASSUME Volumes!EnsureMismatchedPodsAreDeleted PROVE LivingInv'
  <2>1. Volumes!OrphanedPods \subseteq VolumePods
    BY DEF Volumes!OrphanedPods, Volumes!Listed, Volumes!Pods
  <2>2. \A q \in Volumes!Pods' : q \in Volumes!Pods /\ pod'[q] = pod[q]
    BY <1>0, <1>5, <2>1 DEF Volumes!EnsureMismatchedPodsAreDeleted, VolumesShape, Volumes!Pods
  <2> QED BY <1>2, <1>4, <1>5, <2>2, LivingKept DEF Volumes!EnsureMismatchedPodsAreDeleted
<1>6. ASSUME \/ Volumes!EnsureClaimsExist \/ Volumes!EnsureOrphanedPvcsAreDeleted
             \/ \E c \in Volumes!Claims : Volumes!RemoveClaim(c)
      PROVE  LivingInv'
  <2>1. \/ UNCHANGED claim
        \/ \E c \in Volumes!Claims : /\ claim[c].state = "new"
                                      /\ claim' = [claim EXCEPT ![c].state = "pending"]
        \/ \E c \in Volumes!Claims, s \in {"deleting", "gone"} : claim' = [claim EXCEPT ![c].state = s]
    BY <1>6 DEF Volumes!EnsureClaimsExist, Volumes!EnsureOrphanedPvcsAreDeleted, Volumes!RemoveClaim
  <2>2. \A c \in Volumes!Claims :
           /\ claim'[c].node = claim[c].node
           /\ claim'[c].state \in {"new", "pending"} => claim[c].state \in {"new", "pending"}
    BY <1>0, <2>1 DEF VolumesShape
  <2>3. UNCHANGED <<pod, podStatus>>
    BY <1>6 DEF Volumes!EnsureClaimsExist, Volumes!EnsureOrphanedPvcsAreDeleted, Volumes!RemoveClaim, Volumes!Quiet
  <2> QED BY <1>2, <1>3, <2>2, <2>3, LivingKept
<1>7. ASSUME NEW p \in VolumePods, \/ Volumes!Unschedulable(p) \/ Volumes!Start(p)
                              \/ Volumes!LosePod(p) \/ Volumes!CollectPod(p) \/ Volumes!DeletePod(p)
      PROVE  LivingInv'
  <2>1. CASE Volumes!Schedule(p)
    BY <1>2, <2>1, ScheduleKeeps
  <2>2. CASE ~Volumes!Schedule(p)
    <3>1. UNCHANGED claim
      BY <1>7 DEF Volumes!Unschedulable, Volumes!Start, Volumes!LosePod, Volumes!CollectPod, Volumes!DeletePod
    <3> QED BY <1>0, <1>2, <1>4, <1>7, <2>2, <3>1, PodElsewhere, LivingKept
  <2> QED BY <2>1, <2>2
<1>8. ASSUME \/ Volumes!EnsurePodsExist \/ Volumes!WaitForNewPods \/ Volumes!NodePoolPodsReady
             \/ \E p \in VolumePods : Volumes!ShowPod(p)
             \/ \E n \in Nodes : Volumes!DeleteNode(n) \/ Volumes!Cordon(n)
             \/ Volumes!Fail \/ Volumes!Restart \/ UNCHANGED Volumes!vars
      PROVE  LivingInv'
  <2>1. UNCHANGED <<claim, pod, podStatus>>
    BY <1>8 DEF Volumes!EnsurePodsExist, Volumes!WaitForNewPods, Volumes!NodePoolPodsReady, Volumes!ShowPod,
         Volumes!Quiet, Volumes!DeleteNode, Volumes!Cordon, Volumes!Hurt, Volumes!Fail, Volumes!Restart,
         Volumes!Fault, Volumes!vars
  <2> QED BY <1>2, <1>3, <1>4, <2>1, LivingKept
<1>9. CASE Volumes!Reconcile
  BY <1>2, <1>5, <1>6, <1>8, <1>9, StatusKeeps DEF Volumes!Reconcile
<1>10. CASE Volumes!Kubernetes
  BY <1>2, <1>6, <1>7, <1>8, <1>10, ScheduleKeeps DEF Volumes!Kubernetes
<1>11. CASE Volumes!Others \/ UNCHANGED Volumes!vars
  BY <1>7, <1>8, <1>11 DEF Volumes!Others
<1> QED BY <1>9, <1>10, <1>11 DEF Volumes!Next

LEMMA LivingInit == Volumes!Init => LivingInv
<1> SUFFICES ASSUME Volumes!Init PROVE LivingInv
  OBVIOUS
<1>1. VolumesShape
  BY DEF Volumes!Init, VolumesShape, OpFields, Volumes!Idle, Volumes!ClaimStates
<1> QED BY <1>1 DEF Volumes!Init, LivingInv, ClaimsUnbound, PodsOnNode, StatusOnNode, StatusOfPod, Volumes!Pods

LEMMA ReclaimsLost ==
  ASSUME LivingInv, [Volumes!Next]_(Volumes!vars)
  PROVE  Volumes!LiveKept
<1>0. VolumesShape
  BY DEF LivingInv
<1> SUFFICES ASSUME NEW c \in Volumes!Claims, claim[c].state # "deleting", claim'[c].state = "deleting"
             PROVE  claim[c].node # Volumes!NoNode /\ node[claim[c].node] = "gone"
  BY DEF Volumes!LiveKept
<1>1. Volumes!EnsureOrphanedPvcsAreDeleted
  <2>1. ASSUME UNCHANGED claim PROVE FALSE
    BY <2>1
  <2>2. ASSUME Volumes!EnsureClaimsExist PROVE FALSE
    <3>1. PICK d \in Volumes!Claims : claim' = [claim EXCEPT ![d].state = "pending"]
      BY <2>1, <2>2 DEF Volumes!EnsureClaimsExist
    <3> QED BY <1>0, <3>1 DEF VolumesShape
  <2>3. ASSUME NEW d \in Volumes!Claims, Volumes!RemoveClaim(d) PROVE FALSE
    BY <1>0, <2>3 DEF VolumesShape, Volumes!RemoveClaim
  <2>4. ASSUME NEW p \in VolumePods, Volumes!Schedule(p) PROVE FALSE
    <3>1. PICK n \in Nodes : claim' = [claim EXCEPT ![pod[p].claim] = [state |-> "bound", node |-> n]]
      BY <2>4 DEF Volumes!Schedule
    <3> QED BY <1>0, <3>1 DEF VolumesShape
  <2>5. CASE Volumes!Reconcile
    <3>1. Volumes!CreatePod => UNCHANGED claim
      BY DEF Volumes!CreatePod
    <3> QED BY <2>1, <2>2, <2>5, <3>1 DEF Volumes!Reconcile, Volumes!EnsureMismatchedPodsAreDeleted,
          Volumes!EnsurePodsExist, Volumes!WaitForNewPods, Volumes!NodePoolPodsReady, Volumes!GetPodStatusList
  <2>6. CASE Volumes!Kubernetes
    BY <2>1, <2>3, <2>4, <2>6 DEF Volumes!Kubernetes, Volumes!Unschedulable, Volumes!Start, Volumes!LosePod,
         Volumes!CollectPod, Volumes!ShowPod
  <2>7. CASE Volumes!Others \/ UNCHANGED Volumes!vars
    BY <2>1, <2>7 DEF Volumes!Others, Volumes!DeleteNode, Volumes!Cordon, Volumes!DeletePod, Volumes!Fail,
         Volumes!Restart, Volumes!Fault, Volumes!vars
  <2> QED BY <2>5, <2>6, <2>7 DEF Volumes!Next
<1>2. Volumes!Orphaned(c)
  <2>1. PICK d \in Volumes!Claims : Volumes!Reclaimable(d) /\ claim' = [claim EXCEPT ![d].state = "deleting"]
    BY <1>1 DEF Volumes!EnsureOrphanedPvcsAreDeleted
  <2> QED BY <1>0, <2>1 DEF VolumesShape, Volumes!Reclaimable
<1>3. PICK p \in VolumePods :
        /\ podStatus[p].claim = c /\ podStatus[p].node # Volumes!NoNode
        /\ node[podStatus[p].node] = "gone"
  BY <1>2 DEF Volumes!Orphaned
<1>4. podStatus[p] # Volumes!Forgotten
  BY <1>3 DEF Volumes!Forgotten, Volumes!Claims
<1> QED BY <1>3, <1>4 DEF LivingInv, StatusOnNode

(* The clean-up deletes a claim only when the node it is bound to is gone, for every number of nodes and
   claims, whatever happened to nodes and pods and however late a list is, as long as pods have names of
   their own, which they have without TLS (humiocluster_controller.go:1294 to 1372). *)
THEOREM DataOutlivesItsPods ==
  ASSUME TLS = FALSE
  PROVE  Volumes!Init /\ [][Volumes!Next]_(Volumes!vars) => [][Volumes!LiveKept]_(Volumes!vars)
<1>1. LivingInv /\ [Volumes!Next]_(Volumes!vars) => LivingInv'
  BY LivingStep
<1>2. LivingInv /\ [Volumes!Next]_(Volumes!vars) => Volumes!LiveKept
  BY ReclaimsLost
<1> QED BY <1>1, <1>2, LivingInit, PTL

(***************************************************************************)
(* Certificates of the nodes (NodeCertificates).                           *)
(***************************************************************************)
(* A reconcile asks for certificates with hostnames. *)
CertsInv ==
  /\ hurts \in Nat /\ hosts \in Nat \ {0}
  /\ certs = [n \in Certs!AllNames |-> certs[n]]
  /\ secrets = [n \in Certs!AllNames |-> secrets[n]]
  /\ proc.pc # "idle" =>
       /\ proc = [pc |-> proc.pc, tls |-> proc.tls, hosts |-> proc.hosts, todo |-> proc.todo, expect |-> proc.expect]
       /\ proc.hosts \in Nat \ {0}

\* One certificate or secret is another.
LEMMA OneOther ==
  ASSUME NEW f, f = [n \in Certs!AllNames |-> f[n]], NEW m \in Certs!AllNames, NEW x,
         NEW g, g = [f EXCEPT ![m] = x]
  PROVE  /\ g = [n \in Certs!AllNames |-> g[n]]
         /\ \A n \in Certs!AllNames : g[n] = IF n = m THEN x ELSE f[n]
<1>1. g = [n \in Certs!AllNames |-> IF n = m THEN x ELSE f[n]]
  OBVIOUS
<1> QED BY <1>1

LEMMA WorkerMoves ==
  ASSUME CertsInv, proc.pc # "idle",
         \/ proc' = Certs!Idle \/ UNCHANGED proc
         \/ \E pc : Certs!Goto(pc)
         \/ proc' = [proc EXCEPT !.pc = "pods"]
         \/ \E todo, expect : proc' = [proc EXCEPT !.pc = "cert", !.todo = todo, !.expect = expect]
         \/ \E todo : proc' = [proc EXCEPT !.pc = "wait", !.todo = todo]
  PROVE  proc'.pc # "idle" =>
           /\ proc' = [pc |-> proc'.pc, tls |-> proc'.tls, hosts |-> proc'.hosts, todo |-> proc'.todo, expect |-> proc'.expect]
           /\ proc'.hosts \in Nat \ {0}
<1>0. /\ proc = [pc |-> proc.pc, tls |-> proc.tls, hosts |-> proc.hosts, todo |-> proc.todo, expect |-> proc.expect]
      /\ proc.hosts \in Nat \ {0}
  BY DEF CertsInv
<1>1. CASE proc' = Certs!Idle
  <2>1. proc'.pc = "idle"
    BY <1>1 DEF Certs!Idle
  <2> QED BY <2>1
<1>6. CASE UNCHANGED proc
  BY <1>0, <1>6, Zenon
<1>2. ASSUME NEW pc, proc' = [proc EXCEPT !.pc = pc]
      PROVE  proc' = [pc |-> pc, tls |-> proc.tls, hosts |-> proc.hosts, todo |-> proc.todo, expect |-> proc.expect]
  BY <1>0, <1>2
<1>3. ASSUME NEW todo, NEW expect, proc' = [proc EXCEPT !.pc = "cert", !.todo = todo, !.expect = expect]
      PROVE  proc' = [pc |-> "cert", tls |-> proc.tls, hosts |-> proc.hosts, todo |-> todo, expect |-> expect]
  BY <1>0, <1>3
<1>4. ASSUME NEW todo, proc' = [proc EXCEPT !.pc = "wait", !.todo = todo]
      PROVE  proc' = [pc |-> "wait", tls |-> proc.tls, hosts |-> proc.hosts, todo |-> todo, expect |-> proc.expect]
  BY <1>0, <1>4
<1>5. ASSUME NEW pc, NEW todo, NEW expect,
             proc' = [pc |-> pc, tls |-> proc.tls, hosts |-> proc.hosts, todo |-> todo, expect |-> expect]
      PROVE  /\ proc' = [pc |-> proc'.pc, tls |-> proc'.tls, hosts |-> proc'.hosts, todo |-> proc'.todo, expect |-> proc'.expect]
             /\ proc'.hosts \in Nat \ {0}
  BY <1>0, <1>5
<1> QED BY <1>1, <1>2, <1>3, <1>4, <1>5, <1>6 DEF Certs!Goto

LEMMA CertsStep ==
  ASSUME FirstPool, Certs!Cluster \notin PodNames, CertsInv, [Certs!Next]_(Certs!vars)
  PROVE  CertsInv' /\ Certs!ServingKept
<1> USE DEF Certs!Alone
<1> DEFINE worker == proc.pc # "idle" =>
             /\ proc = [pc |-> proc.pc, tls |-> proc.tls, hosts |-> proc.hosts, todo |-> proc.todo, expect |-> proc.expect]
             /\ proc.hosts \in Nat \ {0}
<1>0. worker /\ \A n \in PodNames : n \in Certs!AllNames /\ n # Certs!Cluster
  BY DEF CertsInv, Certs!AllNames
<1> HIDE DEF worker
<1>a. ASSUME UNCHANGED <<certs, secrets>>, hosts' \in Nat \ {0}, hurts' \in Nat, worker'
      PROVE  CertsInv' /\ Certs!ServingKept
  BY <1>a DEF CertsInv, Certs!ServingKept, worker
<1>b. ASSUME UNCHANGED <<secrets, hosts, hurts>>, worker', certs' = [n \in Certs!AllNames |-> certs'[n]],
             \A n \in PodNames : pods[n] # Certs!None /\ certs[n] # Certs!None => certs'[n] # Certs!None
      PROVE  CertsInv' /\ Certs!ServingKept
  BY <1>b DEF CertsInv, Certs!ServingKept, worker
<1>c. ASSUME UNCHANGED <<certs, hosts, hurts>>, worker', secrets' = [n \in Certs!AllNames |-> secrets'[n]],
             \A n \in PodNames : pods[n] # Certs!None /\ secrets[n] # Certs!NoSecret => secrets'[n] # Certs!NoSecret
      PROVE  CertsInv' /\ Certs!ServingKept
  BY <1>c DEF CertsInv, Certs!ServingKept, worker
<1>d. ASSUME NEW n \in Certs!AllNames, Certs!Unused(n), NEW m \in PodNames, pods[m] # Certs!None PROVE m # n
  BY <1>0, <1>d DEF Certs!Unused
<1>e. hosts \in Nat \ {0} /\ hurts \in Nat
  BY DEF CertsInv
<1>f. certs = [n \in Certs!AllNames |-> certs[n]] /\ secrets = [n \in Certs!AllNames |-> secrets[n]]
  BY DEF CertsInv
<1>g. ASSUME UNCHANGED proc PROVE worker'
  BY <1>0, <1>g DEF worker
<1>1. CASE Certs!StartReconcile
  <2>1. worker'
    BY <1>1, <1>e DEF Certs!StartReconcile, worker
  <2> QED BY <1>1, <1>a, <1>e, <2>1 DEF Certs!StartReconcile
<1>2. CASE Certs!EnsureValidCASecret \/ Certs!DeleteMismatchedPods \/ Certs!WaitForNewNodeCertificate
           \/ Certs!EnsurePodsExist \/ Certs!PodsReady \/ Certs!CleanupIssuer
  <2>1. /\ proc.pc # "idle" /\ UNCHANGED <<certs, secrets, hosts, hurts>>
        /\ proc' = Certs!Idle \/ UNCHANGED proc \/ \E pc : Certs!Goto(pc)
    BY <1>2 DEF Certs!EnsureValidCASecret, Certs!DeleteMismatchedPods, Certs!WaitForNewNodeCertificate,
       Certs!EnsurePodsExist, Certs!PodsReady, Certs!CleanupIssuer
  <2>2. worker'
    BY <2>1, WorkerMoves DEF worker
  <2> QED BY <1>a, <1>e, <2>1, <2>2
<1>3. CASE Certs!EnsureIssuerAndBundle
  <2>1. /\ proc.pc # "idle" /\ UNCHANGED <<secrets, hosts, hurts>>
        /\ proc' = Certs!Idle \/ \E pc : Certs!Goto(pc)
    BY <1>3 DEF Certs!EnsureIssuerAndBundle
  <2>2. worker'
    BY <2>1, WorkerMoves DEF worker
  <2>3. UNCHANGED certs \/ certs' = [certs EXCEPT ![Certs!Cluster] = proc.hosts]
    BY <1>3 DEF Certs!EnsureIssuerAndBundle
  <2>4. Certs!Cluster \in Certs!AllNames
    BY DEF Certs!AllNames
  <2>5. CASE certs' = [certs EXCEPT ![Certs!Cluster] = proc.hosts]
    BY <1>0, <1>b, <1>f, <2>1, <2>2, <2>4, <2>5, OneOther
  <2> QED BY <1>a, <1>e, <2>1, <2>2, <2>3, <2>5
<1>4. CASE Certs!UpdateNodeCertificates
  <2>1. /\ proc.pc = "certs" /\ UNCHANGED <<secrets, hosts, hurts>>
        /\ certs' = [n \in Certs!AllNames |->
             IF n \in Certs!OldCerts /\ certs[n] = seen[n] THEN proc.hosts ELSE certs[n]]
    BY <1>4 DEF Certs!UpdateNodeCertificates
  <2>2. \/ proc' = Certs!Idle
        \/ proc' = [proc EXCEPT !.pc = "pods"]
        \/ \E todo, expect : proc' = [proc EXCEPT !.pc = "cert", !.todo = todo, !.expect = expect]
    BY <1>4, Zenon DEF Certs!UpdateNodeCertificates
  <2>3. worker'
    BY <2>1, <2>2, WorkerMoves DEF worker
  <2>4. proc.hosts # Certs!None
    BY <1>0, <2>1 DEF worker, Certs!None
  <2> QED BY <1>0, <1>b, <2>1, <2>3, <2>4
<1>5. CASE Certs!CreateNodeCertificate
  <2>1. proc.pc = "cert" /\ UNCHANGED <<secrets, hosts, hurts>>
    BY <1>5 DEF Certs!CreateNodeCertificate
  <2>2. \/ proc' = Certs!Idle
        \/ \E todo : proc' = [proc EXCEPT !.pc = "wait", !.todo = todo]
    BY <1>5, Zenon DEF Certs!CreateNodeCertificate
  <2>3. worker'
    BY <2>1, <2>2, WorkerMoves DEF worker
  <2>4. UNCHANGED certs \/ \E n \in Certs!Fresh : certs' = [certs EXCEPT ![n] = proc.hosts]
    BY <1>5 DEF Certs!CreateNodeCertificate
  <2>5. ASSUME NEW n \in Certs!Fresh, certs' = [certs EXCEPT ![n] = proc.hosts]
        PROVE  CertsInv' /\ Certs!ServingKept
    <3>1. n \in PodNames /\ pods[n] = Certs!None
      BY DEF Certs!Fresh
    <3> QED BY <1>0, <1>b, <1>f, <2>1, <2>3, <2>5, <3>1, OneOther
  <2> QED BY <1>a, <1>e, <2>1, <2>3, <2>4, <2>5
<1>6. CASE Certs!CleanupCertificates
  <2>1. /\ proc.pc # "idle" /\ UNCHANGED <<secrets, hosts, hurts, pods>>
        /\ proc' = Certs!Idle \/ \E pc : Certs!Goto(pc)
        /\ \/ UNCHANGED certs
           \/ \E n \in Certs!AllNames : Certs!Unused(n) /\ certs' = [certs EXCEPT ![n] = Certs!None]
    BY <1>6 DEF Certs!CleanupCertificates
  <2>2. worker'
    BY <2>1, WorkerMoves DEF worker
  <2>3. ASSUME NEW n \in Certs!AllNames, Certs!Unused(n), certs' = [certs EXCEPT ![n] = Certs!None]
        PROVE  CertsInv' /\ Certs!ServingKept
    BY <1>0, <1>b, <1>d, <1>f, <2>1, <2>2, <2>3, OneOther
  <2> QED BY <1>a, <1>e, <2>1, <2>2, <2>3
<1>7. CASE Certs!CleanupSecrets
  <2>1. /\ proc.pc # "idle" /\ UNCHANGED <<certs, hosts, hurts, pods>>
        /\ \E pc : Certs!Goto(pc)
        /\ \/ UNCHANGED secrets
           \/ \E n \in Certs!AllNames : Certs!Unused(n) /\ secrets' = [secrets EXCEPT ![n] = Certs!NoSecret]
    BY <1>7 DEF Certs!CleanupSecrets
  <2>2. worker'
    BY <2>1, WorkerMoves DEF worker
  <2>3. ASSUME NEW n \in Certs!AllNames, Certs!Unused(n), secrets' = [secrets EXCEPT ![n] = Certs!NoSecret]
        PROVE  CertsInv' /\ Certs!ServingKept
    BY <1>0, <1>c, <1>d, <1>f, <2>1, <2>2, <2>3, OneOther
  <2> QED BY <1>a, <1>e, <2>1, <2>2, <2>3
<1>8. ASSUME NEW n \in Certs!AllNames, Certs!Issue(n) PROVE CertsInv' /\ Certs!ServingKept
  <2>1. /\ UNCHANGED <<certs, hosts, hurts, proc>> /\ ca # Certs!None
        /\ secrets' = [secrets EXCEPT ![n] = [ca |-> ca, hosts |-> certs[n]]]
    BY <1>8 DEF Certs!Issue
  <2>2. [ca |-> ca, hosts |-> certs[n]] # Certs!NoSecret
    BY <2>1 DEF Certs!NoSecret
  <2> QED BY <1>0, <1>c, <1>f, <1>g, <2>1, <2>2, OneOther
<1>9. ASSUME NEW n \in Certs!AllNames, Certs!LoseCert(n) PROVE CertsInv' /\ Certs!ServingKept
  <2>1. /\ hurts' = hurts + 1 /\ UNCHANGED <<secrets, hosts, proc>>
        /\ certs' = [certs EXCEPT ![n] = Certs!None]
    BY <1>9 DEF Certs!LoseCert, Certs!Hurt
  <2>2. hurts' # hurts /\ hurts' \in Nat
    BY <1>e, <2>1
  <2> QED BY <1>e, <1>f, <1>g, <2>1, <2>2, OneOther DEF CertsInv, Certs!ServingKept, worker
<1>10. ASSUME NEW n \in PodNames, Certs!LosePod(n) PROVE CertsInv' /\ Certs!ServingKept
  BY <1>10, <1>a, <1>e, <1>g DEF Certs!LosePod, Certs!Hurt
<1>11. CASE Certs!CatchUp \/ Certs!LoseCA \/ UNCHANGED Certs!vars
  BY <1>11, <1>a, <1>e, <1>g DEF Certs!CatchUp, Certs!LoseCA, Certs!Hurt, Certs!vars
<1>12. CASE Certs!Fault
  <2>1. worker'
    BY <1>12 DEF Certs!Fault, Certs!Idle, worker
  <2> QED BY <1>12, <1>a, <1>e, <2>1 DEF Certs!Fault
<1>13. CASE Certs!ToggleTLS \/ Certs!EditHostnames
  <2>1. UNCHANGED <<certs, secrets, hurts, proc>> /\ (hosts' = hosts \/ hosts' = hosts + 1)
    BY <1>13 DEF Certs!ToggleTLS, Certs!EditHostnames, Certs!Edit
  <2> QED BY <1>a, <1>e, <1>g, <2>1
<1> QED BY <1>1, <1>2, <1>3, <1>4, <1>5, <1>6, <1>7, <1>8, <1>9, <1>10, <1>11, <1>12, <1>13
      DEF Certs!Next, Certs!Work, Certs!Others

LEMMA CertsInit == Certs!Init => CertsInv
BY DEF Certs!Init, Certs!Idle, CertsInv

(* In the first pool of a cluster the operator takes no certificate, and no secret, from a pod that serves
   with it, for any number of nodes, whatever the cache shows of the certificates and whether or not pods
   stay when TLS is turned off (humiocluster_controller.go:1696 to 1888). *)
THEOREM NoPodLosesItsCertificate ==
  ASSUME FirstPool, Certs!Cluster \notin PodNames
  PROVE  Certs!Init /\ [][Certs!Next]_(Certs!vars) => [][Certs!ServingKept]_(Certs!vars)
<1>1. CertsInv /\ [Certs!Next]_(Certs!vars) => CertsInv' /\ Certs!ServingKept
  BY CertsStep
<1> QED BY <1>1, CertsInit, PTL

(***************************************************************************)
(* Config maps of a cluster (SupportingObjects): all pools keep their      *)
(* nodes, and a change of what pods mount is rolled out.                   *)
(***************************************************************************)
PoolShape(x) ==
  /\ x = [listed |-> x.listed, nodes |-> x.nodes, kafka |-> x.kafka, labels |-> x.labels, port |-> x.port, budget |-> x.budget]
  /\ x.listed /\ x.nodes = 1
HasNodes(s) == \A p \in Pools : s.pools[p].listed /\ s.pools[p].nodes = 1
ObjectsShape ==
  /\ spec = [perms |-> spec.perms, ingress |-> spec.ingress, host |-> spec.host, pools |-> spec.pools]
  /\ spec.pools = [p \in Pools |-> spec.pools[p]]
  /\ \A p \in Pools : PoolShape(spec.pools[p])
StoredShape == maps = [p \in Pools |-> maps[p]] /\ pods = [p \in Pools |-> pods[p]]

\* What pods have read is there.
ReadIsThere ==
  \A p \in Pools : /\ pods[p].kafka > 0 => maps[p] # 0
                   /\ pods[p].perms > 0 => perms # 0

\* None of these pods mounts other files than s names.
MatchedBy(held, s) ==
  \A p \in Pools : \/ held[p] = Objects!NoPod
                   \/ /\ held[p].kafka # 0 <=> s.pools[p].kafka # 0
                      /\ held[p].perms # 0 <=> s.perms # 0

\* A reconcile that found pods which do not match waits for those that replace them, before it cleans up.
ReconcileKnows ==
  /\ proc.pc # "idle" =>
       /\ \/ proc = [pc |-> proc.pc, spec |-> proc.spec, todo |-> proc.todo]
          \/ proc = [pc |-> proc.pc, spec |-> proc.spec, todo |-> proc.todo, pool |-> proc.pool]
       /\ HasNodes(proc.spec)
  /\ proc.pc \in {"ingress", "service", "maps", "budget", "pods"} =>
       MatchedBy(pods, proc.spec) \/ \E p \in Pools : pods[p] = Objects!NoPod
  /\ proc.pc \in {"clean maps", "clean perms", "clean services"} => MatchedBy(pods, proc.spec)

ObjectsInv == ObjectsShape /\ StoredShape /\ ReadIsThere /\ ReconcileKnows

LEMMA AllHaveNodes ==
  ASSUME NEW s, HasNodes(s)
  PROVE  Objects!Listed(s) = Pools /\ Objects!WithNodes(s) = Pools
BY DEF HasNodes, Objects!Listed, Objects!WithNodes

LEMMA NoneMismatched ==
  ASSUME NEW s, HasNodes(s), Objects!Mismatched(s) = {}
  PROVE  MatchedBy(pods, s)
<1> SUFFICES ASSUME NEW p \in Pools, pods[p] # Objects!NoPod
             PROVE  /\ pods[p].kafka # 0 <=> s.pools[p].kafka # 0
                    /\ pods[p].perms # 0 <=> s.perms # 0
  BY DEF MatchedBy
<1>1. [kafka |-> pods[p].kafka # 0, perms |-> pods[p].perms # 0]
        = [kafka |-> s.pools[p].kafka # 0, perms |-> s.perms # 0]
  BY AllHaveNodes DEF Objects!Mismatched, Objects!Mounts
<1>2. [kafka |-> pods[p].kafka # 0, perms |-> pods[p].perms # 0].kafka
        = [kafka |-> s.pools[p].kafka # 0, perms |-> s.perms # 0].kafka
  BY <1>1
<1>3. [kafka |-> pods[p].kafka # 0, perms |-> pods[p].perms # 0].perms
        = [kafka |-> s.pools[p].kafka # 0, perms |-> s.perms # 0].perms
  BY <1>1
<1> QED BY <1>2, <1>3

\* One pool is edited.
LEMMA PoolEdited ==
  ASSUME ObjectsShape, NEW p \in Pools, NEW x, PoolShape(x), spec' = [spec EXCEPT !.pools[p] = x]
  PROVE  ObjectsShape'
<1> DEFINE g == [spec.pools EXCEPT ![p] = x]
<1>1. spec' = [perms |-> spec.perms, ingress |-> spec.ingress, host |-> spec.host, pools |-> g]
  BY DEF ObjectsShape
<1>2. g = [q \in Pools |-> IF q = p THEN x ELSE spec.pools[q]]
  BY DEF ObjectsShape
<1> HIDE DEF g
<1>3. spec'.pools = g
  BY <1>1
<1>4. spec' = [perms |-> spec'.perms, ingress |-> spec'.ingress, host |-> spec'.host, pools |-> spec'.pools]
  BY <1>1
<1>5. g = [q \in Pools |-> g[q]] /\ \A q \in Pools : PoolShape(g[q])
  BY <1>2 DEF ObjectsShape
<1> QED BY <1>3, <1>4, <1>5 DEF ObjectsShape, PoolShape

LEMMA SpecEdited ==
  ASSUME {"nodes", "listed"} \cap Editable = {}, ObjectsShape,
         Objects!EditCluster \/ \E p \in Pools : Objects!EditPool(p)
  PROVE  ObjectsShape'
<1>1. ASSUME NEW p \in Pools, Objects!EditPool(p) PROVE ObjectsShape'
  <2> DEFINE x == spec.pools[p]
  <2>0. /\ x = [listed |-> x.listed, nodes |-> x.nodes, kafka |-> x.kafka, labels |-> x.labels, port |-> x.port, budget |-> x.budget]
        /\ x.listed /\ x.nodes = 1
    BY DEF ObjectsShape, PoolShape
  <2>1. \/ \E v : spec' = [spec EXCEPT !.pools[p].kafka = v]
        \/ \E v : spec' = [spec EXCEPT !.pools[p].budget = v]
        \/ \E v : spec' = [spec EXCEPT !.pools[p].labels = v]
        \/ \E v : spec' = [spec EXCEPT !.pools[p].port = v]
    BY <1>1, Zenon DEF Objects!EditPool, Objects!Edit
  <2>2. ASSUME NEW v PROVE PoolShape([x EXCEPT !.kafka = v]) /\ PoolShape([x EXCEPT !.budget = v])
    BY <2>0 DEF PoolShape
  <2>3. ASSUME NEW v PROVE PoolShape([x EXCEPT !.labels = v]) /\ PoolShape([x EXCEPT !.port = v])
    BY <2>0 DEF PoolShape
  <2> QED BY <2>1, <2>2, <2>3, PoolEdited
<1>2. CASE Objects!EditCluster
  <2>1. \/ \E v : spec' = [spec EXCEPT !.perms = v]
        \/ \E v : spec' = [spec EXCEPT !.ingress = v]
        \/ \E h, v : spec' = [spec EXCEPT !.host[h] = v]
    BY <1>2, Zenon DEF Objects!EditCluster, Objects!Edit
  <2>2. \E a, b, c : spec' = [perms |-> a, ingress |-> b, host |-> c, pools |-> spec.pools]
    BY <2>1 DEF ObjectsShape
  <2>3. /\ spec' = [perms |-> spec'.perms, ingress |-> spec'.ingress, host |-> spec'.host, pools |-> spec'.pools]
        /\ spec'.pools = spec.pools
    BY <2>2
  <2> QED BY <2>3 DEF ObjectsShape, PoolShape
<1> QED BY <1>1, <1>2

\* Where a reconcile goes, its spec stays.
LEMMA ReconcileMoves ==
  ASSUME ReconcileKnows, proc.pc # "idle", NEW pc, Objects!Goto(pc)
  PROVE  /\ proc'.pc = pc /\ proc'.spec = proc.spec
         /\ \/ proc' = [pc |-> proc'.pc, spec |-> proc'.spec, todo |-> proc'.todo]
            \/ proc' = [pc |-> proc'.pc, spec |-> proc'.spec, todo |-> proc'.todo, pool |-> proc'.pool]
<1>1. CASE proc = [pc |-> proc.pc, spec |-> proc.spec, todo |-> proc.todo]
  <2>1. proc' = [pc |-> pc, spec |-> proc.spec, todo |-> proc.todo]
    BY <1>1 DEF Objects!Goto
  <2> QED BY <2>1
<1>2. CASE proc = [pc |-> proc.pc, spec |-> proc.spec, todo |-> proc.todo, pool |-> proc.pool]
  <2>1. proc' = [pc |-> pc, spec |-> proc.spec, todo |-> proc.todo, pool |-> proc.pool]
    BY <1>2 DEF Objects!Goto
  <2> QED BY <2>1
<1> QED BY <1>1, <1>2 DEF ReconcileKnows

\* Pods that go, and steps on their way to the pods.
LEMMA FewerMatch ==
  ASSUME NEW s, NEW S, pods = [p \in Pools |-> pods[p]],
         pods' = [p \in Pools |-> IF p \in S THEN Objects!NoPod ELSE pods[p]], maps' = maps, perms' = perms
  PROVE  /\ MatchedBy(pods, s) => MatchedBy(pods', s)
         /\ ReadIsThere => ReadIsThere'
         /\ \A p \in Pools : pods[p] = Objects!NoPod => pods'[p] = Objects!NoPod
<1>1. MatchedBy(pods, s) => MatchedBy(pods', s)
  BY DEF MatchedBy
<1>2. ReadIsThere => ReadIsThere'
  <2>1. Objects!NoPod.kafka = -1 /\ Objects!NoPod.perms = -1
    BY DEF Objects!NoPod
  <2>2. ~(-1 > 0)
    OBVIOUS
  <2> QED BY <2>1, <2>2 DEF ReadIsThere
<1> QED BY <1>1, <1>2

LEMMA ReconcileEnds ==
  ASSUME proc' = Objects!Idle
  PROVE  ReconcileKnows'
<1>1. proc'.pc = "idle"
  BY DEF Objects!Idle
<1> QED BY <1>1 DEF ReconcileKnows

LEMMA ObjectsStep ==
  ASSUME ~PodsWait, {"nodes", "listed"} \cap Editable = {}, ObjectsInv, [Objects!Next]_(Objects!vars)
  PROVE  ObjectsInv'
<1> USE DEF Objects!Alone, Objects!Objects
<1>0. ObjectsShape /\ StoredShape /\ ReadIsThere /\ ReconcileKnows
  BY DEF ObjectsInv
<1>a. ASSUME UNCHANGED spec PROVE ObjectsShape'
  BY <1>0, <1>a DEF ObjectsShape, PoolShape
<1>b. ASSUME UNCHANGED <<maps, perms, pods>> PROVE StoredShape' /\ ReadIsThere' /\ \A s : MatchedBy(pods', s) <=> MatchedBy(pods, s)
  BY <1>0, <1>b DEF StoredShape, ReadIsThere, MatchedBy
<1>c. ASSUME NEW pc \in {"ingress", "service", "maps", "budget", "pods"}, proc'.pc = pc,
             proc.pc \in {"ingress", "service", "maps", "budget"}, proc'.spec = proc.spec,
             \/ proc' = [pc |-> proc'.pc, spec |-> proc'.spec, todo |-> proc'.todo]
             \/ proc' = [pc |-> proc'.pc, spec |-> proc'.spec, todo |-> proc'.todo, pool |-> proc'.pool],
             UNCHANGED pods
      PROVE  ReconcileKnows'
  <2>1. HasNodes(proc.spec) /\ (MatchedBy(pods, proc.spec) \/ \E p \in Pools : pods[p] = Objects!NoPod)
    BY <1>0, <1>c DEF ReconcileKnows
  <2> QED BY <1>c, <2>1 DEF ReconcileKnows, HasNodes, MatchedBy
<1>1. CASE Objects!StartReconcile
  <2>1. HasNodes(spec)
    BY <1>0 DEF ObjectsShape, PoolShape, HasNodes
  <2>2. proc' = [pc |-> "mismatched", spec |-> spec, todo |-> Objects!WithNodes(spec)]
        /\ UNCHANGED <<spec, maps, perms, pods>>
    BY <1>1 DEF Objects!StartReconcile
  <2>3. ReconcileKnows'
    BY <2>1, <2>2 DEF ReconcileKnows, HasNodes
  <2> QED BY <1>a, <1>b, <2>2, <2>3 DEF ObjectsInv
<1>2. CASE Objects!DeleteMismatchedPods
  <2> DEFINE M == Objects!Mismatched(proc.spec)
  <2>0. proc.pc = "mismatched" /\ HasNodes(proc.spec) /\ Objects!Goto("ingress") /\ UNCHANGED <<spec, maps, perms>>
    BY <1>0, <1>2 DEF Objects!DeleteMismatchedPods, ReconcileKnows
  <2>1. PICK S \in SUBSET M : /\ S # {} \/ M = {}
                              /\ pods' = [p \in Pools |-> IF p \in S THEN Objects!NoPod ELSE pods[p]]
    BY <1>2 DEF Objects!DeleteMismatchedPods
  <2>2. M \subseteq Pools
    BY DEF Objects!Mismatched, Objects!Listed
  <2>3. M = {} => MatchedBy(pods, proc.spec)
    BY <2>0, NoneMismatched
  <2> HIDE DEF M
  <2>4. /\ MatchedBy(pods, proc.spec) => MatchedBy(pods', proc.spec)
        /\ ReadIsThere'
    BY <1>0, <2>0, <2>1, FewerMatch DEF StoredShape
  <2>5. S # {} => \E p \in Pools : pods'[p] = Objects!NoPod
    BY <2>1, <2>2
  <2>6. StoredShape'
    BY <1>0, <2>0, <2>1 DEF StoredShape
  <2>7. /\ proc'.pc = "ingress" /\ proc'.spec = proc.spec
        /\ \/ proc' = [pc |-> proc'.pc, spec |-> proc'.spec, todo |-> proc'.todo]
           \/ proc' = [pc |-> proc'.pc, spec |-> proc'.spec, todo |-> proc'.todo, pool |-> proc'.pool]
    BY <1>0, <2>0, ReconcileMoves
  <2>8. HasNodes(proc.spec)' /\ (MatchedBy(pods', proc'.spec) \/ \E p \in Pools : pods'[p] = Objects!NoPod)
    <3>1. MatchedBy(pods, proc.spec) => MatchedBy(pods', proc'.spec)
      BY <2>4, <2>7 DEF MatchedBy
    <3> QED BY <2>0, <2>1, <2>3, <2>5, <2>7, <3>1 DEF HasNodes, MatchedBy
  <2>9. ReconcileKnows'
    BY <2>7, <2>8 DEF ReconcileKnows
  <2> QED BY <1>a, <2>0, <2>4, <2>6, <2>9 DEF ObjectsInv
<1>3. CASE Objects!EnsureIngress
  <2>1. proc.pc = "ingress" /\ UNCHANGED <<spec, maps, perms, pods>> /\ (proc' = Objects!Idle \/ Objects!Goto("service"))
    BY <1>3 DEF Objects!EnsureIngress
  <2>2. ReconcileKnows'
    BY <1>0, <1>c, <2>1, ReconcileMoves, ReconcileEnds
  <2> QED BY <1>a, <1>b, <2>1, <2>2 DEF ObjectsInv
<1>4. CASE Objects!EnsureService
  <2>1. /\ proc.pc = "service" /\ UNCHANGED <<spec, maps, perms, pods>>
        /\ \/ Objects!Goto("pods")
           \/ \E p \in proc.todo : proc' = [pc |-> "maps", spec |-> proc.spec, todo |-> proc.todo \ {p}, pool |-> p]
    BY <1>4 DEF Objects!EnsureService
  <2>2. ASSUME NEW p \in proc.todo, proc' = [pc |-> "maps", spec |-> proc.spec, todo |-> proc.todo \ {p}, pool |-> p]
        PROVE  ReconcileKnows'
    <3>1. /\ proc'.pc = "maps" /\ proc'.spec = proc.spec
          /\ proc' = [pc |-> proc'.pc, spec |-> proc'.spec, todo |-> proc'.todo, pool |-> proc'.pool]
      BY <2>2
    <3> QED BY <1>c, <2>1, <3>1
  <2>3. ReconcileKnows'
    BY <1>0, <1>c, <2>1, <2>2, ReconcileMoves
  <2> QED BY <1>a, <1>b, <2>1, <2>3 DEF ObjectsInv
<1>5. CASE Objects!EnsureConfigMaps
  <2> DEFINE kafka == proc.spec.pools[proc.pool].kafka
  <2>1. /\ proc.pc = "maps" /\ Objects!Goto("budget") /\ UNCHANGED <<spec, pods>>
        /\ maps' = [maps EXCEPT ![proc.pool] = IF kafka = 0 THEN maps[proc.pool] ELSE kafka]
        /\ perms' = IF proc.spec.perms = 0 THEN perms ELSE proc.spec.perms
    BY <1>5 DEF Objects!EnsureConfigMaps
  <2>2. ReconcileKnows'
    BY <1>0, <1>c, <2>1, ReconcileMoves
  <2> HIDE DEF kafka
  <2>3. /\ maps' = [p \in Pools |-> maps'[p]]
        /\ \A p \in Pools : maps[p] # 0 => maps'[p] # 0
    BY <1>0, <2>1 DEF StoredShape
  <2>4. perms # 0 => perms' # 0
    BY <2>1
  <2>5. StoredShape' /\ ReadIsThere'
    BY <1>0, <2>1, <2>3, <2>4 DEF StoredShape, ReadIsThere
  <2> QED BY <1>a, <2>1, <2>2, <2>5 DEF ObjectsInv
<1>6. CASE Objects!ReconcileSinglePDB
  <2>1. proc.pc = "budget" /\ UNCHANGED <<spec, maps, perms, pods>> /\ Objects!Goto("service")
    BY <1>6 DEF Objects!ReconcileSinglePDB
  <2>2. ReconcileKnows'
    BY <1>0, <1>c, <2>1, ReconcileMoves
  <2> QED BY <1>a, <1>b, <2>1, <2>2 DEF ObjectsInv
<1>7. CASE Objects!EnsurePodsExist
  <2>0. proc.pc = "pods" /\ UNCHANGED <<spec, maps, perms>> /\ HasNodes(proc.spec)
    BY <1>0, <1>7 DEF Objects!EnsurePodsExist, ReconcileKnows
  <2> DEFINE W == {p \in Objects!WithNodes(proc.spec) : pods[p] = Objects!NoPod}
  <2>1. CASE W = {} /\ Objects!Goto("clean maps") /\ UNCHANGED pods
    <3>1. \A p \in Pools : pods[p] # Objects!NoPod
      BY <2>0, <2>1, AllHaveNodes
    <3>2. MatchedBy(pods, proc.spec)
      BY <1>0, <2>0, <3>1 DEF ReconcileKnows
    <3>3. ReconcileKnows'
      BY <1>0, <2>0, <2>1, <3>2, ReconcileMoves DEF ReconcileKnows, HasNodes, MatchedBy
    <3> QED BY <1>a, <1>b, <2>0, <2>1, <3>3 DEF ObjectsInv
  <2>2. ASSUME NEW p \in W,
               pods' = [pods EXCEPT ![p] = [kafka |-> IF Objects!Mounts(proc.spec, p).kafka THEN maps[p] ELSE 0,
                                            perms |-> IF Objects!Mounts(proc.spec, p).perms THEN perms ELSE 0]],
               proc' = Objects!Idle
        PROVE  ObjectsInv'
    <3> DEFINE k == IF Objects!Mounts(proc.spec, p).kafka THEN maps[p] ELSE 0
               a == IF Objects!Mounts(proc.spec, p).perms THEN perms ELSE 0
    <3>1. k \in {maps[p], 0} /\ a \in {perms, 0}
      OBVIOUS
    <3> HIDE DEF k, a
    <3>2. pods' = [pods EXCEPT ![p] = [kafka |-> k, perms |-> a]]
      BY <2>2 DEF k, a
    <3>3. StoredShape' /\ ReadIsThere'
      BY <1>0, <2>0, <3>1, <3>2 DEF StoredShape, ReadIsThere
    <3> QED BY <1>a, <2>0, <2>2, <3>3, ReconcileEnds DEF ObjectsInv
  <2> QED BY <1>7, <2>1, <2>2 DEF Objects!EnsurePodsExist
<1>8. CASE Objects!CleanupMaps
  <2>1. /\ proc.pc = "clean maps" /\ Objects!Goto("clean perms") /\ UNCHANGED <<spec, perms, pods>>
        /\ maps' = [p \in Pools |-> IF p \in Objects!Listed(proc.spec) /\ proc.spec.pools[p].kafka = 0 THEN 0 ELSE maps[p]]
    BY <1>8 DEF Objects!CleanupMaps
  <2>2. MatchedBy(pods, proc.spec) /\ HasNodes(proc.spec)
    BY <1>0, <2>1 DEF ReconcileKnows
  <2>3. \A p \in Pools : pods[p].kafka > 0 => maps'[p] # 0
    <3>1. ASSUME NEW p \in Pools, pods[p].kafka > 0, proc.spec.pools[p].kafka = 0 PROVE FALSE
      <4>1. pods[p] # Objects!NoPod
        BY <3>1 DEF Objects!NoPod
      <4>2. pods[p].kafka # 0
        BY <3>1
      <4> QED BY <2>2, <3>1, <4>1, <4>2 DEF MatchedBy
    <3> QED BY <1>0, <2>1, <3>1 DEF ReadIsThere
  <2>4. StoredShape' /\ ReadIsThere'
    BY <1>0, <2>1, <2>3 DEF StoredShape, ReadIsThere
  <2>5. ReconcileKnows'
    BY <1>0, <2>1, <2>2, ReconcileMoves DEF ReconcileKnows, HasNodes, MatchedBy
  <2> QED BY <1>a, <2>1, <2>4, <2>5 DEF ObjectsInv
<1>9. CASE Objects!CleanupPermissions
  <2>1. /\ proc.pc = "clean perms" /\ Objects!Goto("clean services") /\ UNCHANGED <<spec, maps, pods>>
        /\ perms' = IF proc.spec.perms = 0 THEN 0 ELSE perms
    BY <1>9 DEF Objects!CleanupPermissions
  <2>2. MatchedBy(pods, proc.spec) /\ HasNodes(proc.spec)
    BY <1>0, <2>1 DEF ReconcileKnows
  <2>3. \A p \in Pools : pods[p].perms > 0 => perms' # 0
    <3>1. ASSUME NEW p \in Pools, pods[p].perms > 0, proc.spec.perms = 0 PROVE FALSE
      <4>1. pods[p] # Objects!NoPod
        BY <3>1 DEF Objects!NoPod
      <4>2. pods[p].perms # 0
        BY <3>1
      <4> QED BY <2>2, <3>1, <4>1, <4>2 DEF MatchedBy
    <3> QED BY <1>0, <2>1, <3>1 DEF ReadIsThere
  <2>4. StoredShape' /\ ReadIsThere'
    BY <1>0, <2>1, <2>3 DEF StoredShape, ReadIsThere
  <2>5. ReconcileKnows'
    BY <1>0, <2>1, <2>2, ReconcileMoves DEF ReconcileKnows, HasNodes, MatchedBy
  <2> QED BY <1>a, <2>1, <2>4, <2>5 DEF ObjectsInv
<1>10. CASE Objects!CleanupServices \/ Objects!Fault
  <2>1. UNCHANGED <<spec, maps, perms, pods>> /\ proc' = Objects!Idle
    BY <1>10 DEF Objects!CleanupServices, Objects!Fault
  <2> QED BY <1>a, <1>b, <2>1, ReconcileEnds DEF ObjectsInv
<1>d. ASSUME UNCHANGED <<proc, pods>> PROVE ReconcileKnows'
  BY <1>0, <1>d DEF ReconcileKnows, HasNodes, MatchedBy
<1>11. CASE Objects!EditCluster \/ \E p \in Pools : Objects!EditPool(p)
  <2>1. UNCHANGED <<maps, perms, pods, proc>>
    BY <1>11, Zenon DEF Objects!EditCluster, Objects!EditPool, Objects!Edit
  <2>2. ObjectsShape'
    BY <1>0, <1>11, SpecEdited
  <2> QED BY <1>b, <1>d, <2>1, <2>2 DEF ObjectsInv
<1>12. ASSUME NEW p \in Pools, Objects!Lose(p) PROVE ObjectsInv'
  <2>1. UNCHANGED <<spec, maps, perms, proc>> /\ (UNCHANGED pods \/ pods' = [pods EXCEPT ![p] = Objects!NoPod])
    BY <1>12 DEF Objects!Lose
  <2>2. CASE UNCHANGED pods
    BY <1>a, <1>b, <1>d, <2>1, <2>2 DEF ObjectsInv
  <2>3. CASE pods' = [pods EXCEPT ![p] = Objects!NoPod]
    <3>1. pods' = [q \in Pools |-> IF q \in {p} THEN Objects!NoPod ELSE pods[q]]
      BY <1>0, <2>3 DEF StoredShape
    <3>2. /\ MatchedBy(pods, proc.spec) => MatchedBy(pods', proc.spec)
          /\ ReadIsThere'
          /\ \A q \in Pools : pods[q] = Objects!NoPod => pods'[q] = Objects!NoPod
      BY <1>0, <2>1, <3>1, FewerMatch DEF StoredShape
    <3>3. ReconcileKnows'
      BY <1>0, <2>1, <3>2 DEF ReconcileKnows, HasNodes
    <3>4. StoredShape'
      BY <1>0, <2>1, <3>1 DEF StoredShape
    <3> QED BY <1>a, <2>1, <3>2, <3>3, <3>4 DEF ObjectsInv
  <2> QED BY <2>1, <2>2, <2>3
<1>13. CASE UNCHANGED Objects!vars
  BY <1>13, <1>a, <1>b, <1>d DEF Objects!vars, ObjectsInv
<1> QED BY <1>1, <1>2, <1>3, <1>4, <1>5, <1>6, <1>7, <1>8, <1>9, <1>10, <1>11, <1>12, <1>13
      DEF Objects!Next, Objects!Work

LEMMA ObjectsInit == Objects!Init => ObjectsInv
<1> SUFFICES ASSUME Objects!Init PROVE ObjectsInv
  OBVIOUS
<1>1. ReconcileKnows
  BY DEF Objects!Init, Objects!Idle, ReconcileKnows
<1>2. StoredShape
  BY DEF Objects!Init, StoredShape
<1>3. ReadIsThere
  <2>1. \A p \in Pools : pods[p].kafka = -1 /\ pods[p].perms = -1
    BY DEF Objects!Init, Objects!NoPod
  <2>2. ~(-1 > 0)
    OBVIOUS
  <2> QED BY <2>1, <2>2 DEF ReadIsThere
<1>4. ObjectsShape
  <2>1. spec.pools = [p \in Pools |-> [listed |-> TRUE, nodes |-> 1, kafka |-> 1, labels |-> 1, port |-> 1, budget |-> 1]]
    BY DEF Objects!Init
  <2>2. spec = [perms |-> spec.perms, ingress |-> spec.ingress, host |-> spec.host, pools |-> spec.pools]
    BY DEF Objects!Init
  <2> QED BY <2>1, <2>2 DEF ObjectsShape, PoolShape
<1> QED BY <1>1, <1>2, <1>3, <1>4 DEF ObjectsInv

(* As long as all pools keep their nodes and changes of what pods mount are rolled out, the clean-up takes
   no config map away that a pod mounts, for any number of node pools: although it goes by the spec its
   reconcile started with, and files, pods and the spec are changed meanwhile
   (humiocluster_controller.go:2846 to 2886). *)
THEOREM MountedMapsStay ==
  ASSUME ~PodsWait, {"nodes", "listed"} \cap Editable = {}
  PROVE  Objects!Init /\ [][Objects!Next]_(Objects!vars) => [][Objects!MapsKept]_(Objects!vars)
<1>1. ObjectsInv /\ [Objects!Next]_(Objects!vars) => ObjectsInv'
  BY ObjectsStep
<1>2. ObjectsInv' => Objects!MapsKept
  BY DEF ObjectsInv, ReadIsThere, Objects!MapsKept
<1> QED BY <1>1, <1>2, ObjectsInit, PTL

(***************************************************************************)
(* The admin token of a cluster (AdminToken): secrets are read as they     *)
(* are, and Humio answers.                                                 *)
(***************************************************************************)
(* A reconcile that is about to make a token has seen that the one in the secret does not work; only
   the operator makes a token work, so none comes to work in between. *)
AdminShape ==
  /\ seen = secret
  /\ made \in Nat /\ works \in Nat
  /\ op.pc = "rotate" => secret = 0 \/ secret # works
  /\ op = [pc |-> op.pc, desired |-> op.desired, installed |-> op.installed, token |-> op.token]

AdminInv == ~away /\ AdminShape

LEMMA AdminReturn ==
  ASSUME AdminInv, Admin!Return
  PROVE  /\ op' = [pc |-> op'.pc, desired |-> op'.desired, installed |-> op'.installed, token |-> op'.token]
         /\ op'.pc # "rotate"
BY DEF AdminInv, AdminShape, Admin!Return, Admin!Goto, Admin!Idle

LEMMA AdminShapeStep ==
  ASSUME CacheLag = FALSE, AdminInv, [Admin!Next]_(Admin!vars)
  PROVE  AdminShape' /\ Admin!TokenKept
<1> USE DEF AdminShape, Admin!At, Admin!Goto, Admin!Alone, Admin!Idle, Admin!TokenKept
<1>0. ~away /\ AdminShape
  BY DEF AdminInv
<1>1. CASE Admin!EnsureLicenseIsValid
  BY <1>0, <1>1 DEF Admin!EnsureLicenseIsValid
<1>2. CASE Admin!GetLicense
  <2>1. UNCHANGED <<seen, secret, away, made, works>> /\ op.pc = "read"
    BY <1>0, <1>2 DEF Admin!GetLicense
  <2>2. \/ op' = Admin!Idle
        \/ op' = [pc |-> "user", desired |-> op.desired, installed |-> license, token |-> op.token]
    BY <1>0, <1>2 DEF Admin!GetLicense
  <2> QED BY <1>0, <2>1, <2>2
<1>3. CASE Admin!CreateAndGetUser
  BY <1>0, <1>3, AdminReturn DEF Admin!CreateAndGetUser
<1>4. CASE Admin!ValidateAdminSecretContent
  <2>1. Admin!Valid <=> (seen # 0 /\ seen = works)
    BY <1>0 DEF Admin!Valid
  <2>2. CASE Admin!Valid
    BY <1>0, <1>4, <2>2 DEF Admin!ValidateAdminSecretContent
  <2>3. CASE ~Admin!Valid
    BY <1>0, <1>4, <2>1, <2>3 DEF Admin!ValidateAdminSecretContent
  <2> QED BY <2>2, <2>3
<1>5. CASE Admin!RotateUserApiToken
  <2>1. CASE ~user
    BY <1>0, <1>5, <2>1, AdminReturn DEF Admin!RotateUserApiToken
  <2>2. CASE user
    <3>1. /\ made' = made + 1 /\ works' = made + 1
          /\ op' = [op EXCEPT !.pc = "write", !.token = made + 1]
          /\ op.pc = "rotate" /\ UNCHANGED <<seen, secret>>
      BY <1>0, <1>5, <2>2 DEF Admin!RotateUserApiToken
    <3>2. op' = [pc |-> "write", desired |-> op.desired, installed |-> op.installed, token |-> made + 1]
      BY <1>0, <3>1
    <3>3. seen' = secret' /\ made' \in Nat /\ works' \in Nat
      BY <1>0, <3>1
    <3>4. op'.pc # "rotate" /\ op' = [pc |-> op'.pc, desired |-> op'.desired, installed |-> op'.installed, token |-> op'.token]
      BY <3>2
    <3>5. Admin!TokenKept
      BY <1>0, <3>1
    <3> QED BY <3>3, <3>4, <3>5
  <2> QED BY <1>0, <2>1, <2>2
<1>6. CASE Admin!EnsureAdminSecretContent
  BY <1>0, <1>6 DEF Admin!EnsureAdminSecretContent, Admin!Content, Admin!Seen
<1>7. CASE Admin!UpdateLicense
  BY <1>0, <1>7, AdminReturn DEF Admin!UpdateLicense
<1>8. CASE Admin!ShowLicense
  BY <1>0, <1>8 DEF Admin!ShowLicense
<1>9. CASE Admin!CacheCatchesUp \/ Admin!GoAway \/ Admin!ComeBack \/ Admin!Restart
  BY <1>0, <1>9 DEF Admin!CacheCatchesUp, Admin!GoAway, Admin!ComeBack, Admin!Restart
<1>10. CASE Admin!EditLicense \/ Admin!RevokeToken \/ Admin!DeleteUser \/ Admin!DeleteSecret
  BY <1>0, <1>10 DEF Admin!EditLicense, Admin!RevokeToken, Admin!DeleteUser, Admin!DeleteSecret, Admin!Edit
<1>11. CASE UNCHANGED Admin!vars
  BY <1>0, <1>11 DEF Admin!vars
<1> QED BY <1>1, <1>2, <1>3, <1>4, <1>5, <1>6, <1>7, <1>8, <1>9, <1>10, <1>11
      DEF Admin!Next, Admin!Reconcile, Admin!Others

LEMMA HumioAnswers ==
  ASSUME Outages = FALSE, ~away, [Admin!Next]_(Admin!vars)
  PROVE  ~away'
<1>1. CASE UNCHANGED away
  BY <1>1, Zenon
<1>2. CASE Admin!GoAway \/ Admin!ComeBack
  BY <1>2, Zenon DEF Admin!GoAway, Admin!ComeBack
<1> QED BY <1>1, <1>2, Zenon DEF Admin!Next, Admin!Reconcile, Admin!Others, Admin!vars, Admin!Alone, Admin!Edit,
      Admin!EnsureLicenseIsValid, Admin!GetLicense, Admin!CreateAndGetUser, Admin!ValidateAdminSecretContent,
      Admin!RotateUserApiToken, Admin!EnsureAdminSecretContent, Admin!UpdateLicense, Admin!ShowLicense,
      Admin!CacheCatchesUp, Admin!Restart, Admin!EditLicense, Admin!RevokeToken, Admin!DeleteUser,
      Admin!DeleteSecret

LEMMA AdminInit == Admin!Init => AdminInv
BY DEF Admin!Init, Admin!Idle, AdminInv, AdminShape

(* As long as secrets are read as they are and Humio answers, the operator makes a new admin token only
   when the one in the secret does not work, although the token is revoked, the user or the secret deleted
   and the operator restarted at any moment (humiocluster_permission_tokens.go:52 to 147). *)
THEOREM TokenOfAllIsKept ==
  ASSUME CacheLag = FALSE, Outages = FALSE
  PROVE  Admin!Init /\ [][Admin!Next]_(Admin!vars) => [][Admin!TokenKept]_(Admin!vars)
<1>1. AdminInv /\ [Admin!Next]_(Admin!vars) => AdminInv' /\ Admin!TokenKept
  BY AdminShapeStep, HumioAnswers DEF AdminInv
<1> QED BY <1>1, AdminInit, PTL

(***************************************************************************)
(* Ingest tokens (IngestTokens).                                           *)
(***************************************************************************)
(* The worker is in a place that a resource may ask for, and about to delete a token only when its
   resource was deleted, which it stays. *)
IngestInv ==
  /\ edits \in Nat /\ spec \in [CRs -> TokenSpecs]
  /\ cr = [c \in CRs |-> cr[c]]
  /\ tokens = [p \in Repos \X CRs |-> tokens[p]]
  /\ \A p \in Repos \X CRs : tokens[p] = Ingest!None \/ tokens[p] = [token |-> tokens[p].token, parser |-> tokens[p].parser]
  /\ proc.pc # "idle" =>
       /\ proc.cr \in CRs /\ proc.spec.repo \in Repos
       /\ proc = [pc |-> proc.pc, cr |-> proc.cr, spec |-> proc.spec, token |-> proc.token]
       /\ proc.pc = "delete" => cr[proc.cr] = "deleted"
  /\ proc.pc \in {"idle", "create", "parser", "token", "secret", "delete"}

(* Where the worker is after it took up a resource. *)
LEMMA IngestGoto ==
  ASSUME Ingest!IngestAssumption, IngestInv, NEW c \in CRs, UNCHANGED cr,
         \/ proc' = Ingest!Idle
         \/ proc' = Ingest!Goto("delete", c) /\ cr[c] = "deleted"
         \/ \E pc \in {"create", "parser", "token"} : proc' = Ingest!Goto(pc, c)
  PROVE  /\ proc'.pc # "idle" =>
              /\ proc'.cr \in CRs /\ proc'.spec.repo \in Repos
              /\ proc' = [pc |-> proc'.pc, cr |-> proc'.cr, spec |-> proc'.spec, token |-> proc'.token]
              /\ proc'.pc = "delete" => cr'[proc'.cr] = "deleted"
         /\ proc'.pc \in {"idle", "create", "parser", "token", "secret", "delete"}
BY DEF IngestInv, Ingest!Goto, Ingest!Idle, Ingest!IngestAssumption

LEMMA IngestStep ==
  ASSUME Ingest!IngestAssumption, IngestInv, [Ingest!Next]_(Ingest!vars)
  PROVE  IngestInv' /\ Ingest!TokensKept
<1> USE DEF Ingest!Alone
<1> DEFINE worker == /\ proc.pc # "idle" =>
                           /\ proc.cr \in CRs /\ proc.spec.repo \in Repos
                           /\ proc = [pc |-> proc.pc, cr |-> proc.cr, spec |-> proc.spec, token |-> proc.token]
                           /\ proc.pc = "delete" => cr[proc.cr] = "deleted"
                     /\ proc.pc \in {"idle", "create", "parser", "token", "secret", "delete"}
           shape == \A p \in Repos \X CRs :
                      tokens[p] = Ingest!None \/ tokens[p] = [token |-> tokens[p].token, parser |-> tokens[p].parser]
<1>0. worker /\ shape
  BY DEF IngestInv
<1>a. ASSUME UNCHANGED <<tokens, edits, spec>>, worker', cr' = [c \in CRs |-> cr'[c]]
      PROVE  IngestInv' /\ Ingest!TokensKept
  BY <1>a DEF IngestInv, Ingest!TokensKept
<1>b. ASSUME UNCHANGED <<edits, spec, cr>>, NEW p \in Repos \X CRs, NEW t, tokens' = [tokens EXCEPT ![p] = t],
             t = [token |-> t.token, parser |-> t.parser],
             tokens[p] = Ingest!None \/ t.token = tokens[p].token, t # Ingest!None, worker'
      PROVE  IngestInv' /\ Ingest!TokensKept
  <2>1. tokens' = [q \in Repos \X CRs |-> IF q = p THEN t ELSE tokens[q]]
    BY <1>b DEF IngestInv
  <2>2. shape'
    BY <1>0, <1>b, <2>1
  <2>3. Ingest!TokensKept
    BY <1>b, <2>1 DEF Ingest!TokensKept
  <2> QED BY <1>b, <2>1, <2>2, <2>3 DEF IngestInv
<1>c. ASSUME proc' = Ingest!Idle PROVE worker'
  BY <1>c DEF Ingest!Idle
<1>d. ASSUME proc.pc # "idle" PROVE Ingest!Place \in Repos \X CRs
  BY <1>0, <1>d DEF Ingest!Place
<1> HIDE DEF worker, shape
<1>1. ASSUME NEW c \in CRs, Ingest!Reconcile(c) PROVE IngestInv' /\ Ingest!TokensKept
  <2>1. proc' = Ingest!Idle \/ \E pc \in {"create", "parser", "token"} : proc' = Ingest!Goto(pc, c)
    BY <1>1 DEF Ingest!Reconcile, Ingest!AfterUpdate
  <2>2. worker'
    BY <1>1, <2>1, IngestGoto DEF Ingest!Reconcile, worker
  <2> QED BY <1>1, <1>a, <2>2 DEF Ingest!Reconcile, IngestInv
<1>2. ASSUME NEW c \in CRs, Ingest!ReconcileDeleted(c) PROVE IngestInv' /\ Ingest!TokensKept
  <2>1. CASE UNCHANGED cr /\ proc' = Ingest!Goto("delete", c)
    <3>1. worker'
      BY <1>2, <2>1, IngestGoto DEF Ingest!ReconcileDeleted, worker
    <3> QED BY <1>2, <1>a, <2>1, <3>1 DEF Ingest!ReconcileDeleted, IngestInv
  <2>2. CASE cr' = [cr EXCEPT ![c] = "gone"] /\ UNCHANGED proc
    <3>1. worker'
      BY <1>2, <1>c, <2>2 DEF Ingest!ReconcileDeleted
    <3> QED BY <1>2, <1>a, <2>2, <3>1 DEF Ingest!ReconcileDeleted, IngestInv
  <2> QED BY <1>2, <2>1, <2>2 DEF Ingest!ReconcileDeleted
<1>3. CASE Ingest!AddIngestToken
  <2>1. proc.pc # "idle" /\ UNCHANGED <<cr, spec, edits>> /\ worker'
    BY <1>3, <1>c DEF Ingest!AddIngestToken
  <2>2. CASE UNCHANGED tokens
    BY <1>a, <2>1, <2>2 DEF IngestInv
  <2>3. CASE /\ tokens[Ingest!Place] = Ingest!None
             /\ tokens' = [tokens EXCEPT ![Ingest!Place] = [token |-> made + 1, parser |-> proc.spec.parser]]
    <3> DEFINE t == [token |-> made + 1, parser |-> proc.spec.parser]
    <3>1. t = [token |-> t.token, parser |-> t.parser] /\ t # Ingest!None
      <4>1. DOMAIN t # DOMAIN Ingest!None
        BY DEF Ingest!None
      <4> QED BY <4>1
    <3> HIDE DEF t
    <3>2. tokens' = [tokens EXCEPT ![Ingest!Place] = t]
      BY <2>3 DEF t
    <3> QED BY <1>b, <1>d, <2>1, <2>3, <3>1, <3>2
  <2> QED BY <1>3, <2>2, <2>3 DEF Ingest!AddIngestToken
<1>4. CASE Ingest!UpdateIngestToken
  <2>1. proc.pc = "parser" /\ UNCHANGED <<cr, spec, edits>>
    BY <1>4 DEF Ingest!UpdateIngestToken
  <2>2. CASE tokens[Ingest!Place] = Ingest!None
    <3>1. proc' = Ingest!Idle /\ UNCHANGED tokens
      BY <1>4, <2>2 DEF Ingest!UpdateIngestToken
    <3> QED BY <1>a, <1>c, <2>1, <3>1 DEF IngestInv
  <2>3. CASE tokens[Ingest!Place] # Ingest!None
    <3> DEFINE old == tokens[Ingest!Place]
               t == [token |-> old.token, parser |-> proc.spec.parser]
    <3>1. old = [token |-> old.token, parser |-> old.parser]
      BY <1>0, <1>d, <2>1, <2>3 DEF shape
    <3>2. t = [token |-> t.token, parser |-> t.parser] /\ t # Ingest!None /\ t.token = old.token
      <4>1. DOMAIN t # DOMAIN Ingest!None
        BY DEF Ingest!None
      <4> QED BY <4>1
    <3>3. [old EXCEPT !.parser = proc.spec.parser] = t
      BY <3>1
    <3>4. tokens' = [tokens EXCEPT ![Ingest!Place] = t]
      BY <1>4, <2>3, <3>3 DEF Ingest!UpdateIngestToken
    <3>5. worker'
      <4>1. proc' = Ingest!Idle \/ proc' = [proc EXCEPT !.pc = "token"]
        BY <1>4, <2>3 DEF Ingest!UpdateIngestToken
      <4>2. CASE proc' = [proc EXCEPT !.pc = "token"]
        BY <1>0, <2>1, <4>2 DEF worker
      <4> QED BY <1>c, <4>1, <4>2
    <3> HIDE DEF t
    <3> QED BY <1>b, <1>d, <2>1, <3>2, <3>4, <3>5
  <2> QED BY <2>2, <2>3
<1>5. CASE Ingest!GetIngestToken
  <2>1. worker'
    <3>1. CASE proc' = Ingest!Idle
      BY <1>c, <3>1
    <3>2. CASE proc' = [proc EXCEPT !.pc = "secret", !.token = tokens[Ingest!Place].token]
      BY <1>0, <1>5, <3>2 DEF worker, Ingest!GetIngestToken
    <3> QED BY <1>5, <3>1, <3>2 DEF Ingest!GetIngestToken
  <2> QED BY <1>5, <1>a, <2>1 DEF Ingest!GetIngestToken, IngestInv
<1>6. CASE Ingest!EnsureSecret
  BY <1>6, <1>a, <1>c DEF Ingest!EnsureSecret, IngestInv
<1>7. CASE Ingest!DeleteIngestToken
  <2>1. /\ proc.pc = "delete" /\ UNCHANGED <<cr, spec, edits>> /\ worker'
        /\ tokens' = [tokens EXCEPT ![Ingest!Place] = Ingest!None]
    BY <1>7, <1>c DEF Ingest!DeleteIngestToken
  <2>2. Ingest!Place[2] = proc.cr /\ cr[proc.cr] = "deleted" /\ Ingest!Place \in Repos \X CRs
    BY <1>0, <1>d, <2>1 DEF Ingest!Place, worker
  <2> DEFINE place == Ingest!Place
  <2> HIDE DEF place
  <2>3. tokens' = [q \in Repos \X CRs |-> IF q = place THEN Ingest!None ELSE tokens[q]]
    BY <2>1 DEF IngestInv, place
  <2>4. shape'
    BY <1>0, <2>3 DEF shape
  <2>5. Ingest!TokensKept
    BY <2>2, <2>3 DEF Ingest!TokensKept, place
  <2> QED BY <2>1, <2>3, <2>4, <2>5 DEF IngestInv, worker, shape
<1>8. CASE Ingest!Fault
  BY <1>8, <1>a, <1>c DEF Ingest!Fault, IngestInv
<1>9. ASSUME NEW s \in Ingest!SecretNames, Ingest!CollectSecret(s) PROVE IngestInv' /\ Ingest!TokensKept
  <2>1. UNCHANGED <<cr, spec, tokens, proc, edits>>
    BY <1>9 DEF Ingest!CollectSecret
  <2> QED BY <1>0, <1>a, <2>1 DEF worker, IngestInv
\* What others do.
<1>10. ASSUME Ingest!Edit PROVE edits' \in Nat /\ edits' # edits /\ proc' = proc
  BY <1>10 DEF Ingest!Edit, IngestInv
<1>11. ASSUME NEW c \in CRs, Ingest!EditSpec(c) \/ Ingest!DeleteResource(c)
       PROVE  IngestInv' /\ Ingest!TokensKept
  <2>1. spec' \in [CRs -> TokenSpecs] /\ UNCHANGED tokens /\ Ingest!Edit
    BY <1>11 DEF IngestInv, Ingest!EditSpec, Ingest!DeleteResource
  <2>2. /\ cr' = [d \in CRs |-> cr'[d]]
        /\ \A d \in CRs : cr[d] = "deleted" => cr'[d] = "deleted"
    BY <1>11 DEF IngestInv, Ingest!EditSpec, Ingest!DeleteResource
  <2>3. worker'
    BY <1>0, <1>10, <2>1, <2>2 DEF worker
  <2> QED BY <1>10, <2>1, <2>2, <2>3 DEF IngestInv, Ingest!TokensKept, worker
<1>12. ASSUME NEW p \in Repos \X CRs, Ingest!RevokeToken(p) PROVE IngestInv' /\ Ingest!TokensKept
  <2>1. tokens' = [q \in Repos \X CRs |-> IF q = p THEN Ingest!None ELSE tokens[q]] /\ UNCHANGED <<cr, spec>> /\ Ingest!Edit
    BY <1>12 DEF IngestInv, Ingest!RevokeToken
  <2>2. shape'
    BY <1>0, <2>1 DEF shape
  <2>3. worker'
    BY <1>0, <1>10, <2>1 DEF worker
  <2> QED BY <1>10, <2>1, <2>2, <2>3 DEF IngestInv, Ingest!TokensKept, worker, shape
<1>13. ASSUME NEW s \in Ingest!SecretNames, Ingest!DeleteSecret(s) PROVE IngestInv' /\ Ingest!TokensKept
  <2>1. UNCHANGED <<cr, spec, tokens>> /\ Ingest!Edit
    BY <1>13 DEF Ingest!DeleteSecret
  <2>2. worker'
    BY <1>0, <1>10, <2>1 DEF worker
  <2> QED BY <1>10, <2>1, <2>2 DEF IngestInv, Ingest!TokensKept, worker
<1>14. ASSUME NEW r \in Repos, Ingest!DeleteRepo(r) PROVE IngestInv' /\ Ingest!TokensKept
  <2>1. /\ tokens' = [p \in Repos \X CRs |-> IF p[1] = r THEN Ingest!None ELSE tokens[p]]
        /\ UNCHANGED <<cr, spec>> /\ Ingest!Edit
    BY <1>14 DEF Ingest!DeleteRepo
  <2>2. shape'
    BY <1>0, <2>1 DEF shape
  <2>3. worker'
    BY <1>0, <1>10, <2>1 DEF worker
  <2> QED BY <1>10, <2>1, <2>2, <2>3 DEF IngestInv, Ingest!TokensKept, worker, shape
<1>15. CASE UNCHANGED Ingest!vars
  BY <1>0, <1>15, <1>a DEF Ingest!vars, IngestInv, worker
<1> QED BY <1>1, <1>2, <1>3, <1>4, <1>5, <1>6, <1>7, <1>8, <1>9, <1>11, <1>12, <1>13, <1>14, <1>15
      DEF Ingest!Next, Ingest!Work, Ingest!Others

LEMMA IngestInit == Ingest!Init => IngestInv
BY DEF Ingest!Init, Ingest!Idle, IngestInv

(* As long as nothing else is done to Humio, those who send with an ingest token may go on: the operator
   takes none away and replaces none but that of a resource that was deleted, whatever is edited between
   its reading and its writing (humioingesttoken_controller.go:96 to 171, src/internal/humio/client.go:465 to 534). *)
THEOREM SendersGoOn ==
  ASSUME Ingest!IngestAssumption
  PROVE  Ingest!Init /\ [][Ingest!Next]_(Ingest!vars) => [][Ingest!TokensKept]_(Ingest!vars)
<1>1. IngestInv /\ [Ingest!Next]_(Ingest!vars) => IngestInv' /\ Ingest!TokensKept
  BY IngestStep
<1> QED BY <1>1, IngestInit, PTL

(***************************************************************************)
(* Permission roles (RoleAssignments).                                     *)
(***************************************************************************)
(* What is taken from a role while it is updated is nothing that the resource, as it was read, gives it. *)
RolesInv ==
  /\ proc.pc # "idle" =>
       proc = [pc |-> proc.pc, role |-> proc.role, spec |-> proc.spec, take |-> proc.take, give |-> proc.give]
  /\ proc.pc \in {"permissions", "assignments"} =>
       proc.take \subseteq Assignments!Places /\ proc.take \cap proc.spec.places = {}

LEMMA SeenArePlaces ==
  ASSUME NEW r
  PROVE  Assignments!Seen(r) \subseteq Assignments!Places
<1>1. Assignments!PlacesOf(r) \subseteq Groups \X Views
  BY DEF Assignments!PlacesOf, Assignments!Places
<1> QED BY <1>1, Zenon DEF Assignments!Seen, Assignments!Places

\* What a role was given to, it still is after it is given to more.
LEMMA GivenStays ==
  ASSUME NEW r, NEW p, NEW q, <<r, q[1], q[2]>> \in assigned
  PROVE  <<r, q[1], q[2]>> \in Assignments!Give(r, p)
<1>1. CASE q[1] = p[1] /\ q[2] = p[2]
  BY <1>1 DEF Assignments!Give
<1>2. CASE ~(q[1] = p[1] /\ q[2] = p[2])
  <2> DEFINE a == <<r, q[1], q[2]>>
  <2>1. a \in assigned /\ a[2] = q[1] /\ a[3] = q[2]
    OBVIOUS
  <2> HIDE DEF a
  <2>2. a \in Assignments!Give(r, p)
    BY <1>2, <2>1 DEF Assignments!Give
  <2> QED BY <2>2 DEF a
<1> QED BY <1>1, <1>2

LEMMA RolesStep ==
  ASSUME ~ViewRoles \/ OtherRoles = {}, RolesInv, [Assignments!Next]_(Assignments!vars)
  PROVE  RolesInv' /\ Assignments!NotInterrupted
<1> USE DEF Assignments!Alone
<1>a. ASSUME UNCHANGED assigned PROVE Assignments!NotInterrupted
  BY <1>a DEF Assignments!NotInterrupted, Assignments!PlacesOf
<1>b. ASSUME proc.pc # "assignments" PROVE Assignments!NotInterrupted
  BY <1>b DEF Assignments!NotInterrupted
<1>c. ASSUME proc' = Assignments!Idle PROVE RolesInv'
  BY <1>c DEF RolesInv, Assignments!Idle
<1>d. ASSUME UNCHANGED proc PROVE RolesInv'
  BY <1>d DEF RolesInv
<1>e. Assignments!Idle.pc = "idle"
  BY DEF Assignments!Idle
<1>1. ASSUME NEW r \in Roles, Assignments!Reconcile(r) PROVE RolesInv' /\ Assignments!NotInterrupted
  <2>1. \/ proc' = Assignments!Idle
        \/ \E pc \in {"create", "list"} : proc' = Assignments!Goto(pc, r, spec[r])
    BY <1>1 DEF Assignments!Reconcile
  <2>2. RolesInv'
    BY <1>c, <2>1 DEF RolesInv, Assignments!Goto
  <2> QED BY <1>1, <1>a, <2>2 DEF Assignments!Reconcile
<1>2. ASSUME NEW r \in Roles, Assignments!ReconcileDeleted(r) PROVE RolesInv' /\ Assignments!NotInterrupted
  <2>1. CASE UNCHANGED proc
    BY <1>2, <1>a, <1>d, <2>1 DEF Assignments!ReconcileDeleted
  <2>2. CASE proc' = Assignments!Finalize(r)
    <3>1. proc' = [pc |-> "unassign", role |-> r, spec |-> spec[r], take |-> Assignments!Seen(r), give |-> {}]
      BY <2>2 DEF Assignments!Finalize, Assignments!Goto
    <3> QED BY <1>2, <1>a, <3>1 DEF Assignments!ReconcileDeleted, RolesInv
  <2> QED BY <1>2, <2>1, <2>2 DEF Assignments!ReconcileDeleted
<1>3. CASE Assignments!AddRole \/ Assignments!DeleteRole
  BY <1>3, <1>a, <1>c DEF Assignments!AddRole, Assignments!DeleteRole
<1>4. CASE Assignments!ListRoles
  <2> DEFINE held == Assignments!Seen(proc.role)
  <2>1. \E pc \in {"permissions", "assignments"} :
          proc' = [proc EXCEPT !.take = held \ proc.spec.places, !.give = proc.spec.places \ held, !.pc = pc]
    BY <1>4 DEF Assignments!ListRoles, Assignments!Difference
  <2>2. held \subseteq Assignments!Places
    BY SeenArePlaces
  <2>3. proc = [pc |-> "list", role |-> proc.role, spec |-> proc.spec, take |-> proc.take, give |-> proc.give]
    BY <1>4 DEF Assignments!ListRoles, RolesInv
  <2> HIDE DEF held
  <2>4. PICK pc \in {"permissions", "assignments"} :
          proc' = [pc |-> pc, role |-> proc.role, spec |-> proc.spec,
                   take |-> held \ proc.spec.places, give |-> proc.spec.places \ held]
    BY <2>1, <2>3
  <2>5. RolesInv'
    BY <2>2, <2>4 DEF RolesInv, Assignments!Places
  <2> QED BY <1>4, <1>a, <2>5 DEF Assignments!ListRoles
<1>5. CASE Assignments!UpdateRole
  <2>1. proc' = [pc |-> "assignments", role |-> proc.role, spec |-> proc.spec, take |-> proc.take, give |-> proc.give]
    BY <1>5 DEF Assignments!UpdateRole, RolesInv
  <2>2. RolesInv'
    BY <1>5, <2>1 DEF Assignments!UpdateRole, RolesInv, Assignments!Places
  <2> QED BY <1>5, <1>a, <2>2 DEF Assignments!UpdateRole
<1>6. CASE Assignments!Unassign
  <2>1. PICK p \in proc.take : /\ assigned' = Assignments!Take(proc.role, p)
                               /\ proc' = [proc EXCEPT !.take = proc.take \ {p}]
    BY <1>6 DEF Assignments!Unassign
  <2>2. proc' = [pc |-> proc.pc, role |-> proc.role, spec |-> proc.spec, take |-> proc.take \ {p}, give |-> proc.give]
    BY <1>6, <2>1 DEF Assignments!Unassign, RolesInv
  <2>3. RolesInv'
    BY <2>2 DEF RolesInv, Assignments!Places
  <2>4. Assignments!NotInterrupted
    <3> SUFFICES ASSUME NEW r \in Roles, NEW q \in Assignments!PlacesOf(r), proc.role = r,
                        proc.pc = "assignments", q \in proc.spec.places
                 PROVE  <<r, q[1], q[2]>> \in assigned'
      BY DEF Assignments!NotInterrupted
    <3>1. p \in Assignments!Places /\ p # q
      BY DEF RolesInv
    <3>2. q \in Assignments!Places /\ <<r, q[1], q[2]>> \in assigned
      BY DEF Assignments!PlacesOf
    <3>3. <<r, q[1], q[2]>> # <<r, p[1], p[2]>>
      BY <3>1, <3>2 DEF Assignments!Places
    <3> QED BY <2>1, <3>2, <3>3 DEF Assignments!Take
  <2> QED BY <2>3, <2>4
<1>7. CASE Assignments!Assign
  <2>1. PICK p \in proc.give :
          \/ /\ assigned' = Assignments!Give(proc.role, p)
             /\ proc' = [proc EXCEPT !.give = proc.give \ {p}]
          \/ UNCHANGED assigned /\ proc' = Assignments!Idle
    BY <1>7 DEF Assignments!Assign
  <2>2. CASE UNCHANGED assigned /\ proc' = Assignments!Idle
    BY <1>a, <1>c, <2>2
  <2>3. CASE /\ assigned' = Assignments!Give(proc.role, p)
             /\ proc' = [proc EXCEPT !.give = proc.give \ {p}]
    <3>1. proc' = [pc |-> proc.pc, role |-> proc.role, spec |-> proc.spec, take |-> proc.take, give |-> proc.give \ {p}]
      BY <1>7, <2>3 DEF Assignments!Assign, RolesInv
    <3>2. RolesInv'
      BY <1>7, <3>1 DEF RolesInv, Assignments!Assign, Assignments!Places
    <3>3. Assignments!NotInterrupted
      BY <2>3, GivenStays DEF Assignments!NotInterrupted, Assignments!PlacesOf
    <3> QED BY <3>2, <3>3
  <2> QED BY <2>1, <2>2, <2>3
<1>8. CASE Assignments!Done
  BY <1>8, <1>a, <1>c DEF Assignments!Done
<1>9. CASE Assignments!Unassigned
  <2>1. proc' = [pc |-> "delete", role |-> proc.role, spec |-> proc.spec, take |-> proc.take, give |-> proc.give]
    BY <1>9 DEF Assignments!Unassigned, RolesInv
  <2> QED BY <1>9, <1>a, <2>1 DEF Assignments!Unassigned, RolesInv
<1>10. CASE Assignments!Fault
  BY <1>10, <1>a, <1>c DEF Assignments!Fault
<1>11. ASSUME NEW r \in Roles, Assignments!EditSpec(r) \/ Assignments!DeleteResource(r)
       PROVE  RolesInv' /\ Assignments!NotInterrupted
  BY <1>11, <1>a, <1>d DEF Assignments!EditSpec, Assignments!DeleteResource, Assignments!Edit
<1>12. ASSUME NEW q \in OtherRoles, Assignments!AssignOther(q) PROVE RolesInv' /\ Assignments!NotInterrupted
  <2>1. PICK p : assigned' = Assignments!Give(q, p)
    BY <1>12 DEF Assignments!AssignOther
  <2>2. assigned \subseteq assigned'
    BY <1>12, <2>1 DEF Assignments!Give
  <2>3. Assignments!NotInterrupted
    BY <2>2 DEF Assignments!NotInterrupted, Assignments!PlacesOf
  <2> QED BY <1>12, <1>d, <2>3 DEF Assignments!AssignOther, Assignments!Edit
<1>13. ASSUME NEW g \in Groups, Assignments!GroupGoes(g) PROVE RolesInv' /\ Assignments!NotInterrupted
  <2>1. assigned' = {a \in assigned : a[2] # g} /\ groups' = groups \ {g} /\ UNCHANGED proc
    BY <1>13 DEF Assignments!GroupGoes, Assignments!Edit
  <2>2. Assignments!NotInterrupted
    <3> SUFFICES ASSUME NEW r \in Roles, NEW q \in Assignments!PlacesOf(r), q[1] \in groups'
                 PROVE  <<r, q[1], q[2]>> \in assigned'
      BY DEF Assignments!NotInterrupted
    <3> DEFINE a == <<r, q[1], q[2]>>
    <3>1. a \in assigned /\ a[2] = q[1]
      BY DEF Assignments!PlacesOf
    <3> HIDE DEF a
    <3>2. a \in assigned'
      BY <2>1, <3>1
    <3> QED BY <3>2 DEF a
  <2> QED BY <1>d, <2>1, <2>2
<1>14. ASSUME NEW g \in Groups, Assignments!GroupComes(g) PROVE RolesInv' /\ Assignments!NotInterrupted
  BY <1>14, <1>a, <1>d DEF Assignments!GroupComes
<1>15. CASE UNCHANGED Assignments!vars
  BY <1>15, <1>a, <1>d DEF Assignments!vars
<1> QED BY <1>1, <1>2, <1>3, <1>4, <1>5, <1>6, <1>7, <1>8, <1>9, <1>10, <1>11, <1>12, <1>13, <1>14, <1>15
      DEF Assignments!Next, Assignments!Work

LEMMA RolesInit == Assignments!Init => RolesInv
BY DEF Assignments!Init, Assignments!Idle, RolesInv

(* While a role is updated, no group loses it that had it and keeps it by the resource as it was read,
   for any number of roles, groups and views, whatever is edited meanwhile: as long as nobody else gives
   those groups another role in the same view, which replaces it in Humio (src/internal/humio/client.go:3020 to 3086). *)
THEOREM GroupsKeepTheirRoles ==
  ASSUME ~ViewRoles \/ OtherRoles = {}
  PROVE  Assignments!Init /\ [][Assignments!Next]_(Assignments!vars) => [][Assignments!NotInterrupted]_(Assignments!vars)
<1>1. RolesInv /\ [Assignments!Next]_(Assignments!vars) => RolesInv' /\ Assignments!NotInterrupted
  BY RolesStep
<1> QED BY <1>1, RolesInit, PTL

(***************************************************************************)
(* Connections of multi cluster search views (SearchConnections).          *)
(***************************************************************************)
(* While connections are added, those that were read are there, and those that were added; when others
   are taken away, all that the resource asks for. *)
ConnectionsShape ==
  /\ view = [conns |-> view.conns, search |-> view.search]
  /\ view.conns = [i \in Ids |-> view.conns[i]]
WorkerKnows ==
  /\ proc.pc # "idle" =>
       proc = [pc |-> proc.pc, spec |-> proc.spec, tokens |-> proc.tokens, seen |-> proc.seen, done |-> proc.done]
  /\ proc.pc \in {"create", "read", "new", "search", "add"} =>
       Connections!There(proc.seen.conns) \subseteq Connections!There(view.conns)
  /\ proc.pc = "add" => proc.done \subseteq Connections!There(view.conns)
  /\ proc.pc = "remove" => Connections!There(proc.spec.conns) \subseteq Connections!There(view.conns)
ConnectionsInv == ConnectionsShape /\ WorkerKnows

LEMMA ConnectionIsThere ==
  ASSUME NEW k, NEW x, NEW y, NEW z
  PROVE  [kind |-> k, target |-> x, tag |-> y, token |-> z] # Connections!None
<1> DEFINE c == [kind |-> k, target |-> x, tag |-> y, token |-> z]
<1>1. "tag" \in DOMAIN c /\ "tag" \notin DOMAIN Connections!None
  BY DEF Connections!None
<1> HIDE DEF c
<1>2. c # Connections!None
  BY <1>1
<1> QED BY <1>2 DEF c

LEMMA ToShape ==
  ASSUME ConnectionsInv, proc.pc # "idle", NEW pc
  PROVE  Connections!To(pc) = [pc |-> pc, spec |-> proc.spec, tokens |-> proc.tokens, seen |-> proc.seen, done |-> {}]
<1>1. proc = [pc |-> proc.pc, spec |-> proc.spec, tokens |-> proc.tokens, seen |-> proc.seen, done |-> proc.done]
  BY DEF ConnectionsInv, WorkerKnows
<1>2. [proc EXCEPT !.pc = pc] = [pc |-> pc, spec |-> proc.spec, tokens |-> proc.tokens, seen |-> proc.seen, done |-> proc.done]
  BY <1>1
<1> DEFINE moved == [proc EXCEPT !.pc = pc]
<1>3. Connections!To(pc) = [moved EXCEPT !.done = {}]
  BY DEF Connections!To
<1> HIDE DEF moved
<1>4. moved = [pc |-> pc, spec |-> proc.spec, tokens |-> proc.tokens, seen |-> proc.seen, done |-> proc.done]
  BY <1>2 DEF moved
<1> QED BY <1>3, <1>4

\* The view gets or changes one connection.
LEMMA OneWritten ==
  ASSUME ConnectionsShape, NEW i \in Ids, NEW c, view' = [view EXCEPT !.conns[i] = c]
  PROVE  /\ ConnectionsShape'
         /\ \A j \in Ids : view'.conns[j] = IF j = i THEN c ELSE view.conns[j]
<1> DEFINE g == [view.conns EXCEPT ![i] = c]
<1>1. view' = [conns |-> g, search |-> view.search]
  BY DEF ConnectionsShape
<1>2. g = [j \in Ids |-> IF j = i THEN c ELSE view.conns[j]]
  BY DEF ConnectionsShape
<1> HIDE DEF g
<1>3. view'.conns = g /\ view'.search = view.search
  BY <1>1
<1>4. view' = [conns |-> view'.conns, search |-> view'.search]
  BY <1>1, <1>3
<1>5. view'.conns = [j \in Ids |-> view'.conns[j]]
  BY <1>2, <1>3
<1> QED BY <1>2, <1>3, <1>4, <1>5 DEF ConnectionsShape

LEMMA ConnectionsStep ==
  ASSUME ConnectionsInv, [Connections!Next]_(Connections!vars)
  PROVE  ConnectionsInv' /\ Connections!AddedFirst
<1> USE DEF Connections!Alone
<1>a. ASSUME UNCHANGED view PROVE Connections!AddedFirst /\ ConnectionsShape'
  BY <1>a DEF Connections!AddedFirst, ConnectionsInv, ConnectionsShape, Connections!There
<1>b. ASSUME proc' = Connections!Idle PROVE WorkerKnows'
  <2>1. proc'.pc = "idle"
    BY <1>b DEF Connections!Idle
  <2> QED BY <2>1 DEF WorkerKnows
<1>c. Connections!Idle.pc = "idle"
  BY DEF Connections!Idle
<1>1. CASE Connections!Reconcile
  <2>1. \/ proc' = Connections!Idle
        \/ \E pc \in {"create", "read"} : proc' = Connections!Goto(pc)
    BY <1>1 DEF Connections!Reconcile
  <2>2. ASSUME NEW pc \in {"create", "read"}, proc' = Connections!Goto(pc) PROVE WorkerKnows'
    <3>1. proc' = [pc |-> pc, spec |-> spec, tokens |-> Connections!TokensOf(spec), seen |-> Connections!NoView, done |-> {}]
      BY <2>2 DEF Connections!Goto
    <3>2. Connections!There(Connections!NoView.conns) = {}
      BY DEF Connections!There, Connections!NoView
    <3> QED BY <3>1, <3>2 DEF WorkerKnows
  <2> QED BY <1>1, <1>a, <1>b, <2>1, <2>2 DEF Connections!Reconcile, ConnectionsInv
<1>2. CASE Connections!CreateView
  <2>1. proc' = [pc |-> "new", spec |-> proc.spec, tokens |-> proc.tokens, seen |-> proc.seen, done |-> {}]
    BY <1>2, ToShape DEF Connections!CreateView
  <2>2. WorkerKnows'
    BY <1>2, <2>1 DEF ConnectionsInv, WorkerKnows, Connections!CreateView, Connections!There
  <2> QED BY <1>2, <1>a, <2>2 DEF Connections!CreateView, ConnectionsInv
<1>3. CASE Connections!ReadView
  <2>1. proc' = [pc |-> "search", spec |-> proc.spec, tokens |-> proc.tokens, seen |-> view, done |-> {}]
    BY <1>3, ToShape DEF Connections!ReadView
  <2>2. WorkerKnows'
    BY <1>3, <2>1 DEF WorkerKnows, Connections!ReadView, Connections!There
  <2> QED BY <1>3, <1>a, <2>2 DEF Connections!ReadView, ConnectionsInv
<1>4. CASE Connections!SetAutomaticSearching
  <2>1. proc' = [pc |-> "add", spec |-> proc.spec, tokens |-> proc.tokens, seen |-> proc.seen, done |-> {}]
    BY <1>4, ToShape DEF Connections!SetAutomaticSearching
  <2>2. view' = [conns |-> view.conns, search |-> proc.spec.search]
    BY <1>4 DEF Connections!SetAutomaticSearching, ConnectionsInv, ConnectionsShape
  <2>3. view'.conns = view.conns
    BY <2>2
  <2>4. WorkerKnows'
    BY <1>4, <2>1, <2>3 DEF ConnectionsInv, WorkerKnows, Connections!SetAutomaticSearching, Connections!There
  <2>5. ConnectionsShape'
    BY <2>2, <2>3 DEF ConnectionsInv, ConnectionsShape
  <2> QED BY <2>3, <2>4, <2>5 DEF ConnectionsInv, Connections!AddedFirst, Connections!There
<1>5. CASE Connections!CreateConnection
  <2>1. PICK i \in Connections!Missing \ proc.done :
          /\ view' = [view EXCEPT !.conns[i] = Connections!Want(i)]
          /\ proc' = [proc EXCEPT !.done = proc.done \cup {i}]
    BY <1>5 DEF Connections!CreateConnection
  <2>2. i \in Ids
    BY DEF Connections!Missing, Connections!There
  <2>3. Connections!Want(i) # Connections!None
    BY ConnectionIsThere DEF Connections!Want, Connections!Expected
  <2>4. /\ ConnectionsShape'
        /\ \A j \in Ids : view'.conns[j] = IF j = i THEN Connections!Want(i) ELSE view.conns[j]
    BY <2>1, <2>2, OneWritten DEF ConnectionsInv
  <2>5. Connections!There(view'.conns) = Connections!There(view.conns) \cup {i}
    BY <2>2, <2>3, <2>4 DEF Connections!There
  <2>6. proc' = [pc |-> "add", spec |-> proc.spec, tokens |-> proc.tokens, seen |-> proc.seen, done |-> proc.done \cup {i}]
    BY <1>5, <2>1 DEF Connections!CreateConnection, ConnectionsInv, WorkerKnows
  <2>7. /\ Connections!There(proc.seen.conns) \subseteq Connections!There(view.conns)
        /\ proc.done \subseteq Connections!There(view.conns)
    BY <1>5 DEF Connections!CreateConnection, ConnectionsInv, WorkerKnows
  <2>8. Connections!There(proc'.seen.conns) = Connections!There(proc.seen.conns)
    BY <2>6 DEF Connections!There
  <2>9. Connections!There(view.conns)' = Connections!There(view'.conns) /\ Connections!There(proc.seen.conns)' = Connections!There(proc'.seen.conns)
    BY DEF Connections!There
  <2>10. WorkerKnows'
    BY <2>5, <2>6, <2>7, <2>8, <2>9 DEF WorkerKnows
  <2> QED BY <2>2, <2>3, <2>4, <2>10 DEF ConnectionsInv, Connections!AddedFirst, Connections!There
<1>6. CASE Connections!AllAdded
  <2>1. proc' = [pc |-> "remove", spec |-> proc.spec, tokens |-> proc.tokens, seen |-> proc.seen, done |-> {}]
    BY <1>6, ToShape DEF Connections!AllAdded, Connections!AfterAdd
  <2>2. Connections!There(proc.spec.conns) \subseteq Connections!There(view.conns)
    BY <1>6 DEF ConnectionsInv, WorkerKnows, Connections!AllAdded, Connections!Missing
  <2>3. WorkerKnows'
    BY <1>6, <2>1, <2>2 DEF WorkerKnows, Connections!AllAdded, Connections!There
  <2> QED BY <1>6, <1>a, <2>3 DEF Connections!AllAdded, ConnectionsInv
<1>7. CASE Connections!DeleteConnection
  <2>1. PICK i \in Connections!Unexpected \ proc.done :
          /\ view' = [view EXCEPT !.conns[i] = Connections!None]
          /\ proc' = [proc EXCEPT !.done = proc.done \cup {i}]
    BY <1>7 DEF Connections!DeleteConnection
  <2>2. i \in Ids /\ proc.spec.conns[i] = Connections!None
    BY DEF Connections!Unexpected, Connections!There
  <2>3. /\ ConnectionsShape'
        /\ \A j \in Ids : view'.conns[j] = IF j = i THEN Connections!None ELSE view.conns[j]
    BY <2>1, <2>2, OneWritten DEF ConnectionsInv
  <2>4. Connections!There(proc.spec.conns) \subseteq Connections!There(view.conns)
    BY <1>7 DEF Connections!DeleteConnection, ConnectionsInv, WorkerKnows
  <2>5. proc' = [pc |-> "remove", spec |-> proc.spec, tokens |-> proc.tokens, seen |-> proc.seen, done |-> proc.done \cup {i}]
    BY <1>7, <2>1 DEF Connections!DeleteConnection, ConnectionsInv, WorkerKnows
  <2>6. \A j \in Ids : proc'.spec.conns[j] # Connections!None => view'.conns[j] # Connections!None
    BY <2>2, <2>3, <2>4, <2>5 DEF Connections!There
  <2>7. WorkerKnows'
    BY <2>5, <2>6 DEF WorkerKnows, Connections!There
  <2>8. Connections!AddedFirst
    BY <2>2, <2>3, <2>4 DEF Connections!AddedFirst, Connections!There
  <2> QED BY <2>3, <2>7, <2>8 DEF ConnectionsInv
<1>8. CASE Connections!AllRemoved
  <2>1. proc' = [pc |-> "update", spec |-> proc.spec, tokens |-> proc.tokens, seen |-> proc.seen, done |-> {}]
    BY <1>8, ToShape DEF Connections!AllRemoved
  <2>2. WorkerKnows'
    BY <2>1 DEF WorkerKnows
  <2> QED BY <1>8, <1>a, <2>2 DEF Connections!AllRemoved, ConnectionsInv
<1>9. CASE Connections!UpdateConnection
  <2>1. PICK i \in Connections!Kept \ proc.done :
          /\ view' = [view EXCEPT !.conns[i] = Connections!Written(i)]
          /\ proc' = [proc EXCEPT !.done = proc.done \cup {i}]
    BY <1>9 DEF Connections!UpdateConnection
  <2>2. i \in Ids
    BY DEF Connections!Kept, Connections!There
  <2>3. Connections!Written(i) # Connections!None
    <3> DEFINE w == Connections!Written(i)
    <3>1. "tag" \in DOMAIN w
      BY DEF Connections!Written, Connections!Want, Connections!Expected
    <3>2. "tag" \notin DOMAIN Connections!None
      BY DEF Connections!None
    <3> HIDE DEF w
    <3>3. w # Connections!None
      BY <3>1, <3>2
    <3> QED BY <3>3 DEF w
  <2>4. /\ ConnectionsShape'
        /\ \A j \in Ids : view'.conns[j] = IF j = i THEN Connections!Written(i) ELSE view.conns[j]
    BY <2>1, <2>2, OneWritten DEF ConnectionsInv
  <2>5. proc' = [pc |-> "update", spec |-> proc.spec, tokens |-> proc.tokens, seen |-> proc.seen, done |-> proc.done \cup {i}]
    BY <1>9, <2>1 DEF Connections!UpdateConnection, ConnectionsInv, WorkerKnows
  <2>6. WorkerKnows'
    BY <2>5 DEF WorkerKnows
  <2> QED BY <2>2, <2>3, <2>4, <2>6 DEF ConnectionsInv, Connections!AddedFirst, Connections!There
<1>10. CASE Connections!AllUpdated
  BY <1>10, <1>a, <1>b DEF Connections!AllUpdated, ConnectionsInv
<1>11. CASE Connections!DeleteView
  <2>1. proc = Connections!Idle /\ proc' = proc /\ view' = Connections!NoView
    BY <1>11 DEF Connections!DeleteView
  <2>2. ConnectionsShape'
    BY <2>1 DEF ConnectionsShape, Connections!NoView
  <2> QED BY <1>b, <2>1, <2>2 DEF ConnectionsInv, Connections!AddedFirst
<1>12. CASE Connections!Fault
  BY <1>12, <1>a, <1>b DEF Connections!Fault, ConnectionsInv
<1>13. CASE Connections!EditSpec \/ Connections!EditSecret \/ Connections!DeleteResource \/ UNCHANGED Connections!vars
  <2>1. UNCHANGED <<view, proc>>
    BY <1>13 DEF Connections!EditSpec, Connections!EditSecret, Connections!DeleteResource, Connections!Edit, Connections!vars
  <2>2. WorkerKnows'
    BY <2>1 DEF ConnectionsInv, WorkerKnows, Connections!There
  <2> QED BY <1>a, <2>1, <2>2 DEF ConnectionsInv
<1>14. CASE Connections!EditView
  <2>1. proc = Connections!Idle /\ proc' = proc
    BY <1>14 DEF Connections!EditView, Connections!Edit
  <2>2. PICK i \in Ids : view' = [view EXCEPT !.conns[i] = Connections!None]
    BY <1>14 DEF Connections!EditView, Connections!There
  <2>3. ConnectionsShape'
    BY <2>2, OneWritten DEF ConnectionsInv
  <2> QED BY <1>b, <2>1, <2>3 DEF ConnectionsInv, Connections!AddedFirst
<1> QED BY <1>1, <1>2, <1>3, <1>4, <1>5, <1>6, <1>7, <1>8, <1>9, <1>10, <1>11, <1>12, <1>13, <1>14
      DEF Connections!Next, Connections!Work

LEMMA ConnectionsInit == Connections!Init => ConnectionsInv
BY DEF Connections!Init, Connections!Idle, Connections!NoView, ConnectionsInv, ConnectionsShape, WorkerKnows

(* A connection is taken away by the operator only when all others that the resource asked for are there,
   and one that is kept is never taken away to be changed, for any number of clusters, whatever is edited
   between the reading of the view and its writing (src/internal/humio/client.go:1099 to 1246). *)
THEOREM SearchesFindAllClusters ==
  Connections!Init /\ [][Connections!Next]_(Connections!vars) => [][Connections!AddedFirst]_(Connections!vars)
<1>1. ConnectionsInv /\ [Connections!Next]_(Connections!vars) => ConnectionsInv' /\ Connections!AddedFirst
  BY ConnectionsStep
<1> QED BY <1>1, ConnectionsInit, PTL

(***************************************************************************)
(* Repositories and their data (RepositoryRetention).                      *)
(***************************************************************************)
RetentionFields ==
  \/ proc = Retention!Idle
  \/ /\ proc = [pc |-> proc.pc, spec |-> proc.spec, seen |-> proc.seen, next |-> proc.next]
     /\ proc.spec \in RepoSpecs /\ proc.seen \in [Retention!Attributes -> Nat]

RetentionShape ==
  /\ spec \in RepoSpecs
  /\ repo \in [Retention!Attributes -> Nat] /\ data \in [Retention!Limits -> Nat]
  /\ RetentionFields

\* Data is within limits, and there is none without a repository.
DataWithin == \A l \in Retention!Limits : repo[l] > 0 => data[l] <= repo[l]
NoDataOfNone == ~exists => \A l \in Retention!Limits : data[l] = 0

\* While a repository is updated, no more data came in than the limits that were read let in.
ReadWithin ==
  proc.pc = "update" => \A l \in Retention!Limits : proc.seen[l] > 0 => data[l] <= proc.seen[l]

RetentionInv == RetentionShape /\ DataWithin /\ NoDataOfNone /\ ReadWithin

LEMMA LimitsAreAttributes == Retention!Limits \subseteq Retention!Attributes
BY DEF Retention!Limits, Retention!Attributes

LEMMA SpecShape ==
  ASSUME Retention!RetentionAssumption, NEW s \in RepoSpecs
  PROVE  s.want \in [Retention!Attributes -> Nat]
<1>1. Retention!Values \subseteq Nat
  BY DEF Retention!Values, Retention!RetentionAssumption
<1> QED BY <1>1 DEF Retention!RetentionAssumption

(* What new limits leave. *)
LEMMA CutShape ==
  ASSUME NEW d \in [Retention!Limits -> Nat], NEW r \in [Retention!Attributes -> Nat]
  PROVE  /\ Retention!Cut(d, r) \in [Retention!Limits -> Nat]
         /\ \A l \in Retention!Limits :
              /\ Retention!Cut(d, r)[l] <= d[l]
              /\ r[l] > 0 => Retention!Cut(d, r)[l] <= r[l]
              /\ r[l] = 0 \/ d[l] <= r[l] => Retention!Cut(d, r)[l] = d[l]
<1>1. \A l \in Retention!Limits : d[l] \in Nat /\ r[l] \in Nat
  BY LimitsAreAttributes
<1>2. Retention!Cut(d, r) = [l \in Retention!Limits |-> IF r[l] > 0 /\ r[l] < d[l] THEN r[l] ELSE d[l]]
  BY DEF Retention!Cut
<1>3. \A l \in Retention!Limits : (IF r[l] > 0 /\ r[l] < d[l] THEN r[l] ELSE d[l]) \in Nat
  BY <1>1
<1>4. Retention!Cut(d, r) \in [Retention!Limits -> Nat]
  BY <1>2, <1>3
<1>5. ASSUME NEW l \in Retention!Limits
      PROVE  /\ Retention!Cut(d, r)[l] <= d[l]
             /\ r[l] > 0 => Retention!Cut(d, r)[l] <= r[l]
             /\ r[l] = 0 \/ d[l] <= r[l] => Retention!Cut(d, r)[l] = d[l]
  BY <1>1, <1>2
<1> QED BY <1>4, <1>5

(* A repository that becomes another keeps its data within its limits. *)
LEMMA BecomeKeeps ==
  ASSUME RetentionInv, NEW r \in [Retention!Attributes -> Nat], Retention!Become(r)
  PROVE  /\ repo' \in [Retention!Attributes -> Nat] /\ data' \in [Retention!Limits -> Nat]
         /\ DataWithin' /\ NoDataOfNone' /\ \A l \in Retention!Limits : data'[l] <= data[l]
BY CutShape DEF RetentionInv, RetentionShape, Retention!Become, DataWithin, NoDataOfNone

LEMMA FieldsKept ==
  ASSUME RetentionFields, proc' = Retention!Idle
  PROVE  RetentionFields' /\ ReadWithin'
BY DEF RetentionFields, Retention!Idle, ReadWithin

(* Steps that leave the repository as it is. *)
LEMMA SameRepository ==
  ASSUME RetentionInv, UNCHANGED <<exists, repo, data>>, spec' \in RepoSpecs, RetentionFields', ReadWithin'
  PROVE  RetentionInv'
BY DEF RetentionInv, RetentionShape, DataWithin, NoDataOfNone

LEMMA GotoFields ==
  ASSUME RetentionInv, NEW pc \in {"create", "read", "delete"}, proc' = Retention!Goto(pc)
  PROVE  RetentionFields' /\ ReadWithin'
BY DEF RetentionInv, RetentionShape, RetentionFields, Retention!Goto, ReadWithin

LEMMA RetentionStep ==
  ASSUME Retention!RetentionAssumption, RetentionInv, [Retention!Next]_(Retention!vars)
  PROVE  RetentionInv'
<1> USE DEF Retention!Alone
<1>0. spec \in RepoSpecs /\ RetentionFields /\ repo \in [Retention!Attributes -> Nat]
  BY DEF RetentionInv, RetentionShape
<1>1. CASE Retention!Reconcile
  BY <1>0, <1>1, GotoFields, FieldsKept, SameRepository DEF Retention!Reconcile
<1>2. CASE Retention!ReconcileDeleted
  <2>1. CASE UNCHANGED proc
    BY <1>0, <1>2, <2>1, SameRepository DEF Retention!ReconcileDeleted, RetentionFields, ReadWithin, RetentionInv
  <2>2. CASE proc' = Retention!Goto("delete")
    BY <1>0, <1>2, <2>2, GotoFields, SameRepository DEF Retention!ReconcileDeleted
  <2> QED BY <1>2, <2>1, <2>2 DEF Retention!ReconcileDeleted
<1>3. CASE Retention!AddRepository
  <2>1. proc.spec.want \in [Retention!Attributes -> Nat]
    <3>1. proc # Retention!Idle
      BY <1>3 DEF Retention!AddRepository, Retention!Idle
    <3> QED BY <1>0, <3>1, SpecShape DEF RetentionFields
  <2> DEFINE r == [a \in Retention!Attributes |-> IF a \in Retention!Limits THEN proc.spec.want[a] ELSE 0]
  <2>2. r \in [Retention!Attributes -> Nat]
    BY <2>1
  <2>3. CASE exists
    BY <1>0, <1>3, <2>3, FieldsKept, SameRepository DEF Retention!AddRepository
  <2>4. CASE ~exists
    <3>1. Retention!Become(r)
      BY <1>3, <2>4 DEF Retention!AddRepository
    <3> HIDE DEF r
    <3> QED BY <1>0, <1>3, <2>2, <3>1, FieldsKept, BecomeKeeps DEF Retention!AddRepository, RetentionInv, RetentionShape
  <2> QED BY <2>3, <2>4
<1>4. CASE Retention!GetRepository
  <2>1. proc # Retention!Idle
    BY <1>4 DEF Retention!GetRepository, Retention!Idle
  <2>2. CASE exists
    <3>1. /\ proc' = [pc |-> "update", spec |-> proc.spec, seen |-> repo, next |-> proc.next]
          /\ proc.spec \in RepoSpecs
      BY <1>0, <1>4, <2>1, <2>2 DEF Retention!GetRepository, RetentionFields
    <3>2. RetentionFields'
      BY <1>0, <1>4, <3>1 DEF RetentionFields, Retention!GetRepository
    <3>3. ReadWithin'
      BY <1>4, <3>1 DEF ReadWithin, Retention!GetRepository, RetentionInv, DataWithin
    <3> QED BY <1>0, <1>4, <3>2, <3>3, SameRepository DEF Retention!GetRepository
  <2>3. CASE ~exists
    BY <1>0, <1>4, <2>3, FieldsKept, SameRepository DEF Retention!GetRepository
  <2> QED BY <2>2, <2>3
<1>5. CASE Retention!UpdateAttribute
  <2> DEFINE a == Retention!Order[proc.next]
             r == [repo EXCEPT ![a] = proc.spec.want[a]]
  <2>1. proc # Retention!Idle /\ proc.pc = "update"
    BY <1>5 DEF Retention!UpdateAttribute, Retention!Idle
  <2>2. proc.spec.want \in [Retention!Attributes -> Nat] /\ proc.spec \in RepoSpecs
    BY <1>0, <2>1, SpecShape DEF RetentionFields
  <2>3. r \in [Retention!Attributes -> Nat]
    BY <1>0, <2>2
  <2>4. \/ proc' = Retention!Idle
        \/ \E n : proc' = [pc |-> "update", spec |-> proc.spec, seen |-> proc.seen, next |-> n]
    <3>1. proc = [pc |-> "update", spec |-> proc.spec, seen |-> proc.seen, next |-> proc.next]
      BY <1>0, <2>1 DEF RetentionFields
    <3>2. proc' = Retention!Idle \/ proc' = Retention!Advance(proc)
      BY <1>5 DEF Retention!UpdateAttribute
    <3> QED BY <3>1, <3>2 DEF Retention!Advance
  <2>5. RetentionFields'
    <3>1. proc.seen \in [Retention!Attributes -> Nat]
      BY <1>0, <2>1 DEF RetentionFields
    <3> QED BY <2>2, <2>4, <3>1 DEF RetentionFields
  <2>6. UNCHANGED <<exists, repo, data>> \/ Retention!Become(r)
    BY <1>5 DEF Retention!UpdateAttribute
  <2> HIDE DEF r
  <2>7. /\ repo' \in [Retention!Attributes -> Nat] /\ data' \in [Retention!Limits -> Nat]
        /\ DataWithin' /\ NoDataOfNone' /\ \A l \in Retention!Limits : data'[l] <= data[l]
    <3>1. CASE UNCHANGED <<exists, repo, data>>
      BY <3>1 DEF RetentionInv, RetentionShape, DataWithin, NoDataOfNone
    <3> QED BY <2>3, <2>6, <3>1, BecomeKeeps
  <2>8. ReadWithin'
    <3>1. CASE proc' = Retention!Idle
      BY <1>0, <3>1, FieldsKept
    <3>2. CASE proc'.pc = "update" /\ proc'.seen = proc.seen
      <4>1. \A l \in Retention!Limits : data[l] \in Nat /\ data'[l] \in Nat /\ proc.seen[l] \in Nat
        BY <1>0, <2>1, <2>7, LimitsAreAttributes DEF RetentionInv, RetentionShape, RetentionFields
      <4> QED BY <2>1, <2>7, <3>2, <4>1 DEF ReadWithin, RetentionInv
    <3> QED BY <2>4, <3>1, <3>2
  <2>9. spec' = spec
    BY <1>5 DEF Retention!UpdateAttribute
  <2> QED BY <1>0, <2>5, <2>7, <2>8, <2>9 DEF RetentionInv, RetentionShape
<1>6. CASE Retention!DeleteRepository
  <2>1. CASE UNCHANGED <<exists, repo, data>>
    BY <1>0, <1>6, <2>1, FieldsKept, SameRepository DEF Retention!DeleteRepository
  <2>2. CASE exists' = FALSE /\ repo' = Retention!New /\ data' = Retention!Nothing
    <3>1. repo' \in [Retention!Attributes -> Nat] /\ data' \in [Retention!Limits -> Nat]
          /\ \A l \in Retention!Limits : data'[l] = 0 /\ repo'[l] = 0
      BY <2>2, LimitsAreAttributes DEF Retention!New, Retention!Nothing
    <3> QED BY <1>0, <1>6, <3>1, FieldsKept DEF Retention!DeleteRepository, RetentionInv, RetentionShape,
          DataWithin, NoDataOfNone
  <2> QED BY <1>6, <2>1, <2>2 DEF Retention!DeleteRepository
<1>7. CASE Retention!Fault
  BY <1>0, <1>7, FieldsKept, SameRepository DEF Retention!Fault
<1>8. CASE Retention!EditSpec \/ Retention!DeleteResource \/ UNCHANGED Retention!vars
  <2>1. UNCHANGED <<exists, repo, data, proc>> /\ spec' \in RepoSpecs
    BY <1>0, <1>8 DEF Retention!EditSpec, Retention!DeleteResource, Retention!Edit, Retention!vars
  <2> QED BY <2>1, SameRepository DEF RetentionInv, RetentionShape, RetentionFields, ReadWithin
<1>9. CASE Retention!EditRepository
  <2>1. PICK a \in Retention!Attributes, v \in Retention!Values : Retention!Become([repo EXCEPT ![a] = v])
    BY <1>9 DEF Retention!EditRepository
  <2>2. v \in Nat
    BY DEF Retention!Values, Retention!RetentionAssumption
  <2>3. [repo EXCEPT ![a] = v] \in [Retention!Attributes -> Nat]
    BY <1>0, <2>2
  <2>4. /\ repo' \in [Retention!Attributes -> Nat] /\ data' \in [Retention!Limits -> Nat]
        /\ DataWithin' /\ NoDataOfNone' /\ \A l \in Retention!Limits : data'[l] <= data[l]
    BY <2>1, <2>3, BecomeKeeps
  <2>5. UNCHANGED <<spec, proc>>
    BY <1>9 DEF Retention!EditRepository, Retention!Edit
  <2>6. ReadWithin'
    <3>1. ASSUME proc.pc = "update", NEW l \in Retention!Limits, proc.seen[l] > 0
          PROVE  data'[l] <= proc.seen[l]
      <4>1. data[l] \in Nat /\ data'[l] \in Nat /\ proc.seen[l] \in Nat
        BY <1>0, <2>4, <3>1, LimitsAreAttributes DEF RetentionInv, RetentionShape, RetentionFields, Retention!Idle
      <4> QED BY <2>4, <3>1, <4>1 DEF ReadWithin, RetentionInv
    <3> QED BY <2>5, <3>1 DEF ReadWithin
  <2> QED BY <1>0, <2>4, <2>5, <2>6 DEF RetentionInv, RetentionShape, RetentionFields
<1>10. CASE Retention!Ingest
  <2> DEFINE full == [l \in Retention!Limits |-> Top]
  <2>1. full \in [Retention!Limits -> Nat] /\ data' = Retention!Cut(full, repo)
    BY <1>10 DEF Retention!Ingest, Retention!RetentionAssumption
  <2> HIDE DEF full
  <2>2. data' \in [Retention!Limits -> Nat] /\ \A l \in Retention!Limits : repo[l] > 0 => data'[l] <= repo[l]
    BY <1>0, <2>1, CutShape
  <2>3. UNCHANGED <<spec, exists, repo, proc>> /\ exists /\ proc = Retention!Idle
    BY <1>10 DEF Retention!Ingest
  <2> QED BY <1>0, <2>2, <2>3, FieldsKept DEF RetentionInv, RetentionShape, DataWithin, NoDataOfNone
<1> QED BY <1>1, <1>2, <1>3, <1>4, <1>5, <1>6, <1>7, <1>8, <1>9, <1>10
      DEF Retention!Next, Retention!Operator, Retention!Work

LEMMA RetentionInit == Retention!RetentionAssumption /\ Retention!Init => RetentionInv
<1> SUFFICES ASSUME Retention!RetentionAssumption, Retention!Init PROVE RetentionInv
  OBVIOUS
<1>1. Top \in Nat
  BY DEF Retention!RetentionAssumption
<1>2. RetentionFields /\ ReadWithin
  BY DEF Retention!Init, RetentionFields, ReadWithin, Retention!Idle
<1>3. CASE exists = FALSE /\ repo = Retention!New /\ data = Retention!Nothing
  BY <1>2, <1>3, LimitsAreAttributes DEF Retention!Init, RetentionInv, RetentionShape, DataWithin, NoDataOfNone,
     Retention!New, Retention!Nothing
<1>4. CASE /\ exists = TRUE /\ repo \in {Retention!New, [a \in Retention!Attributes |-> Top]}
           /\ data = [l \in Retention!Limits |-> Top]
  <2>1. repo \in [Retention!Attributes -> Nat] /\ \A a \in Retention!Attributes : repo[a] \in {0, Top}
    BY <1>1, <1>4 DEF Retention!New
  <2>2. data \in [Retention!Limits -> Nat] /\ \A l \in Retention!Limits : data[l] = Top
    BY <1>1, <1>4
  <2> QED BY <1>1, <1>2, <1>4, <2>1, <2>2, LimitsAreAttributes DEF Retention!Init, RetentionInv, RetentionShape,
       DataWithin, NoDataOfNone
<1> QED BY <1>3, <1>4 DEF Retention!Init

LEMMA NothingCut ==
  ASSUME Retention!RetentionAssumption, RetentionInv, [Retention!Next]_(Retention!vars)
  PROVE  Retention!NothingLost
<1>0. /\ RetentionFields /\ repo \in [Retention!Attributes -> Nat] /\ data \in [Retention!Limits -> Nat]
      /\ \A l \in Retention!Limits : data[l] \in Nat /\ repo[l] \in Nat
  BY LimitsAreAttributes DEF RetentionInv, RetentionShape
<1> SUFFICES ASSUME Retention!Operator, ~proc.spec.allow
             PROVE  \A l \in Retention!Limits : data'[l] >= data[l]
  BY DEF Retention!NothingLost
<1>1. ASSUME UNCHANGED data PROVE \A l \in Retention!Limits : data'[l] >= data[l]
  BY <1>0, <1>1
<1>2. ASSUME NEW r \in [Retention!Attributes -> Nat], Retention!Become(r),
             \A l \in Retention!Limits : r[l] = 0 \/ data[l] <= r[l]
      PROVE  \A l \in Retention!Limits : data'[l] >= data[l]
  BY <1>0, <1>2, CutShape DEF Retention!Become
<1>3. CASE Retention!AddRepository /\ ~exists
  <2> DEFINE r == [a \in Retention!Attributes |-> IF a \in Retention!Limits THEN proc.spec.want[a] ELSE 0]
  <2>1. proc.spec.want \in [Retention!Attributes -> Nat]
    <3>1. proc # Retention!Idle
      BY <1>3 DEF Retention!AddRepository, Retention!Idle
    <3> QED BY <1>0, <3>1, SpecShape DEF RetentionFields
  <2>2. r \in [Retention!Attributes -> Nat] /\ Retention!Become(r)
    BY <1>3, <2>1 DEF Retention!AddRepository
  <2>3. \A l \in Retention!Limits : data[l] = 0
    BY <1>3 DEF RetentionInv, NoDataOfNone
  <2> HIDE DEF r
  <2>4. \A l \in Retention!Limits : r[l] \in Nat
    BY <2>2, LimitsAreAttributes
  <2> QED BY <1>2, <2>2, <2>3, <2>4
<1>4. CASE Retention!UpdateAttribute
  <2> DEFINE a == Retention!Order[proc.next]
             r == [repo EXCEPT ![a] = proc.spec.want[a]]
  <2>1. proc # Retention!Idle /\ proc.pc = "update"
    BY <1>4 DEF Retention!UpdateAttribute, Retention!Idle
  <2>2. /\ proc.spec.want \in [Retention!Attributes -> Nat]
        /\ proc.seen \in [Retention!Attributes -> Nat]
    BY <1>0, <2>1, SpecShape DEF RetentionFields
  <2>3. CASE UNCHANGED <<exists, repo, data>>
    BY <1>1, <2>3
  <2>4. CASE ~Retention!Refused(proc, a) /\ Retention!Become(r)
    <3>1. r \in [Retention!Attributes -> Nat]
      BY <1>0, <2>2
    <3>2. ASSUME NEW l \in Retention!Limits PROVE r[l] = 0 \/ data[l] <= r[l]
      <4>1. l \in Retention!Attributes /\ data[l] \in Nat /\ repo[l] \in Nat
            /\ proc.seen[l] \in Nat /\ proc.spec.want[l] \in Nat
        BY <1>0, <2>2, LimitsAreAttributes
      <4>2. CASE l = a
        <5>1. r[l] = proc.spec.want[l]
          BY <1>0, <4>1, <4>2
        <5>2. proc.spec.want[l] = 0 \/ (proc.seen[l] > 0 /\ proc.seen[l] <= proc.spec.want[l])
          BY <2>4, <4>1, <4>2 DEF Retention!Refused
        <5>3. proc.seen[l] > 0 => data[l] <= proc.seen[l]
          BY <2>1 DEF RetentionInv, ReadWithin
        <5> QED BY <4>1, <5>1, <5>2, <5>3
      <4>3. CASE l # a
        <5>1. r[l] = repo[l]
          BY <1>0, <4>1, <4>3
        <5> QED BY <4>1, <5>1 DEF RetentionInv, DataWithin
      <4> QED BY <4>2, <4>3
    <3> HIDE DEF r
    <3> QED BY <1>2, <2>4, <3>1, <3>2
  <2> QED BY <1>4, <2>3, <2>4 DEF Retention!UpdateAttribute
<1>5. CASE Retention!DeleteRepository
  BY <1>1, <1>5 DEF Retention!DeleteRepository, Retention!MayDelete
<1>6. CASE Retention!AddRepository /\ exists
  BY <1>1, <1>6 DEF Retention!AddRepository
<1>7. CASE Retention!Reconcile \/ Retention!ReconcileDeleted \/ Retention!GetRepository
  BY <1>1, <1>7 DEF Retention!Reconcile, Retention!ReconcileDeleted, Retention!GetRepository
<1> QED BY <1>3, <1>4, <1>5, <1>6, <1>7 DEF Retention!Operator, Retention!Work

(* The operator deletes no data that the resource it read does not allow it to, for all values of limits,
   although others change the limits between its reading and its writing, and a new repository loses
   none (src/internal/humio/client.go:691 to 798, humiorepository_controller.go:90 to 120). *)
THEOREM DataIsKeptUnlessAllowed ==
  ASSUME Retention!RetentionAssumption
  PROVE  Retention!Init /\ [][Retention!Next]_(Retention!vars) => [][Retention!NothingLost]_(Retention!vars)
<1>1. RetentionInv /\ [Retention!Next]_(Retention!vars) => RetentionInv'
  BY RetentionStep
<1>2. RetentionInv /\ [Retention!Next]_(Retention!vars) => Retention!NothingLost
  BY NothingCut
<1> QED BY <1>1, <1>2, RetentionInit, PTL

(***************************************************************************)
(* Types: an inductive invariant for each component, which says that its   *)
(* variables have their types, and of the worker what it has in hand at    *)
(* each stage.                                                             *)
(***************************************************************************)
\* What a reconcile has in hand: a pod is to be made while there are pods to be made.
VolumesWork ==
  /\ op \in [pc : {"idle", "claims", "pods", "create", "wait", "ready", "cleanup", "status"},
             missing : 0..NodeCount, listed : SUBSET VolumePods, inUse : SUBSET Volumes!Claims,
             made : SUBSET VolumePods]
  /\ op.pc = "create" => op.missing # 0

VolumesTypedInv ==
  /\ VolumesShape /\ VolumesWork
  /\ node \in [Nodes -> {"up", "cordoned", "gone"}]
  /\ hurts \in 0..HurtsIn["claims"] /\ faults \in 0..FaultsIn["claims"]

(* A set of claims has the size that it has elsewhere. *)
LEMMA VolumesSize ==
  ASSUME NEW S
  PROVE  /\ Volumes!IsFiniteSet(S) <=> IsFiniteSet(S)
         /\ Volumes!Cardinality(S) = Cardinality(S)
<1>1. Volumes!IsFiniteSet(S) <=> IsFiniteSet(S)
  BY DEF Volumes!IsFiniteSet, IsFiniteSet
<1>2. Volumes!Cardinality(S) = Cardinality(S)
  BY DEF Volumes!Cardinality, Cardinality
<1> QED BY <1>1, <1>2

LEMMA ClaimBounds ==
  ASSUME Volumes!ClaimsAssumption
  PROVE  /\ IsFiniteSet(VolumePods)
         /\ NodeCount \in Nat /\ NodeCount # 0
         /\ HurtsIn["claims"] \in Nat /\ FaultsIn["claims"] \in Nat
<1>1. Volumes!IsFiniteSet(VolumePods) /\ HurtsIn["claims"] \in Nat /\ FaultsIn["claims"] \in Nat
  BY Zenon DEF Volumes!ClaimsAssumption
<1>2. NodeCount \in Nat \ {0}
  BY Zenon DEF Volumes!ClaimsAssumption
<1> QED BY <1>1, <1>2, VolumesSize

LEMMA WorkOfNone ==
  ASSUME Volumes!ClaimsAssumption,
         NEW pc \in {"idle", "claims", "pods", "wait", "ready", "cleanup", "status"}
  PROVE  /\ Volumes!Goto(pc) => VolumesWork'
         /\ op' = Volumes!Idle => VolumesWork'
<1>1. 0 \in 0..NodeCount
  BY ClaimBounds
<1> HIDE DEF Volumes!Claims
<1> QED BY <1>1 DEF Volumes!Goto, Volumes!Idle, VolumesWork

(* The types of the pool's claims and pods, as every step leaves them. *)
LEMMA VolumesTyped ==
  ASSUME Volumes!ClaimsAssumption
  PROVE  /\ Volumes!Init => VolumesTypedInv
         /\ VolumesTypedInv /\ [Volumes!Next]_(Volumes!vars) => VolumesTypedInv'
         /\ VolumesTypedInv => Volumes!TypeOK
<1>1. Volumes!Init => VolumesTypedInv
  <2> SUFFICES ASSUME Volumes!Init PROVE VolumesTypedInv
    OBVIOUS
  <2>1. VolumesShape
    BY SharingInit DEF SharingInv
  <2>2. VolumesWork
    <3>1. 0 \in 0..NodeCount
      BY ClaimBounds
    <3> HIDE DEF Volumes!Claims
    <3> QED BY <3>1 DEF Volumes!Init, Volumes!Idle, VolumesWork
  <2>3. node \in [Nodes -> {"up", "cordoned", "gone"}]
    BY DEF Volumes!Init
  <2>4. hurts \in 0..HurtsIn["claims"] /\ faults \in 0..FaultsIn["claims"]
    BY ClaimBounds DEF Volumes!Init
  <2> QED BY <2>1, <2>2, <2>3, <2>4 DEF VolumesTypedInv
<1>2. VolumesTypedInv /\ [Volumes!Next]_(Volumes!vars) => VolumesTypedInv'
  <2> SUFFICES ASSUME VolumesTypedInv, [Volumes!Next]_(Volumes!vars) PROVE VolumesTypedInv'
    OBVIOUS
  <2>0. VolumesShape /\ VolumesWork /\ node \in [Nodes -> {"up", "cordoned", "gone"}]
    BY DEF VolumesTypedInv
  <2>1. VolumesShape'
    <3>1. CASE Volumes!CreatePod
      <4>1. CASE Volumes!Goto("status") /\ UNCHANGED <<pod, unseen, claim, podStatus>>
        BY <2>0, <4>1, GotoShape DEF VolumesShape
      <4> QED BY <2>0, <3>1, <4>1, CreatedPod, CreationShape
    <3> QED BY <2>0, <3>1, OtherSteps
  <2>2. VolumesWork'
    <3>1. CASE Volumes!CreatePod
      <4>1. CASE Volumes!Goto("status")
        BY <4>1, WorkOfNone
      <4>2. ASSUME NEW c \in Volumes!Claims, NEW p \in VolumePods, Creates(p, c)
            PROVE  VolumesWork'
        <5>1. op.missing \in 0..NodeCount /\ op.missing # 0
          <6>1. op.pc = "create"
            BY <3>1, Zenon DEF Volumes!CreatePod, Volumes!At
          <6> QED BY <2>0, <6>1 DEF VolumesWork
        <5>2. /\ op.missing - 1 \in 0..NodeCount
              /\ op.missing # 1 => op.missing - 1 # 0
          BY <5>1, ClaimBounds
        <5>3. /\ op.listed \in SUBSET VolumePods
              /\ op.inUse \cup {c} \in SUBSET Volumes!Claims /\ op.made \cup {p} \in SUBSET VolumePods
          <6> HIDE DEF Volumes!Claims
          <6> QED BY <2>0, <4>2 DEF VolumesWork
        <5>4. op' = [pc |-> IF op.missing = 1 THEN "wait" ELSE "create", missing |-> op.missing - 1,
                     listed |-> op.listed, inUse |-> op.inUse \cup {c}, made |-> op.made \cup {p}]
          BY <2>0, <4>2 DEF VolumesShape, OpFields, Creates
        <5> HIDE DEF Volumes!Claims
        <5> QED BY <5>2, <5>3, <5>4 DEF VolumesWork
      <4> QED BY <2>0, <3>1, <4>1, <4>2, CreatedPod
    <3>2. CASE Volumes!EnsurePodsExist
      <4>1. CASE Volumes!Goto("ready")
        BY <4>1, WorkOfNone
      <4>2. CASE /\ Cardinality(Volumes!Listed) < NodeCount
                 /\ op' = [Volumes!Idle EXCEPT !.pc = "create",
                             !.missing = NodeCount - Cardinality(Volumes!Listed),
                             !.listed = Volumes!Listed, !.inUse = {pod[p].claim : p \in Volumes!Listed}]
        <5>1. Volumes!Listed \subseteq VolumePods /\ Volumes!Listed \subseteq Volumes!Pods
          BY DEF Volumes!Listed, Volumes!Pods
        <5>2. Cardinality(Volumes!Listed) \in Nat
          BY <5>1, FS_Subset, FS_CardinalityType, ClaimBounds
        <5>3. /\ NodeCount - Cardinality(Volumes!Listed) \in 0..NodeCount
              /\ NodeCount - Cardinality(Volumes!Listed) # 0
          BY <4>2, <5>2, ClaimBounds
        <5>4. {pod[p].claim : p \in Volumes!Listed} \subseteq Volumes!Claims
          BY <2>0, <5>1, EntryShape
        <5>5. op' = [pc |-> "create", missing |-> NodeCount - Cardinality(Volumes!Listed),
                     listed |-> Volumes!Listed, inUse |-> {pod[p].claim : p \in Volumes!Listed}, made |-> {}]
          BY <4>2 DEF Volumes!Idle
        <5> HIDE DEF Volumes!Claims, Volumes!Listed
        <5>6. Volumes!Listed \in SUBSET VolumePods
              /\ {pod[p].claim : p \in Volumes!Listed} \in SUBSET Volumes!Claims
          BY <5>1, <5>4
        <5> DEFINE used == {pod[p].claim : p \in Volumes!Listed}
        <5> HIDE DEF used
        <5>7. /\ used \in SUBSET Volumes!Claims
              /\ op' = [pc |-> "create", missing |-> NodeCount - Cardinality(Volumes!Listed),
                        listed |-> Volumes!Listed, inUse |-> used, made |-> {}]
          BY <5>5, <5>6 DEF used
        <5> QED BY <5>3, <5>6, <5>7 DEF VolumesWork
      <4> QED BY <3>2, <4>1, <4>2, VolumesSize DEF Volumes!EnsurePodsExist
    <3>3. CASE \/ Volumes!EnsureMismatchedPodsAreDeleted \/ Volumes!EnsureClaimsExist \/ Volumes!WaitForNewPods
               \/ Volumes!NodePoolPodsReady \/ Volumes!EnsureOrphanedPvcsAreDeleted \/ Volumes!GetPodStatusList
               \/ Volumes!Fail \/ Volumes!Restart
      <4>1. \/ UNCHANGED op \/ op' = Volumes!Idle
            \/ Volumes!Goto("status") \/ Volumes!Goto("claims") \/ Volumes!Goto("pods") \/ Volumes!Goto("cleanup")
        BY <3>3, Zenon
           DEF Volumes!EnsureMismatchedPodsAreDeleted, Volumes!EnsureClaimsExist, Volumes!WaitForNewPods,
               Volumes!NodePoolPodsReady, Volumes!EnsureOrphanedPvcsAreDeleted, Volumes!GetPodStatusList,
               Volumes!Fail, Volumes!Restart
      <4> QED BY <2>0, <4>1, WorkOfNone DEF VolumesWork
    <3>4. CASE Volumes!Kubernetes \/ UNCHANGED Volumes!vars
               \/ (\E n \in Nodes : Volumes!DeleteNode(n) \/ Volumes!Cordon(n)) \/ \E p \in VolumePods : Volumes!DeletePod(p)
      <4>1. UNCHANGED op
        BY <3>4 DEF Volumes!Kubernetes, Volumes!Quiet, Volumes!Hurt, Volumes!Schedule, Volumes!Unschedulable,
             Volumes!Start, Volumes!LosePod, Volumes!CollectPod, Volumes!ShowPod, Volumes!RemoveClaim,
             Volumes!DeleteNode, Volumes!Cordon, Volumes!DeletePod, Volumes!vars
      <4> QED BY <2>0, <4>1 DEF VolumesWork
    <3> QED BY <3>1, <3>2, <3>3, <3>4 DEF Volumes!Next, Volumes!Reconcile, Volumes!Others
  <2>3. /\ node' \in [Nodes -> {"up", "cordoned", "gone"}]
        /\ hurts' \in 0..HurtsIn["claims"] /\ faults' \in 0..FaultsIn["claims"]
    <3>1. CASE Volumes!Reconcile
      <4>1. Volumes!Alone
        BY <3>1 DEF Volumes!Reconcile, Volumes!EnsureMismatchedPodsAreDeleted, Volumes!EnsureClaimsExist,
             Volumes!EnsurePodsExist, Volumes!CreatePod, Volumes!WaitForNewPods, Volumes!NodePoolPodsReady,
             Volumes!EnsureOrphanedPvcsAreDeleted, Volumes!GetPodStatusList
      <4> QED BY <2>0, <4>1 DEF Volumes!Alone, VolumesTypedInv
    <3>2. CASE Volumes!Kubernetes \/ UNCHANGED Volumes!vars
      <4>1. UNCHANGED <<node, hurts, faults>>
        BY <3>2 DEF Volumes!Kubernetes, Volumes!Quiet, Volumes!Schedule, Volumes!Unschedulable,
             Volumes!Start, Volumes!LosePod, Volumes!CollectPod, Volumes!ShowPod, Volumes!RemoveClaim, Volumes!vars
      <4> QED BY <4>1 DEF VolumesTypedInv
    <3>3. CASE (\E n \in Nodes : Volumes!DeleteNode(n) \/ Volumes!Cordon(n)) \/ \E p \in VolumePods : Volumes!DeletePod(p)
      <4>1. hurts < HurtsIn["claims"] /\ hurts' = hurts + 1 /\ UNCHANGED faults
        BY <3>3, Zenon DEF Volumes!DeleteNode, Volumes!Cordon, Volumes!DeletePod, Volumes!Hurt
      <4>2. node' \in [Nodes -> {"up", "cordoned", "gone"}]
        BY <2>0, <3>3 DEF Volumes!DeleteNode, Volumes!Cordon, Volumes!DeletePod
      <4>3. hurts' \in 0..HurtsIn["claims"]
        BY <4>1, ClaimBounds DEF VolumesTypedInv
      <4> QED BY <4>1, <4>2, <4>3 DEF VolumesTypedInv
    <3>4. CASE Volumes!Fail \/ Volumes!Restart
      <4>1. faults' \in 0..FaultsIn["claims"] /\ UNCHANGED <<node, hurts>>
        BY <3>4, ClaimBounds DEF Volumes!Fail, Volumes!Restart, Volumes!Fault, VolumesTypedInv
      <4> QED BY <4>1 DEF VolumesTypedInv
    <3> QED BY <3>1, <3>2, <3>3, <3>4 DEF Volumes!Next, Volumes!Others
  <2> QED BY <2>1, <2>2, <2>3 DEF VolumesTypedInv
<1>3. VolumesTypedInv => Volumes!TypeOK
  BY DEF VolumesTypedInv, VolumesShape, VolumesWork, Volumes!TypeOK
<1> QED BY <1>1, <1>2, <1>3

CertsWork ==
  proc.pc # "idle" =>
    /\ proc = [pc |-> proc.pc, tls |-> proc.tls, hosts |-> proc.hosts, todo |-> proc.todo, expect |-> proc.expect]
    /\ proc.tls \in BOOLEAN /\ proc.hosts \in Certs!Hosts

\* The pods of the pool are never more than it has.
PodsFit == IsFiniteSet(Certs!Pods) /\ plain \in Nat /\ Cardinality(Certs!Pods) + plain <= PoolSize

CertsTypedInv ==
  /\ CertsWork /\ PodsFit
  /\ tls \in BOOLEAN /\ edits \in 0..EditsIn["certs"] /\ hosts \in 1..(edits + 1)
  /\ made \in Nat /\ ca \in 0..made /\ issuer \in BOOLEAN
  /\ certs \in [Certs!AllNames -> Certs!Hosts \cup {Certs!None}]
  /\ seen \in [Certs!AllNames -> Certs!Hosts \cup {Certs!None}]
  /\ secrets \in [Certs!AllNames -> [ca : 1..made, hosts : Certs!Hosts] \cup {Certs!NoSecret}]
  /\ pods \in [PodNames -> Certs!Hosts \cup {Certs!None}]

LEMMA CertsSize ==
  ASSUME NEW S
  PROVE  Certs!Cardinality(S) = Cardinality(S)
BY DEF Certs!Cardinality, Certs!IsFiniteSet, Cardinality, IsFiniteSet

LEMMA WorkerTyped ==
  ASSUME CertsWork, proc.pc # "idle",
         \/ proc' = Certs!Idle \/ UNCHANGED proc
         \/ \E pc : Certs!Goto(pc)
         \/ proc' = [proc EXCEPT !.pc = "pods"]
         \/ \E todo, expect : proc' = [proc EXCEPT !.pc = "cert", !.todo = todo, !.expect = expect]
         \/ \E todo : proc' = [proc EXCEPT !.pc = "wait", !.todo = todo]
  PROVE  CertsWork'
<1> HIDE DEF Certs!Hosts
<1>0. /\ proc = [pc |-> proc.pc, tls |-> proc.tls, hosts |-> proc.hosts, todo |-> proc.todo, expect |-> proc.expect]
      /\ proc.tls \in BOOLEAN /\ proc.hosts \in Certs!Hosts
  BY DEF CertsWork
<1>1. CASE proc' = Certs!Idle
  <2>1. proc'.pc = "idle"
    BY <1>1 DEF Certs!Idle
  <2> QED BY <2>1 DEF CertsWork
<1>2. CASE UNCHANGED proc
  BY <1>2 DEF CertsWork, Certs!Hosts
<1>3. \/ proc' = Certs!Idle \/ UNCHANGED proc
      \/ \E pc, todo, expect :
           proc' = [pc |-> pc, tls |-> proc.tls, hosts |-> proc.hosts, todo |-> todo, expect |-> expect]
  BY <1>0 DEF Certs!Goto
<1>4. ASSUME NEW pc, NEW todo, NEW expect,
             proc' = [pc |-> pc, tls |-> proc.tls, hosts |-> proc.hosts, todo |-> todo, expect |-> expect]
      PROVE  CertsWork'
  BY <1>0, <1>4 DEF CertsWork, Certs!Hosts
<1> QED BY <1>1, <1>2, <1>3, <1>4

LEMMA FewerFit ==
  ASSUME PoolSize \in Nat, PodsFit, NEW S, S \subseteq Certs!Pods, NEW k \in Nat, k <= plain
  PROVE  IsFiniteSet(S) /\ k \in Nat /\ Cardinality(S) + k <= PoolSize
<1>1. IsFiniteSet(S) /\ Cardinality(S) <= Cardinality(Certs!Pods)
  BY FS_Subset DEF PodsFit
<1>2. Cardinality(S) \in Nat /\ Cardinality(Certs!Pods) \in Nat
  BY <1>1, FS_CardinalityType DEF PodsFit
<1> QED BY <1>1, <1>2 DEF PodsFit

(* Certificates, secrets and pods have hostnames, no more pods are there than the pool has, and no secret
   is by a key pair that was not made yet. *)
LEMMA CertsTyped ==
  ASSUME Certs!NodesAssumption
  PROVE  /\ Certs!Init => CertsTypedInv
         /\ CertsTypedInv /\ [Certs!Next]_(Certs!vars) => CertsTypedInv'
         /\ CertsTypedInv => Certs!TypeOK
<1>0. /\ PoolSize \in Nat /\ PoolSize # 0 /\ EditsIn["certs"] \in Nat
      /\ 1 \in Certs!Hosts
  BY DEF Certs!NodesAssumption, Certs!Hosts
<1>1. Certs!Init => CertsTypedInv
  <2> SUFFICES ASSUME Certs!Init PROVE CertsTypedInv
    OBVIOUS
  <2>1. CertsWork
    BY DEF Certs!Init, Certs!Idle, CertsWork
  <2>2. PodsFit
    <3>1. Certs!Pods = {}
      BY DEF Certs!Init, Certs!Pods
    <3> QED BY <1>0, <3>1, FS_EmptySet DEF PodsFit, Certs!Init
  <2>3. /\ tls \in BOOLEAN /\ edits \in 0..EditsIn["certs"] /\ hosts \in 1..(edits + 1)
        /\ made \in Nat /\ ca \in 0..made /\ issuer \in BOOLEAN
    <3>1. /\ tls \in BOOLEAN /\ edits = 0 /\ hosts = 1
          /\ made = 0 /\ ca = 0 /\ issuer = FALSE
      BY DEF Certs!Init, Certs!None
    <3>2. edits \in 0..EditsIn["certs"] /\ hosts \in 1..(edits + 1) /\ made \in Nat /\ ca \in 0..made
      BY <1>0, <3>1
    <3>3. tls \in BOOLEAN /\ issuer \in BOOLEAN
      BY <3>1
    <3> QED BY <3>2, <3>3
  <2>4. /\ certs \in [Certs!AllNames -> Certs!Hosts \cup {Certs!None}]
        /\ seen \in [Certs!AllNames -> Certs!Hosts \cup {Certs!None}]
        /\ pods \in [PodNames -> Certs!Hosts \cup {Certs!None}]
    BY DEF Certs!Init
  <2>5. secrets \in [Certs!AllNames -> [ca : 1..made, hosts : Certs!Hosts] \cup {Certs!NoSecret}]
    BY DEF Certs!Init
  <2> QED BY <2>1, <2>2, <2>3, <2>4, <2>5 DEF CertsTypedInv
<1>2. CertsTypedInv /\ [Certs!Next]_(Certs!vars) => CertsTypedInv'
  <2> SUFFICES ASSUME CertsTypedInv, [Certs!Next]_(Certs!vars) PROVE CertsTypedInv'
    OBVIOUS
  <2> USE DEF Certs!Alone
  <2> DEFINE Users == tls \in BOOLEAN /\ edits \in 0..EditsIn["certs"] /\ hosts \in 1..(edits + 1)
             Keys == made \in Nat /\ ca \in 0..made /\ issuer \in BOOLEAN
             Hostnamed(c) == c \in [Certs!AllNames -> Certs!Hosts \cup {Certs!None}]
             Answered == secrets \in [Certs!AllNames -> [ca : 1..made, hosts : Certs!Hosts] \cup {Certs!NoSecret}]
             Told == pods \in [PodNames -> Certs!Hosts \cup {Certs!None}]
  <2>0. CertsWork /\ PodsFit /\ Users /\ Keys /\ Hostnamed(certs) /\ Hostnamed(seen) /\ Answered /\ Told
    BY DEF CertsTypedInv
  <2>a. ASSUME CertsWork', PodsFit', Users', Keys', Hostnamed(certs'), Hostnamed(seen'), Answered', Told'
        PROVE  CertsTypedInv'
    BY <2>a DEF CertsTypedInv, Certs!Hosts
  <2>b. ASSUME UNCHANGED <<pods, plain>> PROVE PodsFit' /\ Told'
    BY <2>0, <2>b DEF PodsFit, Certs!Pods, Certs!Hosts
  <2>c. ASSUME UNCHANGED <<tls, hosts, edits>> PROVE Users'
    BY <2>0, <2>c
  <2>d. ASSUME UNCHANGED <<ca, made, issuer>> PROVE Keys'
    BY <2>0, <2>d
  <2>e. ASSUME UNCHANGED <<made, secrets>> PROVE Answered'
    BY <2>0, <2>e DEF Certs!Hosts
  <2>f. ASSUME UNCHANGED certs PROVE Hostnamed(certs')
    BY <2>0, <2>f
  <2>g. ASSUME UNCHANGED seen PROVE Hostnamed(seen')
    BY <2>0, <2>g
  <2>h. ASSUME UNCHANGED proc PROVE CertsWork'
    BY <2>0, <2>h DEF CertsWork, Certs!Hosts
  <2>i. ASSUME NEW n \in Certs!AllNames, NEW x \in Certs!Hosts \cup {Certs!None},
               certs' = [certs EXCEPT ![n] = x]
        PROVE  Hostnamed(certs')
    BY <2>0, <2>i
  <2>j. proc.pc # "idle" => proc.tls \in BOOLEAN /\ proc.hosts \in Certs!Hosts
    BY <2>0 DEF CertsWork
  <2>k. ASSUME UNCHANGED <<pods, plain>> PROVE Told' /\ PodsFit'
    BY <2>b, <2>k
  <2> HIDE DEF Users, Keys, Hostnamed, Answered, Told
  <2>1. CASE Certs!StartReconcile
    <3>1. tls \in BOOLEAN /\ hosts \in Certs!Hosts
      BY <1>0, <2>0 DEF Users, Certs!Hosts
    <3>2. proc' = [pc |-> "ca", tls |-> tls, hosts |-> hosts, todo |-> 0, expect |-> 0]
          /\ UNCHANGED <<tls, hosts, edits, ca, made, issuer, certs, seen, secrets, pods, plain>>
      BY <2>1 DEF Certs!StartReconcile
    <3>3. CertsWork'
      BY <3>1, <3>2 DEF CertsWork, Certs!Hosts
    <3> QED BY <2>a, <2>b, <2>c, <2>d, <2>e, <2>f, <2>g, <3>2, <3>3
  <2>2. CASE Certs!EnsureValidCASecret
    <3>1. /\ proc.pc = "ca" /\ Certs!Goto("mismatched")
          /\ (made' = made + 1 /\ ca' = made') \/ UNCHANGED <<ca, made>>
          /\ UNCHANGED <<tls, hosts, edits, issuer, certs, seen, secrets, pods, plain>>
      BY <2>2 DEF Certs!EnsureValidCASecret
    <3>2. CertsWork'
      BY <2>0, <3>1, WorkerTyped
    <3>3. Keys' /\ 1..made \subseteq 1..made'
      BY <2>0, <3>1 DEF Keys
    <3>4. Answered'
      <4>1. [ca : 1..made, hosts : Certs!Hosts] \subseteq [ca : 1..made', hosts : Certs!Hosts]
        BY <3>3
      <4> QED BY <2>0, <3>1, <4>1 DEF Answered, Certs!Hosts
    <3> QED BY <2>a, <2>b, <2>c, <2>f, <2>g, <3>1, <3>2, <3>3, <3>4
  <2>3. CASE Certs!DeleteMismatchedPods
    <3>1. PICK S \in SUBSET Certs!Mismatched, k \in 0..Certs!MismatchedPlain :
            /\ pods' = [n \in PodNames |-> IF n \in S THEN Certs!None ELSE pods[n]]
            /\ plain' = plain - k
      BY <2>3 DEF Certs!DeleteMismatchedPods
    <3>2. /\ proc.pc = "mismatched" /\ Certs!Goto("issuer")
          /\ UNCHANGED <<tls, hosts, edits, ca, made, issuer, certs, seen, secrets>>
      BY <2>3 DEF Certs!DeleteMismatchedPods
    <3>3. CertsWork'
      BY <2>0, <3>2, WorkerTyped
    <3>4. Told'
      BY <2>0, <3>1 DEF Told, Certs!Hosts
    <3>5. plain - k \in Nat /\ plain - k <= plain
      BY <2>0, <3>1 DEF PodsFit, Certs!MismatchedPlain
    <3>6. Certs!Pods' \subseteq Certs!Pods
      BY <3>1 DEF Certs!Pods
    <3>7. PodsFit'
      BY <1>0, <2>0, <3>1, <3>5, <3>6, FewerFit DEF PodsFit
    <3> QED BY <2>a, <2>c, <2>d, <2>e, <2>f, <2>g, <3>2, <3>3, <3>4, <3>7
  <2>4. CASE Certs!EnsureIssuerAndBundle
    <3>1. /\ proc.pc = "issuer" /\ issuer' = (issuer \/ proc.tls)
          /\ (proc' = Certs!Idle \/ \E pc : Certs!Goto(pc))
          /\ (UNCHANGED certs \/ certs' = [certs EXCEPT ![Certs!Cluster] = proc.hosts])
          /\ UNCHANGED <<tls, hosts, edits, ca, made, seen, secrets, pods, plain>>
      BY <2>4 DEF Certs!EnsureIssuerAndBundle
    <3>2. CertsWork'
      BY <2>0, <3>1, WorkerTyped
    <3>3. Keys'
      BY <2>0, <3>1 DEF Keys
    <3>4. Hostnamed(certs')
      <4>1. Certs!Cluster \in Certs!AllNames /\ proc.hosts \in Certs!Hosts \cup {Certs!None}
        BY <2>j, <3>1 DEF Certs!AllNames
      <4> QED BY <2>f, <2>i, <3>1, <4>1
    <3> QED BY <2>a, <2>b, <2>c, <2>e, <2>g, <3>1, <3>2, <3>3, <3>4
  <2>5. CASE Certs!UpdateNodeCertificates
    <3>1. /\ proc.pc = "certs"
          /\ certs' = [n \in Certs!AllNames |-> IF n \in Certs!OldCerts /\ certs[n] = seen[n] THEN proc.hosts ELSE certs[n]]
          /\ UNCHANGED <<tls, hosts, edits, ca, made, issuer, seen, secrets, pods, plain>>
      BY <2>5 DEF Certs!UpdateNodeCertificates
    <3>2. \/ proc' = Certs!Idle
          \/ proc' = [proc EXCEPT !.pc = "pods"]
          \/ \E todo, expect : proc' = [proc EXCEPT !.pc = "cert", !.todo = todo, !.expect = expect]
      BY <2>5, Zenon DEF Certs!UpdateNodeCertificates
    <3>3. CertsWork'
      BY <2>0, <3>1, <3>2, WorkerTyped
    <3>4. Hostnamed(certs')
      <4>1. proc.hosts \in Certs!Hosts
        BY <2>j, <3>1
      <4>2. \A n \in Certs!AllNames : certs[n] \in Certs!Hosts \cup {Certs!None}
        BY <2>0 DEF Hostnamed
      <4> HIDE DEF Certs!Hosts, Certs!None, Certs!OldCerts
      <4> QED BY <3>1, <4>1, <4>2 DEF Hostnamed
    <3> QED BY <2>a, <2>b, <2>c, <2>d, <2>e, <2>g, <3>1, <3>3, <3>4
  <2>6. CASE Certs!CreateNodeCertificate
    <3>1. /\ proc.pc = "cert"
          /\ UNCHANGED <<tls, hosts, edits, ca, made, issuer, seen, secrets, pods, plain>>
          /\ (UNCHANGED certs \/ \E n \in Certs!Fresh : certs' = [certs EXCEPT ![n] = proc.hosts])
      BY <2>6 DEF Certs!CreateNodeCertificate
    <3>2. proc' = Certs!Idle \/ \E todo : proc' = [proc EXCEPT !.pc = "wait", !.todo = todo]
      BY <2>6, Zenon DEF Certs!CreateNodeCertificate
    <3>3. CertsWork'
      BY <2>0, <3>1, <3>2, WorkerTyped
    <3>4. Hostnamed(certs')
      <4>1. Certs!Fresh \subseteq Certs!AllNames
        BY DEF Certs!Fresh, Certs!AllNames
      <4>2. proc.hosts \in Certs!Hosts \cup {Certs!None}
        BY <2>j, <3>1
      <4> QED BY <2>f, <2>i, <3>1, <4>1, <4>2
    <3> QED BY <2>a, <2>b, <2>c, <2>d, <2>e, <2>g, <3>1, <3>3, <3>4
  <2>7. CASE Certs!WaitForNewNodeCertificate \/ Certs!PodsReady
    <3>1. /\ proc.pc # "idle" /\ (proc' = Certs!Idle \/ \E pc : Certs!Goto(pc))
          /\ UNCHANGED <<tls, hosts, edits, ca, made, issuer, certs, seen, secrets, pods, plain>>
      BY <2>7 DEF Certs!WaitForNewNodeCertificate, Certs!PodsReady
    <3>2. CertsWork'
      BY <2>0, <3>1, WorkerTyped
    <3> QED BY <2>a, <2>b, <2>c, <2>d, <2>e, <2>f, <2>g, <3>1, <3>2
  <2>8. CASE Certs!EnsurePodsExist
    <3>1. /\ proc.pc = "pods" /\ (proc' = Certs!Idle \/ UNCHANGED proc \/ \E pc : Certs!Goto(pc))
          /\ UNCHANGED <<tls, hosts, edits, ca, made, issuer, certs, seen, secrets>>
      BY <2>8 DEF Certs!EnsurePodsExist
    <3>2. CertsWork'
      BY <2>0, <3>1, WorkerTyped
    <3>3. \/ UNCHANGED <<pods, plain>>
          \/ Certs!PodCount < PoolSize /\ plain' = plain + 1 /\ UNCHANGED pods
          \/ /\ Certs!PodCount < PoolSize /\ UNCHANGED plain
             /\ \E n \in Certs!NodeCerts(seen) \ Certs!Pods : pods' = [pods EXCEPT ![n] = seen[n]]
      BY <2>8 DEF Certs!EnsurePodsExist
    <3>4. /\ IsFiniteSet(Certs!Pods) /\ plain \in Nat /\ Cardinality(Certs!Pods) \in Nat
          /\ Certs!PodCount = Cardinality(Certs!Pods) + plain
      BY <2>0, CertsSize, FS_CardinalityType DEF PodsFit, Certs!PodCount
    <3>5. Told' /\ PodsFit'
      <4>1. CASE Certs!PodCount < PoolSize /\ plain' = plain + 1 /\ UNCHANGED pods
        <5>1. Certs!Pods' = Certs!Pods
          BY <4>1 DEF Certs!Pods
        <5>2. Told'
          BY <2>0, <4>1 DEF Told, Certs!Hosts
        <5>3. plain' \in Nat /\ Cardinality(Certs!Pods) + plain' <= PoolSize
          BY <1>0, <3>4, <4>1
        <5> QED BY <3>4, <5>1, <5>2, <5>3 DEF PodsFit
      <4>2. ASSUME Certs!PodCount < PoolSize, UNCHANGED plain, NEW n \in Certs!NodeCerts(seen) \ Certs!Pods,
                   pods' = [pods EXCEPT ![n] = seen[n]]
            PROVE  Told' /\ PodsFit'
        <5>1. n \in PodNames /\ seen[n] # Certs!None /\ n \in Certs!AllNames /\ pods[n] = Certs!None
          BY DEF Certs!NodeCerts, Certs!AllNames, Certs!Pods
        <5>2. seen[n] \in Certs!Hosts \cup {Certs!None}
          BY <2>0, <5>1 DEF Hostnamed
        <5>3. Told'
          BY <2>0, <4>2, <5>1, <5>2 DEF Told, Certs!Hosts
        <5>4. Certs!Pods' = Certs!Pods \cup {n}
          BY <2>0, <4>2, <5>1 DEF Told, Certs!Pods
        <5>5. IsFiniteSet(Certs!Pods \cup {n}) /\ Cardinality(Certs!Pods \cup {n}) = Cardinality(Certs!Pods) + 1
          BY <3>4, FS_AddElement
        <5>6. Cardinality(Certs!Pods) + 1 + plain <= PoolSize
          BY <1>0, <3>4, <4>2
        <5> QED BY <3>4, <4>2, <5>3, <5>4, <5>5, <5>6 DEF PodsFit
      <4> QED BY <2>b, <3>3, <4>1, <4>2
    <3> QED BY <2>a, <2>c, <2>d, <2>e, <2>f, <2>g, <3>1, <3>2, <3>5
  <2>9. CASE Certs!CleanupCertificates
    <3>1. /\ proc.pc # "idle" /\ (proc' = Certs!Idle \/ \E pc : Certs!Goto(pc))
          /\ (UNCHANGED certs \/ \E n \in Certs!AllNames : certs' = [certs EXCEPT ![n] = Certs!None])
          /\ UNCHANGED <<tls, hosts, edits, ca, made, issuer, seen, secrets, pods, plain>>
      BY <2>9 DEF Certs!CleanupCertificates
    <3>2. CertsWork'
      BY <2>0, <3>1, WorkerTyped
    <3>3. Hostnamed(certs')
      BY <2>f, <2>i, <3>1
    <3> QED BY <2>a, <2>b, <2>c, <2>d, <2>e, <2>g, <3>1, <3>2, <3>3
  <2>10. CASE Certs!CleanupSecrets
    <3>1. /\ proc.pc # "idle" /\ \E pc : Certs!Goto(pc)
          /\ ca' \in {ca, Certs!None}
          /\ (UNCHANGED secrets \/ \E n \in Certs!AllNames : secrets' = [secrets EXCEPT ![n] = Certs!NoSecret])
          /\ UNCHANGED <<tls, hosts, edits, made, issuer, certs, seen, pods, plain>>
      BY <2>10 DEF Certs!CleanupSecrets
    <3>2. CertsWork'
      BY <2>0, <3>1, WorkerTyped
    <3>3. Keys'
      BY <2>0, <3>1 DEF Keys, Certs!None
    <3>4. Answered'
      BY <2>0, <3>1 DEF Answered, Certs!Hosts
    <3> QED BY <2>a, <2>b, <2>c, <2>f, <2>g, <3>1, <3>2, <3>3, <3>4
  <2>11. CASE Certs!CleanupIssuer
    <3>1. /\ proc.pc # "idle" /\ proc' = Certs!Idle /\ issuer' = (issuer /\ proc.tls)
          /\ UNCHANGED <<tls, hosts, edits, ca, made, certs, seen, secrets, pods, plain>>
      BY <2>11 DEF Certs!CleanupIssuer
    <3>2. CertsWork'
      BY <2>0, <3>1, WorkerTyped
    <3>3. Keys'
      BY <2>0, <3>1 DEF Keys
    <3> QED BY <2>a, <2>b, <2>c, <2>e, <2>f, <2>g, <3>1, <3>2, <3>3
  <2>12. ASSUME NEW n \in Certs!AllNames, Certs!Issue(n) PROVE CertsTypedInv'
    <3>1. /\ certs[n] # Certs!None /\ ca # Certs!None
          /\ secrets' = [secrets EXCEPT ![n] = [ca |-> ca, hosts |-> certs[n]]]
          /\ UNCHANGED <<tls, hosts, edits, ca, made, issuer, certs, seen, pods, plain, proc>>
      BY <2>12 DEF Certs!Issue
    <3>2. ca \in 1..made
      BY <2>0, <3>1 DEF Keys, Certs!None
    <3>3. certs[n] \in Certs!Hosts
      BY <2>0, <3>1 DEF Hostnamed
    <3>4. Answered'
      BY <2>0, <3>1, <3>2, <3>3 DEF Answered, Certs!Hosts
    <3> QED BY <2>a, <2>b, <2>c, <2>d, <2>f, <2>g, <2>h, <3>1, <3>4
  <2>13. ASSUME NEW n \in Certs!AllNames, Certs!LoseCert(n) PROVE CertsTypedInv'
    <3>1. /\ certs' = [certs EXCEPT ![n] = Certs!None]
          /\ UNCHANGED <<tls, hosts, edits, ca, made, issuer, seen, secrets, pods, plain, proc>>
      BY <2>13 DEF Certs!LoseCert, Certs!Hurt
    <3> QED BY <2>a, <2>b, <2>c, <2>d, <2>e, <2>g, <2>h, <2>i, <3>1
  <2>14. ASSUME NEW n \in PodNames, Certs!LosePod(n) PROVE CertsTypedInv'
    <3>1. /\ pods' = [pods EXCEPT ![n] = Certs!None]
          /\ UNCHANGED <<tls, hosts, edits, ca, made, issuer, certs, seen, secrets, plain, proc>>
      BY <2>14 DEF Certs!LosePod, Certs!Hurt
    <3>2. Told'
      BY <2>0, <3>1 DEF Told, Certs!Hosts
    <3>3. Certs!Pods' \subseteq Certs!Pods
      BY <2>0, <3>1 DEF Told, Certs!Pods
    <3>4. plain \in Nat /\ plain <= plain
      BY <2>0 DEF PodsFit
    <3>5. PodsFit'
      BY <1>0, <2>0, <3>1, <3>3, <3>4, FewerFit DEF PodsFit
    <3> QED BY <2>a, <2>c, <2>d, <2>e, <2>f, <2>g, <2>h, <3>1, <3>2, <3>5
  <2>15. CASE Certs!CatchUp
    <3>1. /\ seen' = certs
          /\ UNCHANGED <<tls, hosts, edits, ca, made, issuer, certs, secrets, pods, plain, proc>>
      BY <2>15 DEF Certs!CatchUp
    <3> QED BY <2>0, <2>a, <2>b, <2>c, <2>d, <2>e, <2>f, <2>h, <3>1
  <2>16. CASE Certs!LoseCA
    <3>1. /\ ca' = Certs!None
          /\ UNCHANGED <<tls, hosts, edits, made, issuer, certs, seen, secrets, pods, plain, proc>>
      BY <2>16 DEF Certs!LoseCA, Certs!Hurt
    <3>2. Keys'
      BY <2>0, <3>1 DEF Keys, Certs!None
    <3> QED BY <2>a, <2>b, <2>c, <2>e, <2>f, <2>g, <2>h, <3>1, <3>2
  <2>17. CASE Certs!Fault
    <3>1. /\ proc' = Certs!Idle
          /\ UNCHANGED <<tls, hosts, edits, ca, made, issuer, certs, seen, secrets, pods, plain>>
      BY <2>17 DEF Certs!Fault
    <3>2. CertsWork'
      BY <3>1 DEF CertsWork, Certs!Idle
    <3> QED BY <2>a, <2>b, <2>c, <2>d, <2>e, <2>f, <2>g, <3>1, <3>2
  <2>18. CASE Certs!ToggleTLS \/ Certs!EditHostnames
    <3>1. /\ edits < EditsIn["certs"] /\ edits' = edits + 1
          /\ hosts' \in {hosts, hosts + 1} /\ tls' \in {tls, ~tls}
          /\ UNCHANGED <<ca, made, issuer, certs, seen, secrets, pods, plain, proc>>
      BY <2>18 DEF Certs!ToggleTLS, Certs!EditHostnames, Certs!Edit
    <3>2. edits' \in 0..EditsIn["certs"] /\ hosts' \in 1..(edits' + 1)
      BY <1>0, <2>0, <3>1 DEF Users
    <3>3. tls' \in BOOLEAN
      BY <2>0, <3>1 DEF Users
    <3>4. Users'
      BY <3>2, <3>3 DEF Users
    <3> QED BY <2>a, <2>b, <2>d, <2>e, <2>f, <2>g, <2>h, <3>1, <3>4
  <2>19. CASE UNCHANGED Certs!vars
    BY <2>19, <2>a, <2>b, <2>c, <2>d, <2>e, <2>f, <2>g, <2>h DEF Certs!vars
  <2> QED BY <2>1, <2>2, <2>3, <2>4, <2>5, <2>6, <2>7, <2>8, <2>9, <2>10, <2>11, <2>12, <2>13, <2>14, <2>15,
             <2>16, <2>17, <2>18, <2>19 DEF Certs!Next, Certs!Work, Certs!Others
<1>3. CertsTypedInv => Certs!TypeOK
  <2> SUFFICES ASSUME CertsTypedInv PROVE Certs!TypeOK
    OBVIOUS
  <2>1. hosts \in Certs!Hosts
    BY <1>0 DEF CertsTypedInv, Certs!Hosts
  <2>2. Certs!Cardinality({n \in PodNames : pods[n] # Certs!None}) + plain <= PoolSize
    BY CertsSize DEF CertsTypedInv, PodsFit, Certs!Pods
  <2> QED BY <2>1, <2>2 DEF CertsTypedInv, PodsFit, Certs!TypeOK
<1> QED BY <1>1, <1>2, <1>3

ClusterSpecs ==
  [perms : Objects!Version, ingress : BOOLEAN, host : [Objects!Hostnames -> Objects!Version],
   pools : [Pools -> Objects!PoolSpecs]]

\* A reconcile has a spec, and a pool in hand when it makes what one pool needs.
ObjectsWork ==
  /\ proc.pc # "idle" =>
       /\ \/ proc = [pc |-> proc.pc, spec |-> proc.spec, todo |-> proc.todo]
          \/ proc = [pc |-> proc.pc, spec |-> proc.spec, todo |-> proc.todo, pool |-> proc.pool]
       /\ proc.spec \in ClusterSpecs /\ proc.todo \subseteq Pools
  /\ proc.pc \in {"maps", "budget"} =>
       /\ proc = [pc |-> proc.pc, spec |-> proc.spec, todo |-> proc.todo, pool |-> proc.pool]
       /\ proc.pool \in Pools

ObjectsTypedInv == Objects!TypeOK /\ ObjectsWork

LEMMA ObjectsMoves ==
  ASSUME ObjectsWork, proc.pc # "idle", NEW pc, Objects!Goto(pc),
         pc \in {"maps", "budget"} => proc.pc \in {"maps", "budget"}
  PROVE  ObjectsWork'
<1>1. CASE proc = [pc |-> proc.pc, spec |-> proc.spec, todo |-> proc.todo]
  <2>1. proc' = [pc |-> pc, spec |-> proc.spec, todo |-> proc.todo]
    BY <1>1 DEF Objects!Goto
  <2>2. pc \notin {"maps", "budget"}
    <3>1. SUFFICES ASSUME proc.pc \in {"maps", "budget"} PROVE FALSE
      OBVIOUS
    <3>2. proc = [pc |-> proc.pc, spec |-> proc.spec, todo |-> proc.todo, pool |-> proc.pool]
      BY <3>1 DEF ObjectsWork
    <3>3. "pool" \in DOMAIN proc
      BY <3>2
    <3>4. "pool" \notin DOMAIN proc
      BY <1>1
    <3> QED BY <3>3, <3>4
  <2> QED BY <2>1, <2>2 DEF ObjectsWork
<1>2. CASE proc = [pc |-> proc.pc, spec |-> proc.spec, todo |-> proc.todo, pool |-> proc.pool]
  <2>1. proc' = [pc |-> pc, spec |-> proc.spec, todo |-> proc.todo, pool |-> proc.pool]
    BY <1>2 DEF Objects!Goto
  <2>2. pc \in {"maps", "budget"} => proc.pool \in Pools
    BY DEF ObjectsWork
  <2> QED BY <2>1, <2>2 DEF ObjectsWork
<1> QED BY <1>1, <1>2 DEF ObjectsWork

LEMMA ObjectsRest ==
  ASSUME proc' = Objects!Idle PROVE ObjectsWork'
<1>1. proc'.pc = "idle"
  BY DEF Objects!Idle
<1> QED BY <1>1 DEF ObjectsWork

(* What users make of the spec of a cluster is a spec. *)
LEMMA SpecEditedType ==
  ASSUME spec \in ClusterSpecs, Objects!EditCluster \/ \E p \in Pools : Objects!EditPool(p)
  PROVE  spec' \in ClusterSpecs
<1> USE DEF Objects!Version, Objects!Hostnames
<1>1. ASSUME NEW p \in Pools, Objects!EditPool(p) PROVE spec' \in ClusterSpecs
  <2> DEFINE x == spec.pools[p]
  <2>0. x \in Objects!PoolSpecs
    BY DEF ClusterSpecs
  <2>1. \/ spec' = [spec EXCEPT !.pools[p].nodes = 1 - @]
        \/ spec' = [spec EXCEPT !.pools[p].listed = ~@]
        \/ \E v \in Objects!Version : spec' = [spec EXCEPT !.pools[p].kafka = v]
        \/ \E v \in Objects!Version : spec' = [spec EXCEPT !.pools[p].budget = v]
        \/ spec' = [spec EXCEPT !.pools[p].labels = 3 - @]
        \/ spec' = [spec EXCEPT !.pools[p].port = 3 - @]
    BY <1>1, Zenon DEF Objects!EditPool, Objects!Edit
  <2>2. /\ [x EXCEPT !.nodes = 1 - @] \in Objects!PoolSpecs
        /\ [x EXCEPT !.labels = 3 - @] \in Objects!PoolSpecs
        /\ [x EXCEPT !.port = 3 - @] \in Objects!PoolSpecs
    BY <2>0 DEF Objects!PoolSpecs
  <2>3. [x EXCEPT !.listed = ~@] \in Objects!PoolSpecs
    BY <2>0 DEF Objects!PoolSpecs
  <2>4. \A v \in Objects!Version : /\ [x EXCEPT !.kafka = v] \in Objects!PoolSpecs
                                   /\ [x EXCEPT !.budget = v] \in Objects!PoolSpecs
    BY <2>0 DEF Objects!PoolSpecs
  <2>5. \E y \in Objects!PoolSpecs : spec' = [spec EXCEPT !.pools[p] = y]
    BY <2>1, <2>2, <2>3, <2>4
  <2> HIDE DEF x
  <2> QED BY <2>5 DEF ClusterSpecs
<1>2. CASE Objects!EditCluster
  <2>1. \/ \E v \in Objects!Version : spec' = [spec EXCEPT !.perms = v]
        \/ spec' = [spec EXCEPT !.ingress = ~@]
        \/ \E h \in Objects!Hostnames, v \in Objects!Version : spec' = [spec EXCEPT !.host[h] = v]
    BY <1>2, Zenon DEF Objects!EditCluster, Objects!Edit
  <2> HIDE DEF Objects!Version, Objects!Hostnames
  <2>2. ASSUME NEW v \in Objects!Version, spec' = [spec EXCEPT !.perms = v] PROVE spec' \in ClusterSpecs
    BY <2>2 DEF ClusterSpecs
  <2>3. ASSUME spec' = [spec EXCEPT !.ingress = ~@] PROVE spec' \in ClusterSpecs
    BY <2>3 DEF ClusterSpecs
  <2>4. ASSUME NEW h \in Objects!Hostnames, NEW v \in Objects!Version, spec' = [spec EXCEPT !.host[h] = v]
        PROVE  spec' \in ClusterSpecs
    <3>1. [spec.host EXCEPT ![h] = v] \in [Objects!Hostnames -> Objects!Version]
      BY DEF ClusterSpecs
    <3> QED BY <2>4, <3>1 DEF ClusterSpecs
  <2> QED BY <2>1, <2>2, <2>3, <2>4
<1> QED BY <1>1, <1>2

(* The types of what stands around the pods, as every step leaves them. *)
LEMMA ObjectsTyped ==
  /\ Objects!Init => ObjectsTypedInv
  /\ ObjectsTypedInv /\ [Objects!Next]_(Objects!vars) => ObjectsTypedInv'
<1>1. Objects!Init => ObjectsTypedInv
  <2> SUFFICES ASSUME Objects!Init PROVE ObjectsTypedInv
    OBVIOUS
  <2>1. ObjectsWork
    BY DEF Objects!Init, Objects!Idle, ObjectsWork
  <2>2. spec \in ClusterSpecs
    BY DEF Objects!Init, ClusterSpecs, Objects!Version, Objects!Hostnames, Objects!PoolSpecs
  <2>3. Objects!TypeOK
    BY <2>2 DEF Objects!Init, Objects!TypeOK, ClusterSpecs, Objects!Version, Objects!Hostnames
  <2> QED BY <2>1, <2>3 DEF ObjectsTypedInv
<1>2. ObjectsTypedInv /\ [Objects!Next]_(Objects!vars) => ObjectsTypedInv'
  <2> SUFFICES ASSUME ObjectsTypedInv, [Objects!Next]_(Objects!vars) PROVE ObjectsTypedInv'
    OBVIOUS
  <2> USE DEF Objects!Alone, Objects!Objects
  <2>0. /\ ObjectsWork
        /\ spec \in ClusterSpecs
        /\ services \in [Pools -> [labels : {1, 2}, port : {1, 2}] \cup {Objects!NoService}]
        /\ maps \in [Pools -> Objects!Version] /\ perms \in Objects!Version
        /\ budgets \in [Pools -> Objects!Version]
        /\ ingresses \in [Objects!Hostnames -> Objects!Version]
        /\ pods \in [Pools -> [kafka : Objects!Version, perms : Objects!Version] \cup {Objects!NoPod}]
    BY DEF ObjectsTypedInv, Objects!TypeOK, ClusterSpecs
  <2>a. ASSUME ObjectsWork', spec' \in ClusterSpecs,
               services' \in [Pools -> [labels : {1, 2}, port : {1, 2}] \cup {Objects!NoService}],
               maps' \in [Pools -> Objects!Version], perms' \in Objects!Version,
               budgets' \in [Pools -> Objects!Version],
               ingresses' \in [Objects!Hostnames -> Objects!Version],
               pods' \in [Pools -> [kafka : Objects!Version, perms : Objects!Version] \cup {Objects!NoPod}]
        PROVE  ObjectsTypedInv'
    BY <2>a DEF ObjectsTypedInv, Objects!TypeOK, ClusterSpecs
  <2> DEFINE InHand == proc.spec \in ClusterSpecs /\ proc.todo \subseteq Pools
  <2>b. proc.pc # "idle" => InHand
    BY <2>0 DEF ObjectsWork
  <2>c. ASSUME NEW s \in ClusterSpecs
        PROVE  /\ s.perms \in Objects!Version
               /\ s.host \in [Objects!Hostnames -> Objects!Version]
               /\ \A p \in Pools : /\ s.pools[p].kafka \in Objects!Version /\ s.pools[p].budget \in Objects!Version
                                   /\ s.pools[p].labels \in {1, 2} /\ s.pools[p].port \in {1, 2}
    BY DEF ClusterSpecs, Objects!PoolSpecs
  <2>d. 0 \in Objects!Version
    BY DEF Objects!Version
  <2> HIDE DEF InHand
  <2>1. CASE Objects!StartReconcile
    <3>1. ObjectsWork'
      BY <2>0, <2>1 DEF Objects!StartReconcile, ObjectsWork, Objects!WithNodes, Objects!Listed
    <3> QED BY <2>0, <2>1, <2>a, <3>1 DEF Objects!StartReconcile
  <2>2. CASE Objects!DeleteMismatchedPods
    <3>1. ObjectsWork'
      BY <2>0, <2>2, ObjectsMoves DEF Objects!DeleteMismatchedPods
    <3>2. pods' \in [Pools -> [kafka : Objects!Version, perms : Objects!Version] \cup {Objects!NoPod}]
      BY <2>0, <2>2 DEF Objects!DeleteMismatchedPods
    <3> QED BY <2>0, <2>2, <2>a, <3>1, <3>2 DEF Objects!DeleteMismatchedPods
  <2>3. CASE Objects!EnsureIngress
    <3>1. ObjectsWork'
      BY <2>0, <2>3, ObjectsMoves, ObjectsRest DEF Objects!EnsureIngress
    <3>2. ingresses' \in [Objects!Hostnames -> Objects!Version]
      <4>1. InHand
        BY <2>3, <2>b DEF Objects!EnsureIngress
      <4>2. proc.spec.host \in [Objects!Hostnames -> Objects!Version]
        BY <2>c, <4>1 DEF InHand
      <4>3. \/ ingresses' = [h \in Objects!Hostnames |-> IF proc.spec.ingress THEN proc.spec.host[h] ELSE 0]
            \/ UNCHANGED ingresses
        BY <2>3 DEF Objects!EnsureIngress
      <4> QED BY <2>0, <2>d, <4>2, <4>3
    <3> QED BY <2>0, <2>3, <2>a, <3>1, <3>2 DEF Objects!EnsureIngress
  <2>4. CASE Objects!EnsureService
    <3>0. proc.pc = "service" /\ InHand
      BY <2>4, <2>b DEF Objects!EnsureService
    <3>1. CASE Objects!Goto("pods") /\ UNCHANGED services
      <4>1. ObjectsWork'
        BY <2>0, <3>0, <3>1, ObjectsMoves
      <4> QED BY <2>0, <2>4, <2>a, <3>1, <4>1 DEF Objects!EnsureService
    <3>2. ASSUME NEW p \in proc.todo,
                 services' = [services EXCEPT ![p] =
                   IF @ = Objects!NoService
                   THEN [labels |-> proc.spec.pools[p].labels, port |-> proc.spec.pools[p].port]
                   ELSE [@ EXCEPT !.labels = proc.spec.pools[p].labels]],
                 proc' = [pc |-> "maps", spec |-> proc.spec, todo |-> proc.todo \ {p}, pool |-> p]
          PROVE  ObjectsTypedInv'
      <4>1. ObjectsWork'
        BY <3>0, <3>2 DEF ObjectsWork, InHand
      <4>2. p \in Pools /\ proc.spec.pools[p].labels \in {1, 2} /\ proc.spec.pools[p].port \in {1, 2}
        BY <2>c, <3>0, <3>2 DEF InHand
      <4>3. services[p] = Objects!NoService \/ services[p] \in [labels : {1, 2}, port : {1, 2}]
        BY <2>0, <4>2
      <4>4. services' \in [Pools -> [labels : {1, 2}, port : {1, 2}] \cup {Objects!NoService}]
        BY <2>0, <3>2, <4>2, <4>3
      <4> QED BY <2>0, <2>4, <2>a, <4>1, <4>4 DEF Objects!EnsureService
    <3> QED BY <2>4, <3>1, <3>2 DEF Objects!EnsureService
  <2>5. CASE Objects!EnsureConfigMaps
    <3>0. proc.pc = "maps" /\ InHand /\ proc.pool \in Pools
      BY <2>0, <2>5, <2>b DEF Objects!EnsureConfigMaps, ObjectsWork
    <3>1. ObjectsWork'
      BY <2>0, <2>5, <3>0, ObjectsMoves DEF Objects!EnsureConfigMaps
    <3>2. maps' \in [Pools -> Objects!Version] /\ perms' \in Objects!Version
      BY <2>0, <2>5, <2>c, <3>0 DEF Objects!EnsureConfigMaps, InHand
    <3> QED BY <2>0, <2>5, <2>a, <3>1, <3>2 DEF Objects!EnsureConfigMaps
  <2>6. CASE Objects!ReconcileSinglePDB
    <3>0. proc.pc = "budget" /\ InHand /\ proc.pool \in Pools
      BY <2>0, <2>6, <2>b DEF Objects!ReconcileSinglePDB, ObjectsWork
    <3>1. ObjectsWork'
      BY <2>0, <2>6, <3>0, ObjectsMoves DEF Objects!ReconcileSinglePDB
    <3>2. budgets' \in [Pools -> Objects!Version]
      BY <2>0, <2>6, <2>c, <2>d, <3>0 DEF Objects!ReconcileSinglePDB, InHand
    <3> QED BY <2>0, <2>6, <2>a, <3>1, <3>2 DEF Objects!ReconcileSinglePDB
  <2>7. CASE Objects!EnsurePodsExist
    <3>0. proc.pc = "pods" /\ InHand
      BY <2>7, <2>b DEF Objects!EnsurePodsExist
    <3>1. ObjectsWork'
      BY <2>0, <2>7, <3>0, ObjectsMoves, ObjectsRest DEF Objects!EnsurePodsExist
    <3>2. pods' \in [Pools -> [kafka : Objects!Version, perms : Objects!Version] \cup {Objects!NoPod}]
      <4>1. \/ UNCHANGED pods
            \/ \E p \in Pools : \E k \in {maps[p], 0}, v \in {perms, 0} : pods' = [pods EXCEPT ![p] = [kafka |-> k, perms |-> v]]
        BY <2>7 DEF Objects!EnsurePodsExist, Objects!WithNodes, Objects!Listed
      <4> QED BY <2>0, <2>d, <4>1
    <3> QED BY <2>0, <2>7, <2>a, <3>1, <3>2 DEF Objects!EnsurePodsExist
  <2>8. CASE Objects!CleanupMaps \/ Objects!CleanupPermissions
    <3>1. ObjectsWork'
      BY <2>0, <2>8, ObjectsMoves DEF Objects!CleanupMaps, Objects!CleanupPermissions
    <3>2. maps' \in [Pools -> Objects!Version] /\ perms' \in Objects!Version
      BY <2>0, <2>8, <2>d DEF Objects!CleanupMaps, Objects!CleanupPermissions
    <3> QED BY <2>0, <2>8, <2>a, <3>1, <3>2 DEF Objects!CleanupMaps, Objects!CleanupPermissions
  <2>9. CASE Objects!CleanupServices \/ Objects!Fault
    <3>1. ObjectsWork'
      BY <2>9, ObjectsRest DEF Objects!CleanupServices, Objects!Fault
    <3>2. services' \in [Pools -> [labels : {1, 2}, port : {1, 2}] \cup {Objects!NoService}]
      BY <2>0, <2>9 DEF Objects!CleanupServices, Objects!Fault
    <3> QED BY <2>0, <2>9, <2>a, <3>1, <3>2 DEF Objects!CleanupServices, Objects!Fault
  <2>e. ASSUME UNCHANGED proc PROVE ObjectsWork'
    BY <2>0, <2>e DEF ObjectsWork
  <2>10. CASE Objects!EditCluster \/ \E p \in Pools : Objects!EditPool(p)
    <3>1. UNCHANGED <<services, maps, perms, budgets, ingresses, pods, proc>>
      BY <2>10, Zenon DEF Objects!EditCluster, Objects!EditPool, Objects!Edit
    <3> QED BY <2>0, <2>10, <2>a, <2>e, <3>1, SpecEditedType
  <2>11. ASSUME NEW p \in Pools, Objects!Lose(p) PROVE ObjectsTypedInv'
    <3>1. pods' \in [Pools -> [kafka : Objects!Version, perms : Objects!Version] \cup {Objects!NoPod}]
      BY <2>0, <2>11 DEF Objects!Lose
    <3>2. services' \in [Pools -> [labels : {1, 2}, port : {1, 2}] \cup {Objects!NoService}]
      BY <2>0, <2>11 DEF Objects!Lose
    <3>3. budgets' \in [Pools -> Objects!Version]
      BY <2>0, <2>11, <2>d DEF Objects!Lose
    <3> QED BY <2>0, <2>11, <2>a, <2>e, <3>1, <3>2, <3>3 DEF Objects!Lose
  <2>12. CASE UNCHANGED Objects!vars
    BY <2>0, <2>12, <2>a, <2>e DEF Objects!vars
  <2> QED BY <2>1, <2>2, <2>3, <2>4, <2>5, <2>6, <2>7, <2>8, <2>9, <2>10, <2>11, <2>12
          DEF Objects!Next, Objects!Work
<1> QED BY <1>1, <1>2

(* The worker of the admin token knows tokens that were made, and no others. *)
LEMMA AdminTyped ==
  ASSUME Admin!AdminTokenAssumption
  PROVE  /\ Admin!Init => Admin!TypeOK
         /\ Admin!TypeOK /\ [Admin!Next]_(Admin!vars) => Admin!TypeOK'
<1> DEFINE Read == Licenses \cup {Admin!None}
           OpUpTo(n) == [pc : {"idle", "read", "user", "validate", "rotate", "write", "compare", "show"},
                         desired : Read, installed : Read, token : 0..n]
<1> USE DEF Admin!TypeOK, Admin!Alone, Admin!Goto, Admin!At
<1>0. /\ 0 \in Admin!Tokens /\ 0 \in 0..0 /\ 0 \in 0..FaultsIn["admin"] /\ 0 \in 0..EditsIn["admin"]
      /\ \A n \in Nat : 0 \in 0..n /\ n \in 0..n /\ 0..n \subseteq 0..(n + 1) /\ n + 1 \in 0..(n + 1)
      /\ Admin!Tokens \subseteq Nat
  BY DEF Admin!AdminTokenAssumption, Admin!Tokens
<1>a. \A n \in Nat : Admin!Idle \in OpUpTo(n)
  BY <1>0 DEF Admin!Idle
<1>1. Admin!Init => Admin!TypeOK
  BY <1>0, <1>a DEF Admin!Init
<1>2. ASSUME Admin!TypeOK, [Admin!Next]_(Admin!vars) PROVE Admin!TypeOK'
  <2>a. made \in Nat /\ op \in OpUpTo(made) /\ Admin!Idle \in OpUpTo(made)
    BY <1>0, <1>a, <1>2
  <2>g. ASSUME NEW pc \in {"idle", "read", "user", "validate", "rotate", "write", "compare", "show"}, Admin!Goto(pc)
        PROVE  op' \in OpUpTo(made)
    BY <2>a, <2>g
  <2>r. Admin!Return => op' \in OpUpTo(made)
    BY <2>a, <2>g DEF Admin!Return
  <2>e. Admin!Edit => edits' \in 0..EditsIn["admin"] /\ UNCHANGED <<shown, state, made, away, op, faults>>
    BY <1>2 DEF Admin!Edit, Admin!AdminTokenAssumption
  <2>f. faults < FaultsIn["admin"] /\ faults' = faults + 1 => faults' \in 0..FaultsIn["admin"]
    BY <1>2 DEF Admin!AdminTokenAssumption
  <2>1. CASE Admin!EnsureLicenseIsValid
    BY <1>2, <2>a, <1>0, <2>1 DEF Admin!EnsureLicenseIsValid, Admin!Wanted, Admin!Idle
  <2>2. CASE Admin!GetLicense
    BY <1>2, <2>a, <2>2 DEF Admin!GetLicense
  <2>3. CASE Admin!CreateAndGetUser \/ Admin!ValidateAdminSecretContent
    BY <1>2, <2>g, <2>r, <2>3 DEF Admin!CreateAndGetUser, Admin!ValidateAdminSecretContent
  <2>4. CASE Admin!RotateUserApiToken
    <3>1. CASE away \/ ~user
      BY <1>2, <2>r, <2>4, <3>1 DEF Admin!RotateUserApiToken
    <3>2. CASE ~(away \/ ~user)
      <4>1. made' = made + 1 /\ works' = made + 1 /\ op' = [op EXCEPT !.pc = "write", !.token = made + 1]
            /\ UNCHANGED <<license, shown, state, user, secret, seen, wanted, away, edits, faults>>
        BY <2>4, <3>2 DEF Admin!RotateUserApiToken
      <4>2. made + 1 \in Admin!Tokens
        BY <2>a, <2>4 DEF Admin!RotateUserApiToken, Admin!Tokens, Admin!AdminTokenAssumption
      <4>3. op' \in OpUpTo(made + 1)
        BY <1>0, <2>a, <4>1
      <4> QED BY <1>0, <1>2, <2>a, <4>1, <4>2, <4>3
    <3> QED BY <3>1, <3>2
  <2>5. CASE Admin!EnsureAdminSecretContent
    <3>1. op' \in OpUpTo(made) /\ Admin!Content \in 0..made
      BY <2>a, <2>g, <2>5 DEF Admin!EnsureAdminSecretContent, Admin!Content
    <3> QED BY <1>2, <2>f, <2>5, <3>1 DEF Admin!EnsureAdminSecretContent, Admin!Seen
  <2>6. CASE Admin!UpdateLicense \/ Admin!ShowLicense
    BY <1>2, <2>a, <2>r, <2>6 DEF Admin!UpdateLicense, Admin!ShowLicense
  <2>7. CASE Admin!CacheCatchesUp \/ Admin!GoAway \/ Admin!ComeBack \/ Admin!Restart
    BY <1>2, <2>a, <2>f, <2>7 DEF Admin!CacheCatchesUp, Admin!GoAway, Admin!ComeBack, Admin!Restart
  <2>8. CASE Admin!EditLicense \/ Admin!RevokeToken \/ Admin!DeleteUser \/ Admin!DeleteSecret
    BY <1>0, <1>2, <2>a, <2>e, <2>8 DEF Admin!EditLicense, Admin!RevokeToken, Admin!DeleteUser, Admin!DeleteSecret
  <2>9. CASE UNCHANGED Admin!vars
    BY <1>2, <2>9 DEF Admin!vars
  <2> QED BY <1>2, <2>1, <2>2, <2>3, <2>4, <2>5, <2>6, <2>7, <2>8, <2>9 DEF Admin!Next, Admin!Reconcile, Admin!Others
<1> QED BY <1>1, <1>2

\* The configuration of a reconcile has a token once it was read, and then comes the client.
Number == {0} \cup Clients!Numbers
EarlyConfigs == [cluster : Clusters, https : BOOLEAN, slash : BOOLEAN, token : Number, ca : Number, insecure : BOOLEAN]
Early == [pc : {"url", "token"}, tls : BOOLEAN, config : EarlyConfigs, client : {Clients!NoClient}]
Late == [pc : {"ca", "client"}, tls : BOOLEAN, config : Clients!Configs, client : {Clients!NoClient}]
Calling == [pc : {"call"}, tls : BOOLEAN, config : Clients!Configs, client : Clients!HumioClient]
Showing == [pc : {"show"}, shown : {"Ready", "Unknown"}]
Callers == {Clients!Idle} \cup Early \cup Late \cup Calling \cup Showing

\* Authorities and tokens are numbered by the edits that renew them.
CallersInv ==
  /\ Clients!TypeOK
  /\ proc \in [Resources -> Callers]
  /\ edits \in 0..EditsIn["clients"]
  /\ \A c \in Clusters : authority[c] <= edits + 1 /\ token[c] <= edits + 1

LEMMA OneMore ==
  ASSUME NEW max \in Nat, NEW e \in 0..max, NEW a \in 1..(e + 1)
  PROVE  e \in Int /\ a <= e + 2 /\ (e + 1 <= max => a + 1 \in 1..(max + 1) /\ a + 1 <= e + 2)
OBVIOUS

(* A call has a client with a whole configuration. *)
LEMMA ClientsTyped ==
  ASSUME Clients!ClustersAssumption
  PROVE  /\ Clients!Init => CallersInv
         /\ CallersInv /\ [Clients!Next]_(Clients!vars) => CallersInv'
<1> USE DEF CallersInv, Clients!Outside
<1>0. EditsIn["clients"] \in Nat /\ 1 \in Clients!Numbers /\ Clients!Numbers = 1..(EditsIn["clients"] + 1)
  BY DEF Clients!ClustersAssumption, Clients!Numbers
<1>a. Clients!Idle \in Callers /\ Clients!Idle.pc = "idle"
  BY DEF Callers, Clients!Idle
<1>b. ASSUME NEW p \in Callers
      PROVE  /\ p.pc \in {"url", "token"} => p \in Early
             /\ p.pc \in {"ca", "client"} => p \in Late
             /\ p.pc = "show" => p \in Showing
  <2>1. CASE p = Clients!Idle
    BY <1>a, <2>1
  <2>2. CASE p \in Early
    BY <2>2 DEF Early
  <2>3. CASE p \in Late
    BY <2>3 DEF Late
  <2>4. CASE p \in Calling
    BY <2>4 DEF Calling
  <2>5. CASE p \in Showing
    BY <2>5 DEF Showing
  <2> QED BY <2>1, <2>2, <2>3, <2>4, <2>5 DEF Callers
<1>1. ASSUME Clients!Init PROVE CallersInv
  <2>1. /\ tls = [c \in Clusters |-> TRUE] /\ authority = [c \in Clusters |-> 1]
        /\ token = [c \in Clusters |-> 1] /\ secret = token
        /\ slots = [n \in Clients!Names |-> Clients!NoClient]
        /\ proc = [r \in Resources |-> Clients!Idle] /\ worked = [r \in Resources |-> FALSE]
        /\ state = "" /\ edits = 0
    BY <1>1, Zenon DEF Clients!Init
  <2>2. \A r \in Resources : proc[r].pc # "call"
    BY <1>a, <2>1
  <2>3. tls \in [Clusters -> BOOLEAN] /\ worked \in [Resources -> BOOLEAN]
    BY <2>1, Zenon
  <2>4. /\ authority \in [Clusters -> Clients!Numbers] /\ token \in [Clusters -> Clients!Numbers]
        /\ secret \in [Clusters -> {0} \cup Clients!Numbers]
        /\ slots \in [Clients!Names -> Clients!HumioClient \cup {Clients!NoClient}]
        /\ proc \in [Resources -> Callers]
    BY <1>0, <1>a, <2>1
  <2>5. edits \in 0..EditsIn["clients"] /\ \A c \in Clusters : authority[c] <= edits + 1 /\ token[c] <= edits + 1
    <3>1. edits = 0 /\ \A c \in Clusters : authority[c] = 1 /\ token[c] = 1
      BY <2>1
    <3> QED BY <1>0, <3>1
  <2> QED BY <2>1, <2>2, <2>3, <2>4, <2>5 DEF Clients!TypeOK
<1>2. ASSUME CallersInv, [Clients!Next]_(Clients!vars) PROVE CallersInv'
  <2>0. ClusterOf \in [Resources -> Clusters] /\ Ext \in Clusters /\ Slash \in BOOLEAN /\ Watcher \in Resources
    BY DEF Clients!ClustersAssumption
  <2>t. /\ tls \in [Clusters -> BOOLEAN] /\ authority \in [Clusters -> Clients!Numbers]
        /\ token \in [Clusters -> Clients!Numbers] /\ secret \in [Clusters -> {0} \cup Clients!Numbers]
        /\ slots \in [Clients!Names -> Clients!HumioClient \cup {Clients!NoClient}]
        /\ worked \in [Resources -> BOOLEAN] /\ state \in {"", "Unknown", "Ready"}
        /\ proc \in [Resources -> Callers] /\ edits \in 0..EditsIn["clients"]
        /\ \A c \in Clusters : authority[c] <= edits + 1 /\ token[c] <= edits + 1
    BY <1>2 DEF Clients!TypeOK
  <2>c. \A p \in Callers : p.pc = "call" => p.config \in Clients!Configs /\ p.client \in Clients!HumioClient
    BY DEF Callers, Clients!Idle, Early, Late, Calling, Showing
  \* A step of one reconcile.
  <2>s. ASSUME NEW r \in Resources, NEW p \in Callers, Clients!Step(r, p),
               slots' \in [Clients!Names -> Clients!HumioClient \cup {Clients!NoClient}],
               worked' \in [Resources -> BOOLEAN], state' \in {"", "Unknown", "Ready"},
               UNCHANGED <<tls, authority, token, secret, edits>>
        PROVE  CallersInv'
    <3>1. proc' \in [Resources -> Callers]
      BY <2>t, <2>s DEF Clients!Step
    <3> QED BY <2>t, <2>c, <2>s, <3>1 DEF Clients!TypeOK
  <2>1. ASSUME NEW r \in Resources, Clients!StartReconcile(r) PROVE CallersInv'
    <3> DEFINE c == ClusterOf[r]
               p == [pc |-> IF c = Ext THEN "token" ELSE "url", tls |-> tls[c], client |-> Clients!NoClient,
                     config |-> [cluster |-> c, https |-> tls[c], slash |-> IF c = Ext THEN Slash ELSE TRUE,
                                 token |-> 0, ca |-> 0, insecure |-> FALSE]]
    <3>1. p.config \in EarlyConfigs
      BY <2>0, <2>t DEF EarlyConfigs, Number
    <3>2. p \in Callers
      BY <2>0, <2>t, <3>1 DEF Callers, Early
    <3>3. Clients!Step(r, p) /\ state' \in {"", "Unknown", "Ready"}
      BY <2>t, <2>1 DEF Clients!StartReconcile
    <3> QED BY <2>s, <2>t, <2>1, <3>2, <3>3 DEF Clients!StartReconcile
  <2>2. ASSUME NEW r \in Resources, Clients!ReadUrl(r) PROVE CallersInv'
    <3> DEFINE config == [proc[r].config EXCEPT !.https = tls[ClusterOf[r]]]
               p == [proc[r] EXCEPT !.pc = "token", !.config = config]
    <3>1. proc[r] \in Early
      BY <1>b, <2>t, <2>2 DEF Clients!ReadUrl
    <3>2. p \in Callers
      BY <2>0, <2>t, <3>1 DEF Callers, Early, EarlyConfigs
    <3> QED BY <2>s, <2>t, <2>2, <3>2 DEF Clients!ReadUrl, Clients!With
  <2>3. ASSUME NEW r \in Resources, Clients!ReadToken(r) PROVE CallersInv'
    <3> DEFINE s == secret[ClusterOf[r]]
               config == [proc[r].config EXCEPT !.token = s]
               p == [proc[r] EXCEPT !.pc = "ca", !.config = config]
    <3>1. proc[r] \in Early
      BY <1>b, <2>t, <2>3 DEF Clients!ReadToken
    <3>2. CASE s = 0
      BY <1>a, <2>0, <2>s, <2>t, <2>3, <3>2 DEF Clients!ReadToken
    <3>3. CASE s # 0
      <4>1. s \in Clients!Numbers
        BY <2>0, <2>t, <3>3
      <4>2. config \in Clients!Configs
        BY <3>1, <4>1 DEF Early, EarlyConfigs, Clients!Configs, Number
      <4>3. p \in Callers
        BY <3>1, <4>2 DEF Callers, Early, Late
      <4> QED BY <2>s, <2>t, <2>3, <3>3, <4>3 DEF Clients!ReadToken, Clients!With
    <3> QED BY <3>2, <3>3
  <2>4. ASSUME NEW r \in Resources, Clients!ReadCA(r) PROVE CallersInv'
    <3> DEFINE config == [proc[r].config EXCEPT !.ca = IF proc[r].tls THEN authority[ClusterOf[r]] ELSE 0,
                                                !.insecure = ~proc[r].tls]
               p == [proc[r] EXCEPT !.pc = "client", !.config = config]
    <3>1. proc[r] \in Late
      BY <1>b, <2>t, <2>4 DEF Clients!ReadCA
    <3>2. config \in Clients!Configs
      BY <2>0, <2>t, <3>1 DEF Late, Clients!Configs
    <3>3. p \in Callers
      BY <3>1, <3>2 DEF Callers, Late
    <3> QED BY <2>s, <2>t, <2>4, <3>3 DEF Clients!ReadCA, Clients!With
  <2>5. ASSUME NEW r \in Resources, Clients!GetHumioHttpClient(r) PROVE CallersInv'
    <3> DEFINE n == NameOf[r]
               config == proc[r].config
               fresh == [id |-> IF slots[n] = Clients!NoClient THEN 0 ELSE 1 - slots[n].transport.id,
                         ca |-> config.ca, insecure |-> config.insecure]
               kept == slots[n] # Clients!NoClient /\ Clients!Same(slots[n].config, config)
               client == [config |-> Clients!Slashed(config), transport |-> IF kept THEN slots[n].transport ELSE fresh]
               p == [proc[r] EXCEPT !.pc = "call", !.client = client]
    <3>1. proc[r] \in Late /\ n \in Clients!Names
      BY <1>b, <2>t, <2>5 DEF Clients!GetHumioHttpClient, Clients!Names
    <3>2. slots[n] = Clients!NoClient \/ slots[n] \in Clients!HumioClient
      BY <2>t, <3>1
    <3>3. fresh \in Clients!Transports
      <4>1. CASE slots[n] = Clients!NoClient
        BY <3>1, <4>1 DEF Clients!Transports, Late, Clients!Configs
      <4>2. CASE slots[n] # Clients!NoClient
        BY <3>1, <3>2, <4>2 DEF Clients!Transports, Late, Clients!Configs, Clients!HumioClient
      <4> QED BY <4>1, <4>2
    <3>4. kept => slots[n].transport \in Clients!Transports
      BY <3>2 DEF Clients!HumioClient
    <3>5. Clients!Slashed(config) \in Clients!Configs
      BY <3>1 DEF Late, Clients!Slashed, Clients!Configs
    <3>6. client \in Clients!HumioClient
      <4> HIDE DEF fresh, kept
      <4> QED BY <3>3, <3>4, <3>5 DEF Clients!HumioClient
    <3>7. slots' = [slots EXCEPT ![n] = client] /\ Clients!Step(r, p) /\ UNCHANGED <<worked, state>>
      BY <2>5 DEF Clients!GetHumioHttpClient
    <3> HIDE DEF client
    <3>8. p \in Callers
      BY <3>1, <3>6 DEF Callers, Late, Calling
    <3>9. slots' \in [Clients!Names -> Clients!HumioClient \cup {Clients!NoClient}]
      BY <2>t, <3>1, <3>6, <3>7
    <3> QED BY <2>s, <2>t, <2>5, <3>7, <3>8, <3>9 DEF Clients!GetHumioHttpClient
  <2>6. ASSUME NEW r \in Resources, Clients!Call(r) PROVE CallersInv'
    <3>1. \A ok \in BOOLEAN : [pc |-> "show", shown |-> IF ok THEN "Ready" ELSE "Unknown"] \in Callers
      BY DEF Callers, Showing
    <3>2. Clients!Answered(proc[r].client) \in BOOLEAN
      BY DEF Clients!Answered
    <3> DEFINE ok == Clients!Answered(proc[r].client)
               p == IF r = Watcher THEN [pc |-> "show", shown |-> IF ok THEN "Ready" ELSE "Unknown"] ELSE Clients!Idle
    <3>3. Clients!Step(r, p) /\ worked' = [worked EXCEPT ![r] = ok] /\ UNCHANGED <<slots, state>>
      BY <2>6 DEF Clients!Call
    <3>4. p \in Callers /\ ok \in BOOLEAN
      BY <1>a, <3>1, <3>2
    <3> HIDE DEF p, ok
    <3>5. worked' \in [Resources -> BOOLEAN]
      BY <2>t, <3>3, <3>4
    <3> QED BY <2>s, <2>t, <2>6, <3>3, <3>4, <3>5 DEF Clients!Call
  <2>7. ASSUME Clients!ShowState PROVE CallersInv'
    <3>1. proc[Watcher] \in Showing
      BY <1>b, <2>0, <2>t, <2>7 DEF Clients!ShowState
    <3> QED BY <1>a, <2>0, <2>s, <2>t, <2>7, <3>1 DEF Clients!ShowState, Showing
  <2>8. ASSUME NEW r \in Resources, Clients!Fault(r) PROVE CallersInv'
    BY <1>a, <2>s, <2>t, <2>8 DEF Clients!Fault
  <2>9. ASSUME Clients!Restart PROVE CallersInv'
    <3>1. /\ proc' \in [Resources -> Callers] /\ \A r \in Resources : proc'[r].pc # "call"
          /\ slots' \in [Clients!Names -> Clients!HumioClient \cup {Clients!NoClient}]
      BY <1>a, <2>9 DEF Clients!Restart
    <3> QED BY <2>t, <2>9, <3>1 DEF Clients!Restart, Clients!TypeOK
  \* An edit.
  <2>m. Clients!Edit => /\ edits' = edits + 1 /\ edits + 1 <= EditsIn["clients"]
                       /\ edits' \in 0..EditsIn["clients"]
    <3>1. edits \in 0..EditsIn["clients"] /\ EditsIn["clients"] \in Nat
      BY <1>0, <2>t
    <3> QED BY <3>1 DEF Clients!Edit
  <2>e. ASSUME Clients!Edit, tls' \in [Clusters -> BOOLEAN], authority' \in [Clusters -> Clients!Numbers],
               token' \in [Clusters -> Clients!Numbers], secret' \in [Clusters -> {0} \cup Clients!Numbers],
               \A c \in Clusters : authority'[c] <= edits + 2 /\ token'[c] <= edits + 2
        PROVE  CallersInv'
    <3>1. edits' \in 0..EditsIn["clients"] /\ edits' + 1 = edits + 2 /\ UNCHANGED <<slots, proc, worked, state>>
      <4>1. edits \in 0..EditsIn["clients"] /\ EditsIn["clients"] \in Nat
        BY <1>0, <2>t
      <4> QED BY <2>m, <2>e, <4>1 DEF Clients!Edit
    <3> QED BY <2>t, <2>c, <2>e, <3>1 DEF Clients!TypeOK
  <2>n. ASSUME NEW c \in Clusters
        PROVE  /\ authority[c] <= edits + 2 /\ token[c] <= edits + 2
               /\ Clients!Edit => /\ authority[c] + 1 \in Clients!Numbers /\ token[c] + 1 \in Clients!Numbers
                                  /\ authority[c] + 1 <= edits + 2 /\ token[c] + 1 <= edits + 2
    <3>1. /\ edits \in 0..EditsIn["clients"] /\ EditsIn["clients"] \in Nat
          /\ authority[c] \in 1..(edits + 1) /\ token[c] \in 1..(edits + 1)
      <4>1. /\ authority[c] \in 1..(EditsIn["clients"] + 1) /\ token[c] \in 1..(EditsIn["clients"] + 1)
            /\ authority[c] <= edits + 1 /\ token[c] <= edits + 1
        BY <1>0, <2>t
      <4>2. edits \in 0..EditsIn["clients"] /\ EditsIn["clients"] \in Nat
        BY <1>0, <2>t
      <4> QED BY <4>1, <4>2
    <3>2. Clients!Edit => edits + 1 <= EditsIn["clients"]
      BY <2>m, <3>1
    <3>3. /\ authority[c] <= edits + 2
          /\ Clients!Edit => authority[c] + 1 \in Clients!Numbers /\ authority[c] + 1 <= edits + 2
      BY <1>0, <3>1, <3>2, OneMore
    <3>4. /\ token[c] <= edits + 2
          /\ Clients!Edit => token[c] + 1 \in Clients!Numbers /\ token[c] + 1 <= edits + 2
      BY <1>0, <3>1, <3>2, OneMore
    <3> QED BY <3>3, <3>4
  <2>10. ASSUME NEW c \in Clusters, Clients!ToggleTLS(c) PROVE CallersInv'
    <3>1. tls' \in [Clusters -> BOOLEAN]
      BY <2>t, <2>10 DEF Clients!ToggleTLS
    <3> QED BY <2>e, <2>t, <2>n, <2>10, <3>1 DEF Clients!ToggleTLS
  <2>11. ASSUME NEW c \in Clusters, Clients!RenewAuthority(c) PROVE CallersInv'
    <3>1. authority' \in [Clusters -> Clients!Numbers] /\ \A d \in Clusters : authority'[d] <= edits + 2
      BY <2>t, <2>n, <2>11 DEF Clients!RenewAuthority
    <3> QED BY <2>e, <2>t, <2>n, <2>11, <3>1 DEF Clients!RenewAuthority
  <2>12. ASSUME NEW c \in Clusters, Clients!RenewToken(c) PROVE CallersInv'
    <3>1. token' \in [Clusters -> Clients!Numbers] /\ \A d \in Clusters : token'[d] <= edits + 2
      BY <2>t, <2>n, <2>12 DEF Clients!RenewToken
    <3>2. secret' \in [Clusters -> {0} \cup Clients!Numbers]
      BY <2>t, <2>12, <3>1 DEF Clients!RenewToken
    <3> QED BY <2>e, <2>t, <2>n, <2>12, <3>1, <3>2 DEF Clients!RenewToken
  <2>13. ASSUME Clients!WriteSecret \/ Clients!DeleteSecret PROVE CallersInv'
    <3>1. secret' \in [Clusters -> {0} \cup Clients!Numbers]
      BY <2>0, <2>t, <2>13 DEF Clients!WriteSecret, Clients!DeleteSecret
    <3> QED BY <2>e, <2>t, <2>n, <2>13, <3>1 DEF Clients!WriteSecret, Clients!DeleteSecret
  <2>14. CASE UNCHANGED Clients!vars
    BY <2>t, <2>c, <2>14 DEF Clients!vars, Clients!TypeOK
  <2> QED BY <1>2, <2>0, <2>1, <2>2, <2>3, <2>4, <2>5, <2>6, <2>7, <2>8, <2>9, <2>10, <2>11, <2>12, <2>13, <2>14
          DEF Clients!Next, Clients!Work, Clients!Others
<1> QED BY <1>1, <1>2

(* Annotations are counted by their edits, and the worker knows the revision, which only it raises. *)
AccountsInv ==
  /\ Accounts!TypeOK
  /\ edits \in 0..EditsIn["accounts"] /\ annotations = edits + 1
  /\ \/ proc = Accounts!Idle
     \/ /\ proc = [pc |-> proc.pc, annotations |-> proc.annotations, revision |-> revision]
        /\ proc.annotations \in Accounts!Numbers

(* What was annotated, and under which revision, is known by number. *)
LEMMA AccountsTyped ==
  ASSUME Accounts!PodsAssumption
  PROVE  /\ Accounts!Init => AccountsInv
         /\ AccountsInv /\ [Accounts!Next]_(Accounts!vars) => AccountsInv'
<1> USE DEF AccountsInv, Accounts!TypeOK, Accounts!Alone, Accounts!Goto
<1>0. /\ EditsIn["accounts"] \in Nat /\ 1 \in Accounts!Numbers
      /\ \A n \in 0..EditsIn["accounts"] : n + 1 \in Accounts!Numbers
  BY DEF Accounts!PodsAssumption, Accounts!Numbers
<1>1. Accounts!Init => AccountsInv
  BY <1>0 DEF Accounts!Init
<1>2. ASSUME AccountsInv, [Accounts!Next]_(Accounts!vars) PROVE AccountsInv'
  <2> DEFINE Made(n) == [annotations : Accounts!Numbers, revision : 1..n] \cup {Accounts!NoPod}
  <2> DEFINE Shaped == /\ proc = [pc |-> proc.pc, annotations |-> proc.annotations, revision |-> revision]
                       /\ proc.annotations \in Accounts!Numbers
  <2>g. ASSUME NEW pc, proc.pc # "idle", Accounts!Goto(pc), UNCHANGED revision PROVE Shaped'
    BY <1>2, <2>g DEF Accounts!Idle
  <2>a. revision \in Nat \ {0} /\ pods \in [AccountPods -> Made(revision)]
    BY <1>2
  <2>b. \A p \in AccountPods : [pods EXCEPT ![p] = Accounts!NoPod] \in [AccountPods -> Made(revision)]
    BY <2>a
  <2>1. CASE Accounts!StartReconcile
    BY <1>0, <1>2, <2>1 DEF Accounts!StartReconcile
  <2>2. CASE Accounts!DeleteMismatchedPod
    <3>1. pods' \in [AccountPods -> Made(revision)]
      BY <2>a, <2>b, <2>2 DEF Accounts!DeleteMismatchedPod
    <3>2. Shaped'
      BY <1>2, <2>g, <2>2 DEF Accounts!DeleteMismatchedPod
    <3> QED BY <1>2, <2>2, <3>1, <3>2 DEF Accounts!DeleteMismatchedPod
  <2>3. CASE Accounts!EnsureServiceAccountExists \/ Accounts!EnsureServiceAccountAnnotations
    <3>1. proc.annotations \in Accounts!Numbers /\ Shaped'
      BY <1>2, <2>g, <2>3 DEF Accounts!EnsureServiceAccountExists, Accounts!EnsureServiceAccountAnnotations, Accounts!Idle
    <3> QED BY <1>2, <2>3, <3>1 DEF Accounts!EnsureServiceAccountExists, Accounts!EnsureServiceAccountAnnotations
  <2>4. CASE Accounts!RaiseRevision
    <3>1. revision' = revision + 1
      BY <1>2, <2>4 DEF Accounts!RaiseRevision, Accounts!Idle
    <3>2. pods \in [AccountPods -> Made(revision + 1)]
      <4>1. 1..revision \subseteq 1..(revision + 1)
        BY <2>a
      <4> HIDE DEF AccountsInv
      <4> QED BY <2>a, <4>1
    <3> QED BY <1>2, <2>a, <2>4, <3>1, <3>2 DEF Accounts!RaiseRevision
  <2>5. CASE Accounts!EnsurePodsExist
    <3>1. proc.revision \in 1..revision
      BY <1>2, <2>a, <2>5 DEF Accounts!EnsurePodsExist, Accounts!Idle
    <3>2. pods' \in [AccountPods -> Made(revision)]
      BY <1>2, <2>a, <2>5, <3>1 DEF Accounts!EnsurePodsExist, Accounts!None
    <3> QED BY <1>2, <2>5, <3>2 DEF Accounts!EnsurePodsExist
  <2>6. CASE Accounts!Fault
    BY <1>2, <2>6 DEF Accounts!Fault
  <2>7. CASE Accounts!EditAnnotations
    BY <1>0, <1>2, <2>7 DEF Accounts!EditAnnotations, Accounts!Numbers
  <2>8. CASE Accounts!LoseAccount
    BY <1>2, <2>8 DEF Accounts!LoseAccount, Accounts!Hurt
  <2>9. CASE \E p \in AccountPods : Accounts!LosePod(p)
    <3>1. pods' \in [AccountPods -> Made(revision)]
      BY <2>a, <2>b, <2>9 DEF Accounts!LosePod
    <3> QED BY <1>2, <2>9, <3>1 DEF Accounts!LosePod, Accounts!Hurt
  <2>10. CASE UNCHANGED Accounts!vars
    BY <1>2, <2>10 DEF Accounts!vars
  <2> QED BY <1>2, <2>1, <2>2, <2>3, <2>4, <2>5, <2>6, <2>7, <2>8, <2>9, <2>10 DEF Accounts!Next, Accounts!Work
<1> QED BY <1>1, <1>2

AssignmentsInv == Assignments!TypeOK /\ spec \in [Roles -> Assignments!Specs]

(* Roles are assigned in places that there are. *)
LEMMA AssignmentsTyped ==
  ASSUME Assignments!RoleAssumption
  PROVE  /\ Assignments!Init => AssignmentsInv
         /\ AssignmentsInv /\ [Assignments!Next]_(Assignments!vars) => AssignmentsInv'
<1> DEFINE Worker == [pc : Assignments!Steps, role : Roles, spec : Assignments!Specs,
                      take : SUBSET Assignments!Places, give : SUBSET Assignments!Places]
           maxEdits == EditsIn["roles"]
           maxFaults == FaultsIn["roles"]
<1> USE DEF AssignmentsInv, Assignments!TypeOK, Assignments!Alone
<1>0. /\ maxEdits \in Nat /\ maxFaults \in Nat
      /\ \A r \in Roles : \A s \in SpecsOf(r) : s \in Assignments!Specs
      /\ \A s \in Assignments!Specs : s.perms \in Assignments!Perms /\ s.places \subseteq Assignments!Places
  BY DEF Assignments!RoleAssumption, Assignments!Specs
<1>1. Assignments!Init => AssignmentsInv
  BY <1>0 DEF Assignments!Init
<1>2. ASSUME AssignmentsInv, [Assignments!Next]_(Assignments!vars) PROVE AssignmentsInv'
  <2>w. proc.pc # "idle" => proc \in Worker
    BY <1>2 DEF Assignments!Idle
  <2>i. Assignments!Idle.pc = "idle"
    BY DEF Assignments!Idle
  <2>g. ASSUME NEW r \in Roles, NEW pc \in Assignments!Steps
        PROVE  /\ Assignments!Goto(pc, r, spec[r]) \in Worker
               /\ [Assignments!Goto(pc, r, spec[r]) EXCEPT !.take = Assignments!Seen(r)] \in Worker
    BY <1>2, <2>g, SeenArePlaces DEF Assignments!Goto
  <2>o. ASSUME proc \in Worker, role' = [role EXCEPT ![proc.role] = proc.spec.perms]
        PROVE  role' \in [Roles -> Assignments!Perms \cup {Assignments!NoRole}]
    BY <1>0, <1>2, <2>o
  <2>s. {"create", "list", "permissions", "assignments", "unassign", "delete"} = Assignments!Steps
    BY DEF Assignments!Steps
  <2>a. ASSUME NEW r \in Roles \cup OtherRoles, NEW p \in groups \X Views
        PROVE  Assignments!Give(r, p) \subseteq Assignments!AnyRole \X groups \X Views
    BY <1>2, <2>a DEF Assignments!Give, Assignments!AnyRole
  <2>t. ASSUME NEW r, NEW p PROVE Assignments!Take(r, p) \subseteq Assignments!AnyRole \X groups \X Views
    BY <1>2 DEF Assignments!Take
  <2>e. Assignments!Edit => edits' \in 0..maxEdits /\ UNCHANGED <<proc, faults>>
    BY <1>0, <1>2 DEF Assignments!Edit
  <2>1. ASSUME NEW r \in Roles, Assignments!Reconcile(r) PROVE AssignmentsInv'
    <3>1. proc' = Assignments!Idle \/ proc' \in Worker
      BY <2>1, <2>g, <2>s DEF Assignments!Reconcile
    <3> QED BY <1>2, <2>1, <3>1 DEF Assignments!Reconcile
  <2>2. ASSUME NEW r \in Roles, Assignments!ReconcileDeleted(r) PROVE AssignmentsInv'
    <3>1. proc' = Assignments!Idle \/ proc' \in Worker
      BY <2>2, <2>g, <2>s DEF Assignments!ReconcileDeleted, Assignments!Finalize
    <3> QED BY <1>2, <2>2, <3>1 DEF Assignments!ReconcileDeleted
  <2>3. ASSUME NEW r \in Roles, Assignments!EditSpec(r) PROVE AssignmentsInv'
    <3>1. spec' \in [Roles -> Assignments!Specs] /\ \A q \in Roles : spec'[q] \in SpecsOf(q)
      BY <1>0, <1>2, <2>3 DEF Assignments!EditSpec
    <3> QED BY <1>2, <2>e, <2>3, <3>1 DEF Assignments!EditSpec
  <2>4. ASSUME NEW r \in Roles, Assignments!DeleteResource(r) PROVE AssignmentsInv'
    BY <1>2, <2>e, <2>4 DEF Assignments!DeleteResource
  <2>5. CASE Assignments!AddRole \/ Assignments!UpdateRole
    BY <1>2, <2>w, <2>o, <2>s, <2>5 DEF Assignments!AddRole, Assignments!UpdateRole
  <2>6. CASE Assignments!ListRoles
    BY <1>2, <2>w, <2>s, <2>6, SeenArePlaces, <1>0 DEF Assignments!ListRoles, Assignments!Difference
  <2>7. CASE Assignments!Unassign
    BY <1>2, <2>w, <2>t, <2>7 DEF Assignments!Unassign
  <2>8. CASE Assignments!Assign
    <3>1. PICK p \in proc.give : \/ p[1] \in groups /\ assigned' = Assignments!Give(proc.role, p)
                                   /\ proc' = [proc EXCEPT !.give = @ \ {p}]
                                 \/ assigned' = assigned /\ proc' = Assignments!Idle
      BY <2>8 DEF Assignments!Assign
    <3>2. proc \in Worker /\ p \in Assignments!Places
      BY <2>w, <2>8 DEF Assignments!Assign
    <3>3. assigned' \subseteq Assignments!AnyRole \X groups \X Views
      BY <1>2, <2>a, <3>1, <3>2 DEF Assignments!Places
    <3>4. proc' = Assignments!Idle \/ proc' \in Worker
      BY <3>1, <3>2
    <3> QED BY <1>2, <2>8, <3>3, <3>4 DEF Assignments!Assign
  <2>9. CASE Assignments!Done \/ Assignments!Unassigned
    BY <1>2, <2>w, <2>s, <2>9 DEF Assignments!Done, Assignments!Unassigned
  <2>10. CASE Assignments!DeleteRole
    BY <1>2, <2>w, <2>10 DEF Assignments!DeleteRole
  <2>11. CASE Assignments!Fault
    BY <1>0, <1>2, <2>11 DEF Assignments!Fault
  <2>12. ASSUME NEW q \in OtherRoles, Assignments!AssignOther(q) PROVE AssignmentsInv'
    BY <1>2, <2>a, <2>e, <2>12 DEF Assignments!AssignOther
  <2>13. ASSUME NEW g \in Groups, Assignments!GroupGoes(g) PROVE AssignmentsInv'
    <3>1. assigned' \subseteq Assignments!AnyRole \X groups' \X Views
      BY <1>2, <2>13 DEF Assignments!GroupGoes
    <3> QED BY <1>2, <2>e, <2>13, <3>1 DEF Assignments!GroupGoes
  <2>14. ASSUME NEW g \in Groups, Assignments!GroupComes(g) PROVE AssignmentsInv'
    <3>1. assigned' \subseteq Assignments!AnyRole \X groups' \X Views
      BY <1>2, <2>14 DEF Assignments!GroupComes
    <3> QED BY <1>2, <2>14, <3>1 DEF Assignments!GroupComes
  <2>15. CASE UNCHANGED Assignments!vars
    BY <1>2, <2>15 DEF Assignments!vars
  <2> QED BY <1>2, <2>1, <2>2, <2>3, <2>4, <2>5, <2>6, <2>7, <2>8, <2>9, <2>10, <2>11, <2>12, <2>13, <2>14, <2>15
          DEF Assignments!Next, Assignments!Work
<1> QED BY <1>1, <1>2

(* The worker of a repository has an attribute in hand that there is. *)
LEMMA RetentionTyped ==
  ASSUME Retention!RetentionAssumption
  PROVE  /\ Retention!Init => Retention!TypeOK
         /\ Retention!TypeOK /\ [Retention!Next]_(Retention!vars) => Retention!TypeOK'
<1> DEFINE Worker == [pc : {"create", "read", "update", "delete"}, spec : RepoSpecs,
                      seen : [Retention!Attributes -> Retention!Values], next : 1..Len(Retention!Order)]
           maxEdits == EditsIn["retention"]
           maxFaults == FaultsIn["retention"]
<1> USE DEF Retention!TypeOK, Retention!Alone
<1>0. /\ maxEdits \in Nat /\ maxFaults \in Nat /\ 0 \in Retention!Values /\ Top \in Retention!Values
      /\ \A s \in RepoSpecs : s.want \in [Retention!Attributes -> Retention!Values] /\ s.allow \in BOOLEAN
      /\ Retention!Limits \subseteq Retention!Attributes
  BY DEF Retention!RetentionAssumption, Retention!Values, Retention!Limits, Retention!Attributes
<1>a. Len(Retention!Order) = 5 /\ \A i \in 1..5 : Retention!Order[i] \in Retention!Attributes
  BY DEF Retention!Order, Retention!Attributes
<1>1. Retention!Init => Retention!TypeOK
  <2>1. /\ Retention!New \in [Retention!Attributes -> Retention!Values]
        /\ [a \in Retention!Attributes |-> Top] \in [Retention!Attributes -> Retention!Values]
        /\ Retention!Nothing \in [Retention!Limits -> Retention!Values]
        /\ [l \in Retention!Limits |-> Top] \in [Retention!Limits -> Retention!Values]
    BY <1>0 DEF Retention!New, Retention!Nothing
  <2>2. 0 \in 0..maxEdits /\ 0 \in 0..maxFaults
    BY <1>0
  <2> QED BY <2>1, <2>2 DEF Retention!Init
<1>2. ASSUME Retention!TypeOK, [Retention!Next]_(Retention!vars) PROVE Retention!TypeOK'
  <2>w. proc.pc # "idle" => proc \in Worker
    BY <1>2 DEF Retention!Idle
  <2>g. ASSUME NEW pc \in {"create", "read", "update", "delete"}
        PROVE  Retention!Goto(pc) \in Worker
    BY <1>a, <1>2, <2>g DEF Retention!Goto
  <2>b. ASSUME NEW r \in [Retention!Attributes -> Retention!Values], Retention!Become(r)
        PROVE  exists' \in BOOLEAN /\ repo' \in [Retention!Attributes -> Retention!Values] /\ data' \in [Retention!Limits -> Retention!Values]
    BY <1>0, <1>2, <2>b DEF Retention!Become, Retention!Cut
  <2>e. Retention!Edit => edits' \in 0..maxEdits /\ UNCHANGED <<proc, faults>>
    BY <1>0, <1>2 DEF Retention!Edit
  <2>1. CASE Retention!Reconcile \/ Retention!ReconcileDeleted
    <3>1. proc' = Retention!Idle \/ proc' \in Worker
      BY <1>2, <2>1, <2>g DEF Retention!Reconcile, Retention!ReconcileDeleted
    <3> QED BY <1>2, <2>1, <3>1 DEF Retention!Reconcile, Retention!ReconcileDeleted
  <2>2. CASE Retention!AddRepository
    <3> DEFINE r == [a \in Retention!Attributes |-> IF a \in Retention!Limits THEN proc.spec.want[a] ELSE 0]
    <3>1. r \in [Retention!Attributes -> Retention!Values]
      BY <1>0, <2>w, <2>2 DEF Retention!AddRepository
    <3>2. Retention!Become(r) \/ UNCHANGED <<exists, repo, data>>
      BY <2>2 DEF Retention!AddRepository
    <3> HIDE DEF r
    <3> QED BY <1>2, <2>b, <2>2, <3>1, <3>2 DEF Retention!AddRepository
  <2>3. CASE Retention!GetRepository
    BY <1>2, <2>w, <2>3 DEF Retention!GetRepository
  <2>4. CASE Retention!UpdateAttribute
    <3>0. proc \in Worker
      BY <2>w, <2>4 DEF Retention!UpdateAttribute
    <3> DEFINE a == Retention!Order[proc.next]
               r == [repo EXCEPT ![a] = proc.spec.want[a]]
    <3>1. a \in Retention!Attributes /\ r \in [Retention!Attributes -> Retention!Values]
      BY <1>0, <1>a, <1>2, <3>0
    <3>2. Retention!Become(r) \/ UNCHANGED <<exists, repo, data>>
      BY <2>4 DEF Retention!UpdateAttribute
    <3>3. Retention!Advance(proc) = Retention!Idle \/ Retention!Advance(proc) \in Worker
      <4>1. proc.next \in 1..5
        BY <1>a, <3>0
      <4>2. proc.next < 5 => proc.next + 1 \in 1..5
        BY <4>1
      <4> QED BY <1>a, <3>0, <4>2 DEF Retention!Advance
    <3>4. proc' = Retention!Idle \/ proc' = Retention!Advance(proc)
      BY <2>4 DEF Retention!UpdateAttribute
    <3> HIDE DEF r
    <3> QED BY <1>2, <2>b, <2>4, <3>1, <3>2, <3>3, <3>4 DEF Retention!UpdateAttribute
  <2>5. CASE Retention!DeleteRepository
    BY <1>0, <1>2, <2>5 DEF Retention!DeleteRepository, Retention!New, Retention!Nothing
  <2>6. CASE Retention!Fault
    BY <1>0, <1>2, <2>6 DEF Retention!Fault
  <2>7. CASE Retention!EditSpec \/ Retention!DeleteResource
    BY <1>2, <2>e, <2>7 DEF Retention!EditSpec, Retention!DeleteResource
  <2>8. CASE Retention!EditRepository
    <3>1. PICK a \in Retention!Attributes, v \in Retention!Values : Retention!Become([repo EXCEPT ![a] = v])
      BY <2>8 DEF Retention!EditRepository
    <3>2. [repo EXCEPT ![a] = v] \in [Retention!Attributes -> Retention!Values]
      BY <1>2
    <3> QED BY <1>2, <2>b, <2>e, <2>8, <3>1, <3>2 DEF Retention!EditRepository
  <2>9. CASE Retention!Ingest
    <3>1. data' \in [Retention!Limits -> Retention!Values]
      BY <1>0, <1>2, <2>9 DEF Retention!Ingest, Retention!Cut
    <3> QED BY <1>2, <2>9, <3>1 DEF Retention!Ingest
  <2>10. CASE UNCHANGED Retention!vars
    BY <1>2, <2>10 DEF Retention!vars
  <2> QED BY <1>2, <2>1, <2>2, <2>3, <2>4, <2>5, <2>6, <2>7, <2>8, <2>9, <2>10 DEF Retention!Next, Retention!Operator, Retention!Work
<1> QED BY <1>1, <1>2

\* While kept connections are updated, they are there.
ConnectionsTypedInv ==
  /\ Connections!TypeOK
  /\ ConnectionsInv
  /\ proc.pc = "update" => Connections!There(proc.spec.conns) \subseteq Connections!There(view.conns)

LEMMA TokensAreThese ==
  /\ 0 \in Connections!Tokens
  /\ \A s \in Secrets : s["token"] \in Connections!Tokens
<1>1. 0 \in Connections!Tokens
  BY DEF Connections!Tokens
<1>2. ASSUME NEW s \in Secrets PROVE s["token"] \in Connections!Tokens
  <2>1. "token" \in Connections!Keys
    BY DEF Connections!Keys
  <2>2. s["token"] \in {s[k] : k \in Connections!Keys}
    BY <2>1, Zenon
  <2>3. {s[k] : k \in Connections!Keys} \in {{r[k] : k \in Connections!Keys} : r \in Secrets}
    BY Zenon
  <2> QED BY <2>2, <2>3, Zenon DEF Connections!Tokens
<1> QED BY <1>1, <1>2

LEMMA WishIsWritten ==
  ASSUME Connections!ConnectionAssumption, NEW i \in Ids, NEW h \in Connections!Held, i \in Connections!There(h.conns),
         NEW t \in Connections!Tokens
  PROVE  Connections!Expected(h.conns[i], t) \in Connections!Connection
<1>1. h.conns[i] \in [kind : KindsOf[i], target : Connections!Targets, tag : Tags]
  <2>1. h.conns \in Connections!Wishes
    BY DEF Connections!Held
  <2>2. h.conns[i] \in Connections!Wish(i)
    BY <2>1 DEF Connections!Wishes
  <2> QED BY <2>2 DEF Connections!Wish, Connections!There
<1>2. KindsOf[i] \subseteq {Connections!Local, Connections!Remote} /\ 0 \in Connections!Tokens
  BY TokensAreThese DEF Connections!ConnectionAssumption
<1> QED BY <1>1, <1>2 DEF Connections!Expected, Connections!Connection

(* Connections, tags and tokens are those that can be asked for. *)
LEMMA ConnectionsTyped ==
  ASSUME Connections!ConnectionAssumption
  PROVE  /\ Connections!Init => ConnectionsTypedInv
         /\ ConnectionsTypedInv /\ [Connections!Next]_(Connections!vars) => ConnectionsTypedInv'
<1> DEFINE Worker == [pc : Connections!Steps, spec : Connections!Held, tokens : [Ids -> Connections!Tokens],
                      seen : Connections!View, done : SUBSET Ids]
           StillThere == proc.pc = "update" => Connections!There(proc.spec.conns) \subseteq Connections!There(view.conns)
           maxEdits == EditsIn["connections"]
           maxFaults == FaultsIn["connections"]
<1>0. maxEdits \in Nat /\ maxFaults \in Nat
  BY DEF Connections!ConnectionAssumption
<1>a. Connections!NoView \in Connections!View
  BY DEF Connections!NoView, Connections!View
<1>i. Connections!Idle.pc = "idle"
  BY DEF Connections!Idle
<1>1. ASSUME Connections!Init PROVE ConnectionsTypedInv
  <2>1. spec \in Connections!Held /\ deleted = FALSE /\ secrets \in [Ids -> Secrets]
    BY <1>1 DEF Connections!Init
  <2>2. exists = FALSE /\ view = Connections!NoView /\ proc = Connections!Idle /\ edits = 0 /\ faults = 0
    BY <1>1, Zenon DEF Connections!Init
  <2>3. 0 \in 0..maxEdits /\ 0 \in 0..maxFaults
    BY <1>0
  <2>4. Connections!TypeOK
    BY <1>a, <2>1, <2>2, <2>3 DEF Connections!TypeOK
  <2> QED BY <1>1, <1>i, <2>2, <2>4, ConnectionsInit DEF ConnectionsTypedInv
<1>2. ASSUME ConnectionsTypedInv, [Connections!Next]_(Connections!vars) PROVE ConnectionsTypedInv'
  <2> USE DEF Connections!Alone
  <2>0. ConnectionsInv /\ ConnectionsInv' /\ StillThere
    BY <1>2, ConnectionsStep DEF ConnectionsTypedInv
  <2>t. /\ spec \in Connections!Held /\ deleted \in BOOLEAN /\ secrets \in [Ids -> Secrets]
        /\ exists \in BOOLEAN /\ view \in Connections!View
        /\ proc = Connections!Idle \/ proc \in Worker
        /\ edits \in 0..maxEdits /\ faults \in 0..maxFaults
    BY <1>2 DEF ConnectionsTypedInv, Connections!TypeOK
  <2>w. proc.pc # "idle" => proc \in Worker
    BY <2>t DEF Connections!Idle
  <2>s. {"create", "new", "read", "search", "add", "remove", "update"} = Connections!Steps
    BY DEF Connections!Steps
  <2>k. 0 \in Connections!Tokens /\ \A s \in Secrets : s["token"] \in Connections!Tokens
    BY TokensAreThese
  \* The worker alone has changed.
  <2>p. ASSUME proc' = Connections!Idle \/ proc' \in Worker, StillThere',
               spec' \in Connections!Held, deleted' \in BOOLEAN, secrets' \in [Ids -> Secrets],
               exists' \in BOOLEAN, view' \in Connections!View, edits' \in 0..maxEdits, faults' \in 0..maxFaults
        PROVE  ConnectionsTypedInv'
    BY <2>0, <2>p DEF ConnectionsTypedInv, Connections!TypeOK
  <2>g. ASSUME NEW pc \in Connections!Steps PROVE Connections!Goto(pc) \in Worker
    <3>1. Connections!TokensOf(spec) \in [Ids -> Connections!Tokens]
      BY <2>t, <2>k DEF Connections!TokensOf
    <3> QED BY <1>a, <2>t, <3>1 DEF Connections!Goto
  <2>u. ASSUME NEW pc \in Connections!Steps, proc \in Worker
        PROVE  Connections!To(pc) \in Worker /\ Connections!To(pc).pc = pc /\ Connections!To(pc).spec = proc.spec
    BY <2>u DEF Connections!To
  <2>c. ASSUME NEW i \in Ids, NEW c \in Connections!Connection \cup {Connections!None}
        PROVE  [view EXCEPT !.conns[i] = c] \in Connections!View
    BY <2>t DEF Connections!View
  <2>d. ASSUME NEW i \in Ids, proc \in Worker PROVE [proc EXCEPT !.done = @ \cup {i}] \in Worker
    BY <2>d
  <2>e. Connections!Edit => edits' \in 0..maxEdits /\ UNCHANGED <<exists, proc, faults>>
    BY <1>0, <2>t DEF Connections!Edit
  <2>n. ASSUME NEW i \in Connections!There(proc.spec.conns), proc \in Worker
        PROVE  Connections!Want(i) \in Connections!Connection
    BY <2>n, WishIsWritten DEF Connections!Want, Connections!There
  <2>1. CASE Connections!Reconcile
    <3>1. proc' = Connections!Idle \/ (proc' \in Worker /\ proc'.pc # "update")
      <4>1. ASSUME NEW pc \in {"create", "read"}
            PROVE  Connections!Goto(pc) \in Worker /\ Connections!Goto(pc).pc # "update"
        <5>1. Connections!Goto(pc).pc = pc
          BY DEF Connections!Goto
        <5> QED BY <2>g, <2>s, <5>1
      <4>2. \/ proc' = Connections!Idle
            \/ proc' = Connections!Goto("create")
            \/ proc' = Connections!Goto("read")
        BY <2>1 DEF Connections!Reconcile
      <4> HIDE DEF Worker
      <4> QED BY <4>1, <4>2
    <3> QED BY <1>i, <2>t, <2>p, <2>1, <3>1 DEF Connections!Reconcile
  <2>2. CASE Connections!CreateView
    <3>1. proc' \in Worker /\ proc'.pc = "new"
      BY <2>2, <2>w, <2>u, <2>s DEF Connections!CreateView
    <3> QED BY <2>t, <2>p, <2>2, <3>1 DEF Connections!CreateView
  <2>3. CASE Connections!ReadView
    <3>1. Connections!To("search") \in Worker /\ proc' = [Connections!To("search") EXCEPT !.seen = view]
      BY <2>3, <2>w, <2>u, <2>s DEF Connections!ReadView
    <3>2. proc' \in Worker /\ proc'.pc # "update"
      BY <2>t, <3>1 DEF Connections!To
    <3> QED BY <2>t, <2>p, <2>3, <3>2 DEF Connections!ReadView
  <2>4. CASE Connections!SetAutomaticSearching
    <3>0. proc \in Worker
      BY <2>4, <2>w DEF Connections!SetAutomaticSearching
    <3>1. proc' \in Worker /\ proc'.pc = "add"
      BY <2>4, <2>u, <2>s, <3>0 DEF Connections!SetAutomaticSearching
    <3>2. view' \in Connections!View
      BY <2>t, <2>4, <3>0 DEF Connections!SetAutomaticSearching, Connections!View, Connections!Held
    <3> QED BY <2>t, <2>p, <2>4, <3>1, <3>2 DEF Connections!SetAutomaticSearching
  <2>5. CASE Connections!CreateConnection
    <3>0. proc \in Worker
      BY <2>5, <2>w DEF Connections!CreateConnection
    <3>1. PICK i \in Connections!Missing \ proc.done : /\ view' = [view EXCEPT !.conns[i] = Connections!Want(i)]
                                                       /\ proc' = [proc EXCEPT !.done = @ \cup {i}]
      BY <2>5 DEF Connections!CreateConnection
    <3>2. i \in Ids /\ i \in Connections!There(proc.spec.conns)
      BY DEF Connections!Missing, Connections!There
    <3>3. view' \in Connections!View /\ proc' \in Worker /\ proc'.pc = "add"
      BY <2>c, <2>d, <2>n, <2>5, <3>0, <3>1, <3>2 DEF Connections!CreateConnection
    <3> QED BY <2>t, <2>p, <2>5, <3>3 DEF Connections!CreateConnection
  <2>6. CASE Connections!AllAdded
    <3>1. proc' \in Worker /\ proc'.pc = "remove"
      BY <2>6, <2>w, <2>u, <2>s DEF Connections!AllAdded, Connections!AfterAdd
    <3> QED BY <2>t, <2>p, <2>6, <3>1 DEF Connections!AllAdded
  <2>7. CASE Connections!DeleteConnection
    <3>0. proc \in Worker
      BY <2>7, <2>w DEF Connections!DeleteConnection
    <3>1. PICK i \in Connections!Unexpected \ proc.done : /\ view' = [view EXCEPT !.conns[i] = Connections!None]
                                                          /\ proc' = [proc EXCEPT !.done = @ \cup {i}]
      BY <2>7 DEF Connections!DeleteConnection
    <3>2. i \in Ids
      BY DEF Connections!Unexpected, Connections!There
    <3>3. view' \in Connections!View /\ proc' \in Worker /\ proc'.pc = "remove"
      BY <2>c, <2>d, <2>7, <3>0, <3>1, <3>2 DEF Connections!DeleteConnection
    <3> QED BY <2>t, <2>p, <2>7, <3>3 DEF Connections!DeleteConnection
  <2>8. CASE Connections!AllRemoved
    <3>1. proc \in Worker /\ Connections!There(proc.spec.conns) \subseteq Connections!There(view.conns)
      BY <2>0, <2>8, <2>w DEF Connections!AllRemoved, ConnectionsInv, WorkerKnows
    <3>2. proc' \in Worker /\ proc'.spec = proc.spec /\ view' = view
      BY <2>8, <2>u, <2>s, <3>1 DEF Connections!AllRemoved
    <3>3. StillThere'
      BY <3>1, <3>2 DEF Connections!There
    <3> QED BY <2>t, <2>p, <2>8, <3>2, <3>3 DEF Connections!AllRemoved
  <2>9. CASE Connections!UpdateConnection
    <3>0. proc \in Worker /\ proc.pc = "update"
      BY <2>9, <2>w DEF Connections!UpdateConnection
    <3>1. PICK i \in Connections!Kept \ proc.done : /\ view' = [view EXCEPT !.conns[i] = Connections!Written(i)]
                                                    /\ proc' = [proc EXCEPT !.done = @ \cup {i}]
      BY <2>9 DEF Connections!UpdateConnection
    <3>2. i \in Ids /\ i \in Connections!There(proc.spec.conns) /\ i \in Connections!There(view.conns)
      BY <2>0, <3>0 DEF Connections!Kept, Connections!There
    <3>3. Connections!Want(i) \in Connections!Connection /\ view.conns[i] \in Connections!Connection
      BY <2>n, <2>t, <3>0, <3>2 DEF Connections!There, Connections!View
    <3>4. Connections!Written(i) \in Connections!Connection
      BY <2>k, <3>3 DEF Connections!Written, Connections!Connection
    <3>5. view' \in Connections!View /\ proc' \in Worker /\ proc'.spec = proc.spec
      BY <2>c, <2>d, <3>0, <3>1, <3>2, <3>4
    <3>6. Connections!Written(i) # Connections!None
      BY <3>4, ConnectionIsThere DEF Connections!Connection
    <3>7. Connections!There(view.conns) \subseteq Connections!There(view'.conns)
      BY <2>t, <3>1, <3>2, <3>6 DEF Connections!There, Connections!View
    <3>8. StillThere'
      BY <2>0, <3>0, <3>5, <3>7 DEF Connections!There
    <3> QED BY <2>t, <2>p, <2>9, <3>5, <3>8 DEF Connections!UpdateConnection
  <2>10. CASE Connections!AllUpdated
    BY <1>i, <2>t, <2>p, <2>10 DEF Connections!AllUpdated
  <2>11. CASE Connections!DeleteView
    BY <1>a, <1>i, <2>t, <2>p, <2>11 DEF Connections!DeleteView
  <2>12. CASE Connections!Fault
    BY <1>0, <1>i, <2>t, <2>p, <2>12 DEF Connections!Fault
  <2>13. CASE Connections!EditSpec
    <3>1. spec' \in Connections!Held
      <4>1. PICK i \in Ids : \E w : /\ [spec.conns EXCEPT ![i] = w] \in Connections!Wishes
                                     /\ spec' = [spec EXCEPT !.conns[i] = w]
        BY <2>13 DEF Connections!EditSpec
      <4>2. \E w : /\ [spec.conns EXCEPT ![i] = w] \in Connections!Wishes
                   /\ spec' = [spec EXCEPT !.conns = [spec.conns EXCEPT ![i] = w]]
        BY <4>1
      <4> QED BY <2>t, <4>2 DEF Connections!Held
    <3>2. StillThere'
      BY <2>0, <2>e, <2>13 DEF Connections!EditSpec, Connections!There
    <3> QED BY <2>t, <2>p, <2>e, <2>13, <3>1, <3>2 DEF Connections!EditSpec
  <2>14. CASE Connections!EditSecret \/ Connections!DeleteResource
    <3>1. StillThere'
      BY <2>0, <2>e, <2>14 DEF Connections!EditSecret, Connections!DeleteResource, Connections!There
    <3>2. secrets' \in [Ids -> Secrets]
      BY <2>t, <2>14 DEF Connections!EditSecret, Connections!DeleteResource
    <3> QED BY <2>t, <2>p, <2>e, <2>14, <3>1, <3>2 DEF Connections!EditSecret, Connections!DeleteResource
  <2>15. CASE Connections!EditView
    <3>1. view' \in Connections!View
      BY <2>c, <2>15 DEF Connections!EditView, Connections!There
    <3> QED BY <1>i, <2>t, <2>p, <2>e, <2>15, <3>1 DEF Connections!EditView
  <2>16. CASE UNCHANGED Connections!vars
    <3>1. StillThere'
      BY <2>0, <2>16 DEF Connections!vars, Connections!There
    <3> QED BY <2>t, <2>p, <2>16, <3>1 DEF Connections!vars
  <2> QED BY <1>2, <2>1, <2>2, <2>3, <2>4, <2>5, <2>6, <2>7, <2>8, <2>9, <2>10, <2>11, <2>12, <2>13, <2>14, <2>15, <2>16
          DEF Connections!Next, Connections!Work
<1> QED BY <1>1, <1>2

(* No token is known that was not made. *)
LEMMA IngestTyped ==
  ASSUME Ingest!IngestAssumption
  PROVE  /\ Ingest!Init => Ingest!TypeOK
         /\ Ingest!TypeOK /\ [Ingest!Next]_(Ingest!vars) => Ingest!TypeOK'
<1> DEFINE Token(n) == [token : 1..n, parser : Ingest!Parsers] \cup {Ingest!None}
           Secret(n) == [token : 0..n, owner : CRs] \cup {Ingest!None}
           Worker(n) == [pc : {"create", "parser", "token", "secret", "delete"}, cr : CRs, spec : TokenSpecs, token : 0..n]
           maxEdits == EditsIn["ingest"]
           maxFaults == FaultsIn["ingest"]
<1>0. /\ maxEdits \in Nat /\ maxFaults \in Nat /\ MaxMade \in Nat
      /\ \A s \in TokenSpecs : s.repo \in Repos /\ s.parser \in Ingest!Parsers
  BY DEF Ingest!IngestAssumption
<1>i. Ingest!Idle.pc = "idle"
  BY DEF Ingest!Idle
<1>n. Ingest!None.token = 0
  BY DEF Ingest!None
<1>1. ASSUME Ingest!Init PROVE Ingest!TypeOK
  <2>1. /\ cr = [c \in CRs |-> "there"] /\ spec \in [CRs -> TokenSpecs] /\ repos = Repos
        /\ tokens = [p \in Repos \X CRs |-> Ingest!None] /\ made = 0
        /\ secrets = [s \in Ingest!SecretNames |-> Ingest!None]
        /\ proc = Ingest!Idle /\ edits = 0 /\ faults = 0
    BY <1>1, Zenon DEF Ingest!Init
  <2>2. tokens \in [Repos \X CRs -> Token(made)] /\ secrets \in [Ingest!SecretNames -> Secret(made)]
    BY <2>1
  <2>3. made \in 0..MaxMade /\ edits \in 0..maxEdits /\ faults \in 0..maxFaults
    BY <1>0, <2>1
  <2> QED BY <2>1, <2>2, <2>3 DEF Ingest!TypeOK
<1>2. ASSUME Ingest!TypeOK, [Ingest!Next]_(Ingest!vars) PROVE Ingest!TypeOK'
  <2> USE DEF Ingest!Alone
  <2>t. /\ cr \in [CRs -> {"there", "deleted", "gone"}] /\ spec \in [CRs -> TokenSpecs] /\ repos \subseteq Repos
        /\ tokens \in [Repos \X CRs -> Token(made)] /\ made \in 0..MaxMade
        /\ secrets \in [Ingest!SecretNames -> Secret(made)]
        /\ proc = Ingest!Idle \/ proc \in Worker(made)
        /\ edits \in 0..maxEdits /\ faults \in 0..maxFaults
    BY <1>2 DEF Ingest!TypeOK
  <2>m. made \in Nat
    BY <1>0, <2>t
  <2>w. proc.pc # "idle" => proc \in Worker(made)
    BY <2>t DEF Ingest!Idle
  <2>p. ASSUME cr' \in [CRs -> {"there", "deleted", "gone"}], spec' \in [CRs -> TokenSpecs], repos' \subseteq Repos,
               tokens' \in [Repos \X CRs -> Token(made')], made' \in 0..MaxMade,
               secrets' \in [Ingest!SecretNames -> Secret(made')],
               proc' = Ingest!Idle \/ proc' \in Worker(made'),
               edits' \in 0..maxEdits, faults' \in 0..maxFaults
        PROVE  Ingest!TypeOK'
    BY <2>p DEF Ingest!TypeOK
  <2>g. ASSUME NEW c \in CRs, NEW pc \in {"create", "parser", "token", "secret", "delete"}
        PROVE  Ingest!Goto(pc, c) \in Worker(made)
    BY <2>g, <2>t, <2>m DEF Ingest!Goto
  <2>e. Ingest!Edit => edits' \in 0..maxEdits /\ UNCHANGED <<made, proc, faults>>
    BY <1>0, <2>t DEF Ingest!Edit
  <2>l. ASSUME proc \in Worker(made)
        PROVE  /\ Ingest!Place \in Repos \X CRs /\ proc.cr \in CRs /\ proc.spec.parser \in Ingest!Parsers
               /\ tokens[Ingest!Place] \in Token(made)
    <3>1. proc.cr \in CRs /\ proc.spec \in TokenSpecs
      BY <2>l
    <3>2. Ingest!Place \in Repos \X CRs
      BY <1>0, <3>1 DEF Ingest!Place
    <3> QED BY <1>0, <2>t, <3>1, <3>2
  <2> HIDE DEF Token, Secret, Worker
  <2>1. ASSUME NEW c \in CRs, Ingest!Reconcile(c) PROVE Ingest!TypeOK'
    <3>1. \/ proc' = Ingest!Idle
          \/ \E pc \in {"create", "parser", "token"} : proc' = Ingest!Goto(pc, c)
      BY <2>1 DEF Ingest!Reconcile, Ingest!AfterUpdate
    <3>2. proc' = Ingest!Idle \/ proc' \in Worker(made)
      BY <2>g, <3>1
    <3> QED BY <2>t, <2>p, <2>1, <3>2 DEF Ingest!Reconcile
  <2>2. ASSUME NEW c \in CRs, Ingest!ReconcileDeleted(c) PROVE Ingest!TypeOK'
    <3>1. proc' = proc \/ proc' = Ingest!Goto("delete", c)
      BY <2>2 DEF Ingest!ReconcileDeleted
    <3>2. proc' = Ingest!Idle \/ proc' \in Worker(made)
      BY <2>g, <2>t, <3>1
    <3>3. cr' \in [CRs -> {"there", "deleted", "gone"}]
      BY <2>t, <2>2 DEF Ingest!ReconcileDeleted
    <3> QED BY <2>t, <2>p, <2>2, <3>2, <3>3 DEF Ingest!ReconcileDeleted
  <2>3. CASE Ingest!AddIngestToken
    <3>1. CASE UNCHANGED <<made, tokens>>
      BY <2>t, <2>p, <2>3, <3>1 DEF Ingest!AddIngestToken
    <3>2. CASE made' = made + 1 /\ tokens' = [tokens EXCEPT ![Ingest!Place] = [token |-> made + 1, parser |-> proc.spec.parser]]
      <4>0. proc \in Worker(made)
        BY <2>w, <2>3 DEF Ingest!AddIngestToken
      <4>1. made' \in 0..MaxMade
        BY <1>0, <2>t, <2>3, <3>2 DEF Ingest!AddIngestToken
      <4>2. Token(made) \subseteq Token(made + 1) /\ Secret(made) \subseteq Secret(made + 1)
        BY <2>m DEF Token, Secret
      <4>3. [token |-> made + 1, parser |-> proc.spec.parser] \in Token(made + 1)
        BY <2>l, <2>m, <4>0 DEF Token
      <4>4. tokens' \in [Repos \X CRs -> Token(made + 1)]
        BY <2>t, <3>2, <4>2, <4>3
      <4>5. secrets' \in [Ingest!SecretNames -> Secret(made + 1)]
        BY <2>t, <2>3, <4>2 DEF Ingest!AddIngestToken
      <4> QED BY <2>t, <2>p, <2>3, <3>2, <4>1, <4>4, <4>5 DEF Ingest!AddIngestToken
    <3> QED BY <2>3, <3>1, <3>2 DEF Ingest!AddIngestToken
  <2>4. CASE Ingest!UpdateIngestToken
    <3>0. proc \in Worker(made)
      BY <2>w, <2>4 DEF Ingest!UpdateIngestToken
    <3>1. proc' = Ingest!Idle \/ proc' \in Worker(made)
      <4>1. proc' = Ingest!Idle \/ proc' = [proc EXCEPT !.pc = "token"]
        BY <2>4 DEF Ingest!UpdateIngestToken
      <4> QED BY <3>0, <4>1 DEF Worker
    <3>2. tokens' \in [Repos \X CRs -> Token(made)]
      <4>1. CASE tokens' = tokens
        BY <2>t, <4>1
      <4>2. CASE tokens[Ingest!Place] # Ingest!None /\ tokens' = [tokens EXCEPT ![Ingest!Place].parser = proc.spec.parser]
        <5>1. [tokens[Ingest!Place] EXCEPT !.parser = proc.spec.parser] \in Token(made)
          BY <2>l, <3>0, <4>2 DEF Token
        <5>2. tokens' = [tokens EXCEPT ![Ingest!Place] = [tokens[Ingest!Place] EXCEPT !.parser = proc.spec.parser]]
          BY <4>2
        <5> QED BY <2>t, <5>1, <5>2
      <4> QED BY <2>4, <4>1, <4>2 DEF Ingest!UpdateIngestToken
    <3> QED BY <2>t, <2>p, <2>4, <3>1, <3>2 DEF Ingest!UpdateIngestToken
  <2>5. CASE Ingest!GetIngestToken
    <3>0. proc \in Worker(made) /\ tokens[Ingest!Place] \in Token(made)
      BY <2>l, <2>w, <2>5 DEF Ingest!GetIngestToken
    <3>1. tokens[Ingest!Place] # Ingest!None => tokens[Ingest!Place].token \in 0..made
      BY <2>m, <3>0 DEF Token
    <3>2. proc' = Ingest!Idle \/ proc' \in Worker(made)
      BY <2>5, <3>0, <3>1 DEF Ingest!GetIngestToken, Worker
    <3> QED BY <2>t, <2>p, <2>5, <3>2 DEF Ingest!GetIngestToken
  <2>6. CASE Ingest!EnsureSecret
    <3>0. proc \in Worker(made)
      BY <2>w, <2>6 DEF Ingest!EnsureSecret
    <3>1. Ingest!Desired(proc.cr, proc.token) \in Secret(made)
      BY <3>0 DEF Ingest!Desired, Worker, Secret
    <3>2. secrets' \in [Ingest!SecretNames -> Secret(made)]
      BY <2>t, <2>6, <3>1 DEF Ingest!EnsureSecret
    <3> QED BY <2>t, <2>p, <2>6, <3>2 DEF Ingest!EnsureSecret
  <2>n. Ingest!None \in Token(made) /\ Ingest!None \in Secret(made)
    BY DEF Token, Secret
  <2>7. CASE Ingest!DeleteIngestToken
    <3>1. tokens' \in [Repos \X CRs -> Token(made)]
      BY <2>t, <2>n, <2>7 DEF Ingest!DeleteIngestToken
    <3> QED BY <2>t, <2>p, <2>7, <3>1 DEF Ingest!DeleteIngestToken
  <2>8. CASE Ingest!Fault
    BY <1>0, <2>t, <2>p, <2>8 DEF Ingest!Fault
  <2>9. ASSUME NEW c \in CRs, Ingest!EditSpec(c) \/ Ingest!DeleteResource(c) PROVE Ingest!TypeOK'
    <3>1. spec' \in [CRs -> TokenSpecs] /\ cr' \in [CRs -> {"there", "deleted", "gone"}]
      BY <2>t, <2>9 DEF Ingest!EditSpec, Ingest!DeleteResource
    <3> QED BY <2>t, <2>p, <2>e, <2>9, <3>1 DEF Ingest!EditSpec, Ingest!DeleteResource
  <2>10. ASSUME NEW p \in Repos \X CRs, Ingest!RevokeToken(p) PROVE Ingest!TypeOK'
    <3>1. tokens' \in [Repos \X CRs -> Token(made)]
      BY <2>t, <2>n, <2>10 DEF Ingest!RevokeToken
    <3> QED BY <2>t, <2>p, <2>e, <2>10, <3>1 DEF Ingest!RevokeToken
  <2>11. ASSUME NEW s \in Ingest!SecretNames, Ingest!CollectSecret(s) \/ Ingest!DeleteSecret(s) PROVE Ingest!TypeOK'
    <3>1. secrets' \in [Ingest!SecretNames -> Secret(made)]
      BY <2>t, <2>n, <2>11 DEF Ingest!CollectSecret, Ingest!DeleteSecret
    <3> QED BY <2>t, <2>p, <2>e, <2>11, <3>1 DEF Ingest!CollectSecret, Ingest!DeleteSecret
  <2>12. ASSUME NEW r \in Repos, Ingest!DeleteRepo(r) PROVE Ingest!TypeOK'
    <3>1. tokens' \in [Repos \X CRs -> Token(made)]
      BY <2>t, <2>n, <2>12 DEF Ingest!DeleteRepo
    <3> QED BY <2>t, <2>p, <2>e, <2>12, <3>1 DEF Ingest!DeleteRepo
  <2>13. CASE UNCHANGED Ingest!vars
    BY <2>t, <2>p, <2>13 DEF Ingest!vars
  <2> QED BY <1>2, <2>1, <2>2, <2>3, <2>4, <2>5, <2>6, <2>7, <2>8, <2>9, <2>10, <2>11, <2>12, <2>13
          DEF Ingest!Next, Ingest!Work, Ingest!Others
<1> QED BY <1>1, <1>2

(* What is collected, and for when, has its type. *)
LEMMA CollectionsTyped ==
  ASSUME Collections!TelemetryAssumption
  PROVE  /\ Collections!Init => Collections!TypeOK
         /\ Collections!TypeOK /\ [Collections!Next]_(Collections!vars) => Collections!TypeOK'
<1> DEFINE maxEdits == EditsIn["telemetry"]
           maxFaults == FaultsIn["telemetry"]
<1> USE DEF Collections!Quiet
<1>0. /\ maxEdits \in Nat /\ maxFaults \in Nat /\ Horizon \in 0..Horizon /\ 0 \in 0..Horizon
      /\ TelemetrySpecs \subseteq SUBSET Collections!Collection
  BY DEF Collections!TelemetryAssumption
<1>a. Collections!NotShown \in Collections!Shown /\ Collections!NoResource \in Collections!Resource
  BY <1>0 DEF Collections!NotShown, Collections!Shown, Collections!NoResource, Collections!Resource,
              Collections!States, Collections!Ages
<1>b. Collections!Idle \in Collections!Op /\ Collections!ClusterIdle \in Collections!ClusterOp
  BY <1>a DEF Collections!Idle, Collections!Op, Collections!ClusterIdle, Collections!ClusterOp
<1>c. ASSUME NEW age \in 0..Horizon PROVE Collections!Later(age) \in 0..Horizon
  BY <1>0, <1>c DEF Collections!Later, Collections!TelemetryAssumption
<1>d. ASSUME NEW ages \in Collections!Ages PROVE Collections!AllLater(ages) \in Collections!Ages
  BY <1>c, <1>d DEF Collections!AllLater, Collections!Ages
<1>e. ASSUME NEW some \in SUBSET Collections!Collection PROVE Collections!Included(some) \subseteq Types
  BY <1>e DEF Collections!Included, Collections!Collection
<1>1. ASSUME Collections!Init PROVE Collections!TypeOK
  <2>1. since \in Collections!Ages
    BY <1>0, <1>1 DEF Collections!Init, Collections!Ages
  <2>2. 0 \in 0..maxEdits /\ 0 \in 0..maxFaults
    BY <1>0
  <2> QED BY <1>0, <1>1, <1>a, <1>b, <2>1, <2>2 DEF Collections!Init, Collections!TypeOK
<1>2. ASSUME Collections!TypeOK, [Collections!Next]_(Collections!vars) PROVE Collections!TypeOK'
  <2>t. /\ wanted \in SUBSET Collections!Collection /\ shown \in Collections!Shown /\ ht \in Collections!Resource
        /\ op \in Collections!Op /\ cop \in Collections!ClusterOp /\ since \in Collections!Ages
        /\ faults \in 0..maxFaults /\ edits \in 0..maxEdits
    BY <1>2 DEF Collections!TypeOK
  <2>p. ASSUME wanted' \in SUBSET Collections!Collection, shown' \in Collections!Shown, ht' \in Collections!Resource,
               op' \in Collections!Op, cop' \in Collections!ClusterOp, since' \in Collections!Ages,
               faults' \in 0..maxFaults, edits' \in 0..maxEdits
        PROVE  Collections!TypeOK'
    BY <2>p DEF Collections!TypeOK
  <2>f. ASSUME NEW f, Collections!Fault(f) PROVE faults' \in 0..maxFaults /\ edits' = edits
    BY <1>0, <2>t, <2>f DEF Collections!Fault
  <2>w. ASSUME NEW new \in Collections!Resource, Collections!WriteTelemetry(new)
        PROVE  ht' \in Collections!Resource /\ cop' \in Collections!ClusterOp
    BY <2>t, <2>w DEF Collections!WriteTelemetry, Collections!ClusterOp
  <2>d. op.due \in SUBSET Collections!Collection /\ Collections!Included(op.due) \subseteq Types
    BY <1>e, <2>t DEF Collections!Op
  <2>1. CASE Collections!EditCluster
    <3>1. wanted' \in SUBSET Collections!Collection /\ cop' \in Collections!ClusterOp /\ edits' \in 0..maxEdits
      <4>1. edits' \in 0..maxEdits
        BY <1>0, <2>t, <2>1 DEF Collections!EditCluster
      <4>2. wanted' \in SUBSET Collections!Collection
        BY <1>0, <2>1 DEF Collections!EditCluster
      <4>3. cop' \in Collections!ClusterOp
        BY <2>t, <2>1 DEF Collections!EditCluster, Collections!ClusterOp
      <4> QED BY <4>1, <4>2, <4>3
    <3> QED BY <2>t, <2>p, <2>1, <3>1 DEF Collections!EditCluster
  <2>2. CASE Collections!Tick
    <3>1. ht' \in Collections!Resource
      <4>1. Collections!AllLater(ht.age) \in Collections!Ages /\ Collections!Later(ht.last) \in 0..Horizon
        BY <1>c, <1>d, <2>t DEF Collections!Resource
      <4> QED BY <2>t, <2>2, <4>1 DEF Collections!Tick, Collections!Resource
    <3>2. since' \in Collections!Ages
      BY <1>d, <2>t, <2>2 DEF Collections!Tick
    <3>3. shown' \in Collections!Shown
      <4>1. Collections!Later(shown.last) \in 0..Horizon
        BY <1>c, <2>t DEF Collections!Shown
      <4> QED BY <2>t, <2>2, <4>1 DEF Collections!Tick, Collections!Shown
    <3>4. cop' \in Collections!ClusterOp
      <4>1. cop.shows \in Collections!Shown /\ Collections!Later(cop.shows.last) \in 0..Horizon
        BY <1>c, <2>t DEF Collections!ClusterOp, Collections!Shown
      <4>2. [cop.shows EXCEPT !.last = Collections!Later(cop.shows.last)] \in Collections!Shown
        BY <4>1 DEF Collections!Shown
      <4>3. cop' = [cop EXCEPT !.shows = [cop.shows EXCEPT !.last = Collections!Later(cop.shows.last)]]
        BY <2>2 DEF Collections!Tick
      <4> QED BY <2>t, <4>2, <4>3 DEF Collections!ClusterOp
    <3> QED BY <2>t, <2>p, <2>2, <3>1, <3>2, <3>3, <3>4 DEF Collections!Tick
  <2>3. CASE Collections!Begin
    <3> DEFINE stage(due) == IF ht.deleting THEN "release" ELSE IF ~ht.finalizer THEN "finalizer"
                             ELSE IF ~Collections!IsValid(ht.collections) THEN "error"
                             ELSE IF due = {} THEN "idle" ELSE "mark"
    <3>0. ASSUME NEW due PROVE stage(due) \in {"idle", "finalizer", "release", "error", "mark"}
      OBVIOUS
    <3>1. PICK due \in SUBSET Collections!Collection :
            op' = [Collections!Idle EXCEPT !.fresh = TRUE, !.pc = stage(due), !.due = due]
      <4>1. {c \in ht.collections : Collections!Due(c)} \in SUBSET Collections!Collection
        BY <2>t DEF Collections!Resource
      <4> QED BY <2>3, <4>1, Zenon DEF Collections!Begin
    <3> HIDE DEF stage
    <3>2. op' \in Collections!Op
      BY <3>0, <3>1 DEF Collections!Idle, Collections!Op
    <3> QED BY <2>t, <2>p, <2>3, <3>2 DEF Collections!Begin
  <2>4. CASE Collections!AddFinalizer \/ Collections!RemoveFinalizer \/ Collections!ReportConfigError
    <3>1. /\ [ht EXCEPT !.finalizer = TRUE] \in Collections!Resource
          /\ [ht EXCEPT !.state = "ConfigError"] \in Collections!Resource
      BY <2>t DEF Collections!Resource, Collections!States
    <3>2. ht' \in Collections!Resource /\ cop' \in Collections!ClusterOp
      BY <1>a, <2>w, <2>4, <3>1 DEF Collections!AddFinalizer, Collections!RemoveFinalizer, Collections!ReportConfigError
    <3> QED BY <1>b, <2>t, <2>p, <2>4, <3>2
            DEF Collections!AddFinalizer, Collections!RemoveFinalizer, Collections!ReportConfigError
  <2>5. CASE Collections!MarkCollecting
    <3>1. [ht EXCEPT !.state = "Collecting"] \in Collections!Resource
      BY <2>t DEF Collections!Resource, Collections!States
    <3>2. ht' \in Collections!Resource /\ cop' \in Collections!ClusterOp
      BY <2>w, <2>5, <3>1 DEF Collections!MarkCollecting
    <3>3. op' \in Collections!Op
      BY <1>b, <2>t, <2>5 DEF Collections!MarkCollecting, Collections!Op
    <3> QED BY <2>t, <2>p, <2>5, <3>2, <3>3 DEF Collections!MarkCollecting
  <2>6. ASSUME NEW failed, NEW lost, Collections!Collect(failed, lost), faults' \in 0..maxFaults, edits' \in 0..maxEdits
        PROVE  Collections!TypeOK'
    <3> DEFINE arrived == Collections!Collected(failed) \ lost
               ok == Collections!Collected(failed) # {} /\ lost = {}
    <3>1. arrived \subseteq Types /\ ok \in BOOLEAN
      BY <2>d DEF Collections!Collected
    <3>2. op' = [op EXCEPT !.pc = "save", !.arrived = arrived, !.ok = ok]
      BY <2>6 DEF Collections!Collect
    <3>3. since' = [d \in Types |-> IF d \in arrived THEN 0 ELSE since[d]]
      BY <2>6 DEF Collections!Collect
    <3> HIDE DEF arrived, ok
    <3>4. op' \in Collections!Op
      BY <2>t, <3>1, <3>2 DEF Collections!Op
    <3>5. since' \in Collections!Ages
      BY <1>0, <2>t, <3>3 DEF Collections!Ages
    <3> QED BY <2>t, <2>p, <2>6, <3>4, <3>5 DEF Collections!Collect
  <2>7. CASE Collections!CollectAll \/ Collections!CollectFails
    BY <2>f, <2>t, <2>6, <2>7 DEF Collections!CollectAll, Collections!CollectFails
  <2>8. CASE Collections!SaveStatus
    <3>1. Collections!Saved \in Collections!Resource
      <4> DEFINE types == Collections!Included(op.due)
                 age == [d \in Types |-> IF d \in types THEN 0 ELSE ht.age[d]]
                 exported == IF op.ok THEN ht.exported \cup types ELSE ht.exported \ types
      <4>1. age \in Collections!Ages
        BY <1>0, <2>t DEF Collections!Ages, Collections!Resource
      <4>2. exported \subseteq Types
        BY <2>d, <2>t DEF Collections!Resource
      <4>3. Collections!Saved = [ht EXCEPT !.state = "Enabled", !.last = 0, !.age = age, !.exported = exported]
        BY DEF Collections!Saved
      <4> HIDE DEF age, exported
      <4> QED BY <1>0, <2>t, <4>1, <4>2, <4>3 DEF Collections!Resource, Collections!States
    <3>2. ht' \in Collections!Resource /\ cop' \in Collections!ClusterOp
      BY <2>w, <2>8, <3>1 DEF Collections!SaveStatus
    <3> QED BY <1>b, <2>t, <2>p, <2>8, <3>2 DEF Collections!SaveStatus
  <2>9. CASE Collections!ClusterReads
    <3>1. Collections!Shows \in Collections!Shown
      BY <1>0, <1>a, <2>t DEF Collections!Shows, Collections!Shown, Collections!Resource, Collections!States
    <3>2. \E pc \in {"delete", "show", "create", "update"} :
            cop' = [pc |-> pc, fresh |-> TRUE, current |-> TRUE, wanted |-> wanted, shows |-> Collections!Shows]
      BY <2>9 DEF Collections!ClusterReads
    <3>3. cop' \in Collections!ClusterOp
      BY <2>t, <3>1, <3>2 DEF Collections!ClusterOp
    <3> QED BY <2>t, <2>p, <2>9, <3>3 DEF Collections!ClusterReads
  <2>10. CASE Collections!CreateTelemetry
    <3>1. [Collections!NoResource EXCEPT !.there = TRUE, !.collections = cop.wanted] \in Collections!Resource
      BY <1>a, <2>t DEF Collections!Resource, Collections!ClusterOp
    <3>2. cop' \in Collections!ClusterOp
      BY <2>t, <2>10 DEF Collections!CreateTelemetry, Collections!ClusterOp
    <3> QED BY <2>t, <2>p, <2>10, <3>1, <3>2 DEF Collections!CreateTelemetry
  <2>11. CASE Collections!UpdateTelemetry
    <3>1. [ht EXCEPT !.collections = cop.wanted] \in Collections!Resource
      BY <2>t DEF Collections!Resource, Collections!ClusterOp
    <3>2. op' \in Collections!Op
      BY <2>t, <2>11 DEF Collections!UpdateTelemetry, Collections!Op
    <3> QED BY <1>b, <2>t, <2>p, <2>11, <3>1, <3>2 DEF Collections!UpdateTelemetry
  <2>12. CASE Collections!DeleteTelemetry
    <3>1. ht' \in Collections!Resource
      BY <1>a, <2>t, <2>12 DEF Collections!DeleteTelemetry, Collections!Resource
    <3>2. op' \in Collections!Op
      BY <2>t, <2>12 DEF Collections!DeleteTelemetry, Collections!Op, Collections!Resource
    <3>3. cop' \in Collections!ClusterOp
      BY <2>t, <2>12 DEF Collections!DeleteTelemetry, Collections!ClusterOp
    <3> QED BY <2>t, <2>p, <2>12, <3>1, <3>2, <3>3 DEF Collections!DeleteTelemetry
  <2>13. CASE Collections!ShowTelemetry
    <3>1. shown' \in Collections!Shown
      BY <2>t, <2>13 DEF Collections!ShowTelemetry, Collections!ClusterOp
    <3> QED BY <1>b, <2>t, <2>p, <2>13, <3>1 DEF Collections!ShowTelemetry
  <2>14. CASE Collections!Stop
    BY <1>b, <2>f, <2>t, <2>p, <2>14 DEF Collections!Stop
  <2>15. CASE UNCHANGED Collections!vars
    BY <2>t, <2>p, <2>15 DEF Collections!vars
  <2> QED BY <1>2, <2>1, <2>2, <2>3, <2>4, <2>5, <2>7, <2>8, <2>9, <2>10, <2>11, <2>12, <2>13, <2>14, <2>15
          DEF Collections!Next, Collections!TelemetryStep, Collections!ClusterStep
<1> QED BY <1>1, <1>2

(* The worker of the webhooks is at a stage with what it needs. *)
LEMMA WebhooksTyped ==
  ASSUME Webhooks!WebhookAssumption
  PROVE  /\ Webhooks!Init => Webhooks!TypeOK
         /\ Webhooks!TypeOK /\ [Webhooks!Next]_(Webhooks!vars) => Webhooks!TypeOK'
<1> USE DEF Webhooks!TypeOK, Webhooks!Proc, Webhooks!Started, Webhooks!NoFiles, Webhooks!Goto, Webhooks!At, Webhooks!Quiet
<1>0. /\ 0 \in Webhooks!Numbers /\ 1 \in 1..Webhooks!maxRetries
      /\ 0 \in 0..FaultsIn["webhooks"] /\ 0 \in 0..EditsIn["webhooks"]
      /\ {"check", "cert", "open", "key", "watch", "service", "vwc", "list", "crd", "up"} = Webhooks!Stages
  BY DEF Webhooks!WebhookAssumption, Webhooks!Numbers, Webhooks!MaxGenerated, Webhooks!maxRetries, Webhooks!Stages
<1>a. Webhooks!Started \in Webhooks!Proc /\ Webhooks!NoFiles \in [cert : Webhooks!Numbers, key : Webhooks!Numbers \cup {-1}]
  BY <1>0
<1>1. Webhooks!Init => Webhooks!TypeOK
  BY <1>0, <1>a DEF Webhooks!Init
<1>2. ASSUME Webhooks!TypeOK, [Webhooks!Next]_(Webhooks!vars) PROVE Webhooks!TypeOK'
  <2>1. Webhooks!Refused \in Webhooks!Proc
    <3>1. proc.attempt < Webhooks!maxRetries => proc.attempt + 1 \in 1..Webhooks!maxRetries
      BY <1>2 DEF Webhooks!maxRetries
    <3> QED BY <1>0, <1>2, <3>1 DEF Webhooks!Refused
  <2>2. CASE Webhooks!CheckFiles
    BY <1>0, <1>2, <2>2 DEF Webhooks!CheckFiles
  <2>3. CASE Webhooks!WriteCertificate
    <3>1. generated + 1 \in Webhooks!Numbers
      BY <1>2, <2>3 DEF Webhooks!WriteCertificate, Webhooks!Numbers, Webhooks!MaxGenerated, Webhooks!WebhookAssumption
    <3> QED BY <1>0, <1>2, <2>3, <3>1 DEF Webhooks!WriteCertificate
  <2>4. CASE Webhooks!OpenKey \/ Webhooks!WriteKey
    BY <1>0, <1>2, <2>4 DEF Webhooks!OpenKey, Webhooks!WriteKey
  <2>5. CASE Webhooks!StartServer
    BY <1>0, <1>2, <2>5 DEF Webhooks!StartServer
  <2>6. CASE Webhooks!CreateOrUpdateService \/ Webhooks!CreateOrUpdateConfiguration \/ Webhooks!ListCRDs
    BY <1>0, <1>2, <2>6 DEF Webhooks!CreateOrUpdateService, Webhooks!CreateOrUpdateConfiguration, Webhooks!ListCRDs
  <2>7. CASE Webhooks!UpdateCRD
    BY <1>0, <1>2, <2>1, <2>7 DEF Webhooks!UpdateCRD
  <2>8. ASSUME NEW f, Webhooks!Fault(f) PROVE faults' \in 0..FaultsIn["webhooks"] /\ edits' = edits
    BY <1>2, <2>8 DEF Webhooks!Fault, Webhooks!WebhookAssumption
  <2>9. CASE Webhooks!CallFails \/ Webhooks!Restart \/ Webhooks!Replace
    BY <1>0, <1>a, <1>2, <2>1, <2>8, <2>9 DEF Webhooks!CallFails, Webhooks!Restart, Webhooks!Replace
  <2>10. CASE Webhooks!ApplyCRD
    <3>1. edits' \in 0..EditsIn["webhooks"]
      BY <1>2, <2>10 DEF Webhooks!ApplyCRD, Webhooks!WebhookAssumption
    <3> QED BY <1>0, <1>2, <2>10, <3>1 DEF Webhooks!ApplyCRD
  <2>11. CASE UNCHANGED Webhooks!vars
    BY <1>2, <2>11 DEF Webhooks!vars
  <2> QED BY <1>2, <2>2, <2>3, <2>4, <2>5, <2>6, <2>7, <2>9, <2>10, <2>11 DEF Webhooks!Next, Webhooks!Run
<1> QED BY <1>1, <1>2

(***************************************************************************)
(* The components side by side (Components): a behaviour that is about one *)
(* of them is a behaviour of it, and so each has shown above what it never *)
(* does there.                                                             *)
(***************************************************************************)
LEMMA PartStays == [PartsNext]_all => part' = part
BY DEF PartsNext, Step, all

LEMMA VolumesAlone ==
  /\ PartsInit /\ Is("claims") => Volumes!Init
  /\ [PartsNext]_all /\ Is("claims") => [Volumes!Next]_(Volumes!vars)
BY DEF PartsInit, PartsNext, Step, Is, all, vars, Volumes!vars

LEMMA AdminAlone ==
  /\ PartsInit /\ Is("admin") => Admin!Init
  /\ [PartsNext]_all /\ Is("admin") => [Admin!Next]_(Admin!vars)
BY DEF PartsInit, PartsNext, Step, Is, all, vars, Admin!vars

LEMMA CertsAlone ==
  /\ PartsInit /\ Is("certs") => Certs!Init
  /\ [PartsNext]_all /\ Is("certs") => [Certs!Next]_(Certs!vars)
BY DEF PartsInit, PartsNext, Step, Is, all, vars, Certs!vars

LEMMA ObjectsAlone ==
  /\ PartsInit /\ Is("objects") => Objects!Init
  /\ [PartsNext]_all /\ Is("objects") => [Objects!Next]_(Objects!vars)
BY DEF PartsInit, PartsNext, Step, Is, all, vars, Objects!vars

LEMMA ClientsAlone ==
  /\ PartsInit /\ Is("clients") => Clients!Init
  /\ [PartsNext]_all /\ Is("clients") => [Clients!Next]_(Clients!vars)
BY DEF PartsInit, PartsNext, Step, Is, all, vars, Clients!vars

LEMMA AssignmentsAlone ==
  /\ PartsInit /\ Is("roles") => Assignments!Init
  /\ [PartsNext]_all /\ Is("roles") => [Assignments!Next]_(Assignments!vars)
BY DEF PartsInit, PartsNext, Step, Is, all, vars, Assignments!vars

LEMMA RetentionAlone ==
  /\ PartsInit /\ Is("retention") => Retention!Init
  /\ [PartsNext]_all /\ Is("retention") => [Retention!Next]_(Retention!vars)
BY DEF PartsInit, PartsNext, Step, Is, all, vars, Retention!vars

LEMMA ConnectionsAlone ==
  /\ PartsInit /\ Is("connections") => Connections!Init
  /\ [PartsNext]_all /\ Is("connections") => [Connections!Next]_(Connections!vars)
BY DEF PartsInit, PartsNext, Step, Is, all, vars, Connections!vars

LEMMA IngestAlone ==
  /\ PartsInit /\ Is("ingest") => Ingest!Init
  /\ [PartsNext]_all /\ Is("ingest") => [Ingest!Next]_(Ingest!vars)
BY DEF PartsInit, PartsNext, Step, Is, all, vars, Ingest!vars

LEMMA AccountsAlone ==
  /\ PartsInit /\ Is("accounts") => Accounts!Init
  /\ [PartsNext]_all /\ Is("accounts") => [Accounts!Next]_(Accounts!vars)
BY DEF PartsInit, PartsNext, Step, Is, all, vars, Accounts!vars

LEMMA CollectionsAlone ==
  /\ PartsInit /\ Is("telemetry") => Collections!Init
  /\ [PartsNext]_all /\ Is("telemetry") => [Collections!Next]_(Collections!vars)
BY DEF PartsInit, PartsNext, Step, Is, all, vars, Collections!vars

LEMMA WebhooksAlone ==
  /\ PartsInit /\ Is("webhooks") => Webhooks!Init
  /\ [PartsNext]_all /\ Is("webhooks") => [Webhooks!Next]_(Webhooks!vars)
BY DEF PartsInit, PartsNext, Step, Is, all, vars, Webhooks!vars

LEMMA SearchesAlone ==
  /\ PartsInit /\ Is("searches") => Init
  /\ [PartsNext]_all /\ Is("searches") => [Next]_vars
BY DEF PartsInit, PartsNext, Step, Is, all, vars

(* Whatever the parts are and however many nodes and claims, no two pods of a pool ever write to one volume, as
   long as a pod that was made is in the next list (humiocluster_persistent_volumes.go:63 to 96). *)
THEOREM ClaimsAreNeverShared ==
  ASSUME CacheLag = FALSE
  PROVE  PartsSpec => []NoSharedClaim
<1>1. Volumes!NoSharedClaim => NoSharedClaim
  BY DEF NoSharedClaim
<1>2. ~Is("claims") => NoSharedClaim
  BY DEF NoSharedClaim
<1>3. [PartsNext]_all => (Is("claims")' <=> Is("claims"))
  BY PartStays DEF Is
<1>4. Volumes!Init /\ [][Volumes!Next]_(Volumes!vars) => []Volumes!NoSharedClaim
  BY EveryPodHasItsClaim
<1> QED BY <1>1, <1>2, <1>3, <1>4, VolumesAlone, PTL DEF PartsSpec

(* The clean-up takes no claim of a node that is up, as long as pods have names of their own, which they have
   without TLS (humiocluster_controller.go:1294 to 1372). *)
THEOREM LiveClaimsStay ==
  ASSUME TLS = FALSE
  PROVE  PartsSpec => LiveKept
<1>1. LivingInv /\ [Volumes!Next]_(Volumes!vars) => LivingInv' /\ [Is("claims") => Volumes!LiveKept]_all
  BY LivingStep, ReclaimsLost
<1>2. ~Is("claims") => [Is("claims") => Volumes!LiveKept]_all
  OBVIOUS
<1>3. [PartsNext]_all => (Is("claims")' <=> Is("claims"))
  BY PartStays DEF Is
<1> QED BY <1>1, <1>2, <1>3, LivingInit, VolumesAlone, PTL DEF PartsSpec, LiveKept

(* The first pool of a cluster keeps the certificates that its pods serve with, as long as no pod has the name
   of the certificate of the cluster (humiocluster_controller.go:1696 to 1888). *)
THEOREM CertificatesStay ==
  ASSUME FirstPool, Certs!Cluster \notin PodNames
  PROVE  PartsSpec => ServingKept
<1>1. CertsInv /\ [Certs!Next]_(Certs!vars) => CertsInv' /\ [Is("certs") => Certs!ServingKept]_all
  BY CertsStep
<1>2. ~Is("certs") => [Is("certs") => Certs!ServingKept]_all
  OBVIOUS
<1>3. [PartsNext]_all => (Is("certs")' <=> Is("certs"))
  BY PartStays DEF Is
<1> QED BY <1>1, <1>2, <1>3, CertsInit, CertsAlone, PTL DEF PartsSpec, ServingKept

(* The clean-up of config maps leaves those that pods mount, as long as all pools keep their nodes and changes
   of what pods mount are rolled out (humiocluster_controller.go:2846 to 2886). *)
THEOREM MapsStay ==
  ASSUME ~PodsWait, {"nodes", "listed"} \cap Editable = {}
  PROVE  PartsSpec => MapsKept
<1>1. ObjectsInv /\ [Objects!Next]_(Objects!vars) => ObjectsInv' /\ [Is("objects") => Objects!MapsKept]_all
  BY ObjectsStep DEF ObjectsInv, ReadIsThere, Objects!MapsKept
<1>2. ~Is("objects") => [Is("objects") => Objects!MapsKept]_all
  OBVIOUS
<1>3. [PartsNext]_all => (Is("objects")' <=> Is("objects"))
  BY PartStays DEF Is
<1> QED BY <1>1, <1>2, <1>3, ObjectsInit, ObjectsAlone, PTL DEF PartsSpec, MapsKept

(* An admin token that works stays in its secret, as long as secrets are read as they are and Humio answers
   (humiocluster_permission_tokens.go:52 to 147). *)
THEOREM TokenStays ==
  ASSUME CacheLag = FALSE, Outages = FALSE
  PROVE  PartsSpec => TokenKept
<1>1. AdminInv /\ [Admin!Next]_(Admin!vars) => AdminInv' /\ [Is("admin") => Admin!TokenKept]_all
  BY AdminShapeStep, HumioAnswers DEF AdminInv
<1>2. ~Is("admin") => [Is("admin") => Admin!TokenKept]_all
  OBVIOUS
<1>3. [PartsNext]_all => (Is("admin")' <=> Is("admin"))
  BY PartStays DEF Is
<1> QED BY <1>1, <1>2, <1>3, AdminInit, AdminAlone, PTL DEF PartsSpec, TokenKept

(* No call goes out with the client of another reconcile (src/internal/humio/client.go:336 to 381): the
   assumption about constants is the one of the module. *)
THEOREM ClientsAreApart == PartsSpec => []OwnClient
<1>1. Clients!OwnClient => OwnClient
  BY DEF OwnClient
<1>2. ~Is("clients") => OwnClient
  BY DEF OwnClient
<1>3. [PartsNext]_all => (Is("clients")' <=> Is("clients"))
  BY PartStays DEF Is
<1>4. Clients!Init /\ [][Clients!Next]_(Clients!vars) => []Clients!OwnClient
  BY EveryCallHasItsClient, PartsAssumption
<1> QED BY <1>1, <1>2, <1>3, <1>4, ClientsAlone, PTL DEF PartsSpec

(* Groups keep the roles they are to keep while these are changed, as long as nobody else gives those groups
   another role in the same view (src/internal/humio/client.go:3020 to 3086). *)
THEOREM RolesStay ==
  ASSUME ~ViewRoles \/ OtherRoles = {}
  PROVE  PartsSpec => NotInterrupted
<1>1. RolesInv /\ [Assignments!Next]_(Assignments!vars) => RolesInv' /\ [Is("roles") => Assignments!NotInterrupted]_all
  BY RolesStep
<1>2. ~Is("roles") => [Is("roles") => Assignments!NotInterrupted]_all
  OBVIOUS
<1>3. [PartsNext]_all => (Is("roles")' <=> Is("roles"))
  BY PartStays DEF Is
<1> QED BY <1>1, <1>2, <1>3, RolesInit, AssignmentsAlone, PTL DEF PartsSpec, NotInterrupted

(* The operator deletes no data without the consent of the resource it read
   (src/internal/humio/client.go:691 to 798). *)
THEOREM DataStays == PartsSpec => NothingLost
<1>1. RetentionInv /\ [Retention!Next]_(Retention!vars) => RetentionInv' /\ [Is("retention") => Retention!NothingLost]_all
  BY RetentionStep, NothingCut, PartsAssumption
<1>2. ~Is("retention") => [Is("retention") => Retention!NothingLost]_all
  OBVIOUS
<1>3. [PartsNext]_all => (Is("retention")' <=> Is("retention"))
  BY PartStays DEF Is
<1>4. Retention!Init => RetentionInv
  BY RetentionInit, PartsAssumption
<1> QED BY <1>1, <1>2, <1>3, <1>4, RetentionAlone, PTL DEF PartsSpec, NothingLost

(* A connection goes only when all those that are asked for are there
   (src/internal/humio/client.go:1099 to 1246). *)
THEOREM ConnectionsStay == PartsSpec => AddedFirst
<1>1. ConnectionsInv /\ [Connections!Next]_(Connections!vars) => ConnectionsInv' /\ [Is("connections") => Connections!AddedFirst]_all
  BY ConnectionsStep
<1>2. ~Is("connections") => [Is("connections") => Connections!AddedFirst]_all
  OBVIOUS
<1>3. [PartsNext]_all => (Is("connections")' <=> Is("connections"))
  BY PartStays DEF Is
<1> QED BY <1>1, <1>2, <1>3, ConnectionsInit, ConnectionsAlone, PTL DEF PartsSpec, AddedFirst

(* An ingest token that is sent with is never replaced, and goes with its resource only
   (humioingesttoken_controller.go:96 to 171). *)
THEOREM IngestTokensStay == PartsSpec => TokensKept
<1>1. IngestInv /\ [Ingest!Next]_(Ingest!vars) => IngestInv' /\ [Is("ingest") => Ingest!TokensKept]_all
  BY IngestStep, PartsAssumption
<1>2. ~Is("ingest") => [Is("ingest") => Ingest!TokensKept]_all
  OBVIOUS
<1>3. [PartsNext]_all => (Is("ingest")' <=> Is("ingest"))
  BY PartStays DEF Is
<1> QED BY <1>1, <1>2, <1>3, IngestInit, IngestAlone, PTL DEF PartsSpec, TokensKept

\* The component at hand has the invariant of its types.
TypedInv ==
  /\ Is("searches") => TypeOK
  /\ Is("claims") => VolumesTypedInv
  /\ Is("admin") => Admin!TypeOK
  /\ Is("certs") => CertsTypedInv
  /\ Is("objects") => ObjectsTypedInv
  /\ Is("clients") => CallersInv
  /\ Is("accounts") => AccountsInv
  /\ Is("roles") => AssignmentsInv
  /\ Is("retention") => Retention!TypeOK
  /\ Is("connections") => ConnectionsTypedInv
  /\ Is("ingest") => Ingest!TypeOK
  /\ Is("telemetry") => Collections!TypeOK
  /\ Is("webhooks") => Webhooks!TypeOK

LEMMA TypedInit == PartsInit => TypedInv
<1>1. PartsInit /\ Is("searches") => TypeOK
  BY SearchesAlone, InitType, NextType, PartsAssumption
<1>2. PartsInit /\ Is("claims") => VolumesTypedInv
  BY VolumesAlone, VolumesTyped, PartsAssumption
<1>3. PartsInit /\ Is("admin") => Admin!TypeOK
  BY AdminAlone, AdminTyped, PartsAssumption
<1>4. PartsInit /\ Is("certs") => CertsTypedInv
  BY CertsAlone, CertsTyped, PartsAssumption
<1>5. PartsInit /\ Is("objects") => ObjectsTypedInv
  BY ObjectsAlone, ObjectsTyped, PartsAssumption
<1>6. PartsInit /\ Is("clients") => CallersInv
  BY ClientsAlone, ClientsTyped, PartsAssumption
<1>7. PartsInit /\ Is("accounts") => AccountsInv
  BY AccountsAlone, AccountsTyped, PartsAssumption
<1>8. PartsInit /\ Is("roles") => AssignmentsInv
  BY AssignmentsAlone, AssignmentsTyped, PartsAssumption
<1>9. PartsInit /\ Is("retention") => Retention!TypeOK
  BY RetentionAlone, RetentionTyped, PartsAssumption
<1>10. PartsInit /\ Is("connections") => ConnectionsTypedInv
  BY ConnectionsAlone, ConnectionsTyped, PartsAssumption
<1>11. PartsInit /\ Is("ingest") => Ingest!TypeOK
  BY IngestAlone, IngestTyped, PartsAssumption
<1>12. PartsInit /\ Is("telemetry") => Collections!TypeOK
  BY CollectionsAlone, CollectionsTyped, PartsAssumption
<1>13. PartsInit /\ Is("webhooks") => Webhooks!TypeOK
  BY WebhooksAlone, WebhooksTyped, PartsAssumption
<1> QED BY <1>1, <1>2, <1>3, <1>4, <1>5, <1>6, <1>7, <1>8, <1>9, <1>10, <1>11, <1>12, <1>13 DEF TypedInv

LEMMA TypedStep == TypedInv /\ [PartsNext]_all => TypedInv'
<1> SUFFICES ASSUME TypedInv, [PartsNext]_all PROVE TypedInv'
  OBVIOUS
<1>0. part' = part
  BY PartStays
<1>1. ASSUME Is("searches") PROVE (TypeOK)'
  BY <1>1, SearchesAlone, NextType, PartsAssumption DEF TypedInv
<1>2. ASSUME Is("claims") PROVE (VolumesTypedInv)'
  BY <1>2, VolumesAlone, VolumesTyped, PartsAssumption DEF TypedInv
<1>3. ASSUME Is("admin") PROVE (Admin!TypeOK)'
  BY <1>3, AdminAlone, AdminTyped, PartsAssumption DEF TypedInv
<1>4. ASSUME Is("certs") PROVE (CertsTypedInv)'
  BY <1>4, CertsAlone, CertsTyped, PartsAssumption DEF TypedInv
<1>5. ASSUME Is("objects") PROVE (ObjectsTypedInv)'
  BY <1>5, ObjectsAlone, ObjectsTyped, PartsAssumption DEF TypedInv
<1>6. ASSUME Is("clients") PROVE (CallersInv)'
  BY <1>6, ClientsAlone, ClientsTyped, PartsAssumption DEF TypedInv
<1>7. ASSUME Is("accounts") PROVE (AccountsInv)'
  BY <1>7, AccountsAlone, AccountsTyped, PartsAssumption DEF TypedInv
<1>8. ASSUME Is("roles") PROVE (AssignmentsInv)'
  BY <1>8, AssignmentsAlone, AssignmentsTyped, PartsAssumption DEF TypedInv
<1>9. ASSUME Is("retention") PROVE (Retention!TypeOK)'
  BY <1>9, RetentionAlone, RetentionTyped, PartsAssumption DEF TypedInv
<1>10. ASSUME Is("connections") PROVE (ConnectionsTypedInv)'
  BY <1>10, ConnectionsAlone, ConnectionsTyped, PartsAssumption DEF TypedInv
<1>11. ASSUME Is("ingest") PROVE (Ingest!TypeOK)'
  BY <1>11, IngestAlone, IngestTyped, PartsAssumption DEF TypedInv
<1>12. ASSUME Is("telemetry") PROVE (Collections!TypeOK)'
  BY <1>12, CollectionsAlone, CollectionsTyped, PartsAssumption DEF TypedInv
<1>13. ASSUME Is("webhooks") PROVE (Webhooks!TypeOK)'
  BY <1>13, WebhooksAlone, WebhooksTyped, PartsAssumption DEF TypedInv
<1> QED BY <1>0, <1>1, <1>2, <1>3, <1>4, <1>5, <1>6, <1>7, <1>8, <1>9, <1>10, <1>11, <1>12, <1>13 DEF TypedInv, Is

(* Whichever component a behaviour is about, its variables keep their types: for certificates this bounds the
   pods of the pool and the key pairs that secrets are by, for clients it says that every call has a whole
   configuration, for ingest tokens that no token is known which Humio did not make. *)
THEOREM PartsTyped == PartsSpec => []Typed
<1>1. TypedInv => Typed
  <2> SUFFICES ASSUME TypedInv PROVE Typed
    OBVIOUS
  <2>1. Is("claims") => Volumes!TypeOK
    BY VolumesTyped, PartsAssumption DEF TypedInv
  <2>2. Is("certs") => Certs!TypeOK
    BY CertsTyped, PartsAssumption DEF TypedInv
  <2>3. Is("objects") => Objects!TypeOK
    BY DEF TypedInv, ObjectsTypedInv
  <2>4. Is("clients") => Clients!TypeOK
    BY DEF TypedInv, CallersInv
  <2>5. Is("accounts") => Accounts!TypeOK
    BY DEF TypedInv, AccountsInv
  <2>6. Is("roles") => Assignments!TypeOK
    BY DEF TypedInv, AssignmentsInv
  <2>7. Is("connections") => Connections!TypeOK
    BY DEF TypedInv, ConnectionsTypedInv
  <2> QED BY <2>1, <2>2, <2>3, <2>4, <2>5, <2>6, <2>7 DEF TypedInv, Typed
<1> QED BY <1>1, TypedInit, TypedStep, PTL DEF PartsSpec
=============================================================================
