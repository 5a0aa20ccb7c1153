-------------------------- MODULE EntityController --------------------------
(***************************************************************************)
(* The controllers of what lives in Humio and nowhere else: repositories,  *)
(* views, parsers, actions, alerts, searches, groups, users, roles, IP     *)
(* filters and feature flags.  Each has its own Reconcile; they are one    *)
(* handler with the differences listed in the record of the kind.          *)
(*                                                                         *)
(* A controller has one worker: it reconciles one CR at a time.  One       *)
(* action is one call that writes to Humio or to the API server, with the  *)
(* reads that lead to it; meanwhile users edit CRs and others use Humio.   *)
(* A CR is written with the resource version that was read, so a write     *)
(* fails when the CR has changed since.                                    *)
(***************************************************************************)
EXTENDS Integers, EntityKinds

CONSTANTS
  Crs,        \* the custom resources, all of one kind
  Kinds,      \* the kinds of a run
  Names,      \* values of spec.name, which cannot be edited
  Places,     \* values of spec.viewName or spec.repositoryName
  Specs,      \* values of the rest of the spec
  Invalid,    \* those among them that the handler of some kinds rejects
  MaxIds,     \* bound: how many IDs Humio gives out
  FaultKinds, MaxFaults,  \* which failures may happen, and a bound on how many
  Edits, MaxEdits         \* which edits users make, and a bound on how many

States == {"", "Exists", "NotFound", "Unknown", "ConfigError"}

ASSUME EntityAssumption ==
  /\ MaxIds \in Nat /\ MaxFaults \in Nat /\ MaxEdits \in Nat
  /\ Kinds \subseteq [hides : BOOLEAN, flag : BOOLEAN, byId : BOOLEAN, stops : BOOLEAN,
                     reports : BOOLEAN, checks : BOOLEAN, placed : BOOLEAN,
                     guards : BOOLEAN, unsure : States]

VARIABLES
  kind,     \* the kind of all CRs; never changes
  cr,       \* the CRs in the API server
  objects,  \* what is in Humio
  ids,      \* how many IDs Humio has given out
  work,     \* what the worker is at, for which CR, its copy of that and the ID it was given
  faults, edits  \* failures and edits so far

vars == <<kind, cr, objects, ids, work, faults, edits>>

NoId == 0
Ids == 0..MaxIds
Cr == [phase : {"live", "deleting", "gone"}, finalizer : BOOLEAN, state : States, id : Ids,
       name : Names, place : Places, spec : Specs, allow : BOOLEAN]
Object == [owner : Crs, name : Names, place : Places, spec : Specs, id : Ids]
Worker == [pc : {"idle", "begun", "guarded", "made", "reporting"}, on : Crs, copy : Cr, id : Ids]

(* Every variable has its type. *)
TypeOK ==
  /\ kind \in Kinds
  /\ cr \in [Crs -> Cr]
  /\ objects \subseteq Object
  /\ ids \in Ids
  /\ work \in Worker
  /\ faults \in 0..MaxFaults
  /\ edits \in 0..MaxEdits

(***************************************************************************)
(* What the handler sees                                                   *)
(***************************************************************************)
On == work.on
Copy == work.copy
Fresh == Copy = cr[On]

\* The getters of the client: by name and place, IP filters by the ID if there is one.
Found ==
  IF kind.byId /\ Copy.id # NoId
  THEN {o \in objects : o.id = Copy.id}
  ELSE {o \in objects : o.name = Copy.name /\ o.place = Copy.place}

Marked == work.pc = "begun" /\ Copy.phase = "deleting"
\* Mutant: objects are made for CRs without the finalizer.
WorkingUnguarded ==
  /\ work.pc \in {"begun", "guarded"}
  /\ Copy.phase = "live"

Working ==
  /\ work.pc \in {"begun", "guarded"}
  /\ Copy.phase = "live"
  /\ Copy.finalizer \/ kind.flag
Rejected == kind.checks /\ Copy.spec \in Invalid
\* Mutant: what there is counts as what is wanted.
AsExpected == kind.flag \/ \A o \in Found : o.spec = Copy.spec
NeedsId == kind.byId /\ Copy.id = NoId

New(i) == [owner |-> On, name |-> Copy.name, place |-> Copy.place, spec |-> Copy.spec, id |-> i]
Updated == (objects \ Found) \cup {[o EXCEPT !.spec = Copy.spec] : o \in Found}

Return == work' = [work EXCEPT !.pc = "idle"]

\* The reconcile returns; the deferred report runs when it is set up by then.
Leave(deferred) == IF deferred THEN work' = [work EXCEPT !.pc = "reporting"] ELSE Return

\* setState and the like: the status of the copy is written if it is still the current CR.
WriteStatus(s, i) ==
  cr' = IF Fresh THEN [cr EXCEPT ![On] = [@ EXCEPT !.state = s, !.id = i]] ELSE cr

NoFault == UNCHANGED <<kind, faults, edits>>
Fault(f) ==
  /\ f \in FaultKinds
  /\ faults < MaxFaults
  /\ faults' = faults + 1
  /\ UNCHANGED <<kind, edits>>
Edit(e) ==
  /\ e \in Edits
  /\ edits < MaxEdits
  /\ edits' = edits + 1
  /\ UNCHANGED <<kind, objects, ids, work, faults>>

Init ==
  /\ kind \in Kinds
  /\ \E p \in Places, s \in Specs :
       cr \in [Crs -> [phase : {"live"}, finalizer : {FALSE}, state : {""}, id : {NoId},
                       name : Names, place : {p}, spec : {s}, allow : {FALSE}]]
  /\ objects = {}
  /\ ids = NoId
  /\ \E c \in Crs : work = [pc |-> "idle", on |-> c, copy |-> cr[c], id |-> NoId]
  /\ faults = 0
  /\ edits = 0

(***************************************************************************)
(* Reconcile                                                               *)
(***************************************************************************)
Begin(c) ==
  /\ work.pc = "idle"
  /\ cr[c].phase # "gone"
  /\ work' = [pc |-> "begun", on |-> c, copy |-> cr[c], id |-> NoId]
  /\ UNCHANGED <<cr, objects, ids>> /\ NoFault

\* No client can be made for the cluster, or the feature flags cannot be listed.
ClusterFails ==
  /\ work.pc = "begun"
  /\ Fault("cluster")
  /\ WriteStatus("ConfigError", Copy.id)
  /\ Return
  /\ UNCHANGED <<objects, ids>>

RemoveFinalizer ==
  /\ cr' = IF Fresh \/ kind.flag THEN [cr EXCEPT ![On].phase = "gone"] ELSE cr
  /\ Leave(kind.reports)
  /\ UNCHANGED <<objects, ids>>

Release ==
  /\ Marked
  /\ Found = {}
  /\ RemoveFinalizer /\ NoFault

\* The lookup failed, and its error says that there is nothing, or is not looked at.
ReleaseBlindly ==
  /\ Marked
  /\ kind.hides
  /\ Fault("humio")
  /\ RemoveFinalizer

\* finalize: without the permission it fails, without an ID it does nothing.
MayDelete == ~NeedsId /\ (kind.guards => Copy.allow)
DeleteObject ==
  /\ Marked
  /\ Found # {}
  /\ objects' = IF MayDelete THEN objects \ Found ELSE objects
  /\ Leave(kind.reports)
  /\ UNCHANGED <<cr, ids>> /\ NoFault

\* Mutant: the finalizer goes although deleting the object failed.
DeleteFailsAndReleases ==
  /\ Marked
  /\ Fault("humio")
  /\ RemoveFinalizer

\* A call that fails may have been carried out all the same.
DeleteFails ==
  /\ Marked
  /\ Fault("humio")
  /\ objects' \in {objects, IF MayDelete THEN objects \ Found ELSE objects}
  /\ Leave(kind.reports)
  /\ UNCHANGED <<cr, ids>>

AddFinalizer ==
  /\ work.pc = "begun"
  /\ Copy.phase = "live"
  /\ ~Copy.finalizer
  /\ ~kind.flag
  /\ IF Fresh
     THEN /\ cr' = [cr EXCEPT ![On].finalizer = TRUE]
          /\ work' = [work EXCEPT
                         !.pc = IF ~kind.stops THEN "guarded"
                                ELSE IF kind.reports THEN "reporting" ELSE "idle",
                         !.copy.finalizer = TRUE]
     ELSE /\ Leave(kind.reports)
          /\ UNCHANGED cr
  /\ UNCHANGED <<objects, ids>> /\ NoFault

RejectSpec ==
  /\ Working
  /\ Rejected
  /\ WriteStatus("ConfigError", Copy.id)
  /\ work' = [work EXCEPT !.pc = "reporting", !.copy.state = "ConfigError"]
  /\ UNCHANGED <<objects, ids>> /\ NoFault

Create ==
  /\ Working
  /\ ~Rejected
  /\ Found = {}
  /\ ids' = IF kind.byId THEN ids + 1 ELSE ids
  /\ ids' \in Ids
  /\ objects' = objects \cup {New(ids')}
  /\ work' = [work EXCEPT !.pc = IF kind.byId \/ kind.flag THEN "made" ELSE "reporting",
                          !.id = ids']
  /\ UNCHANGED cr /\ NoFault

\* Without an ID the update of an IP filter fails, and the rest is skipped.
UpdateObject ==
  /\ Working
  /\ ~Rejected
  /\ Found # {}
  /\ ~AsExpected
  /\ objects' = IF NeedsId THEN objects ELSE Updated
  /\ Leave(~NeedsId)
  /\ UNCHANGED <<cr, ids>> /\ NoFault

NothingToDo ==
  /\ Working
  /\ ~Rejected
  /\ Found # {}
  /\ AsExpected
  /\ work' = [work EXCEPT !.pc = IF kind.flag THEN "made" ELSE "reporting"]
  /\ UNCHANGED <<cr, objects, ids>> /\ NoFault

\* Looking up, creating or updating fails; the IP filters' handler then skips the rest.
HumioFails ==
  /\ Working
  /\ ~Rejected
  /\ Fault("humio")
  /\ \/ UNCHANGED <<objects, ids>>
     \/ /\ Found = {}
        /\ ids' = IF kind.byId THEN ids + 1 ELSE ids
        /\ ids' \in Ids
        /\ objects' = objects \cup {New(ids')}
     \/ /\ Found # {}
        /\ ~NeedsId
        /\ objects' = Updated
        /\ UNCHANGED ids
  /\ Leave(~kind.byId)
  /\ UNCHANGED cr

\* The ID is in the status only from here on.
RecordId ==
  /\ work.pc = "made"
  /\ kind.byId
  /\ WriteStatus("Exists", work.id)
  /\ Return
  /\ UNCHANGED <<objects, ids>> /\ NoFault

GuardFlag ==
  /\ work.pc = "made"
  /\ kind.flag
  /\ IF Fresh
     THEN /\ cr' = [cr EXCEPT ![On].finalizer = TRUE]
          /\ work' = [work EXCEPT !.pc = "reporting", !.copy.finalizer = TRUE]
     ELSE /\ Leave(TRUE)
          /\ UNCHANGED cr
  /\ UNCHANGED <<objects, ids>> /\ NoFault

\* A feature flag that is found to be disabled leaves the state as it is.
Report ==
  /\ work.pc = "reporting"
  /\ \/ /\ Found = {}
        /\ WriteStatus(IF kind.flag THEN Copy.state ELSE "NotFound", Copy.id)
     \/ \E o \in Found : WriteStatus("Exists", o.id)
  /\ Return
  /\ UNCHANGED <<objects, ids>> /\ NoFault

ReportFails ==
  /\ work.pc = "reporting"
  /\ Fault("humio")
  /\ WriteStatus(kind.unsure, Copy.id)
  /\ Return
  /\ UNCHANGED <<objects, ids>>

(***************************************************************************)
(* What happens around it                                                  *)
(***************************************************************************)
Crash ==
  /\ work.pc # "idle"
  /\ Fault("crash")
  /\ Return
  /\ UNCHANGED <<cr, objects, ids>>

\* Somebody deletes an object behind the back of the operator.
LoseObject ==
  /\ Fault("loss")
  /\ \E o \in objects : objects' = objects \ {o}
  /\ UNCHANGED <<cr, ids, work>>

EditSpec(c) ==
  /\ Edit("spec")
  /\ cr[c].phase # "gone"
  /\ \E s \in Specs \ {cr[c].spec} : cr' = [cr EXCEPT ![c].spec = s]

EditPlace(c) ==
  /\ Edit("place")
  /\ kind.placed
  /\ cr[c].phase # "gone"
  /\ \E p \in Places \ {cr[c].place} : cr' = [cr EXCEPT ![c].place = p]

Allow(c) ==
  /\ Edit("allow")
  /\ kind.guards
  /\ cr[c].phase # "gone"
  /\ cr' = [cr EXCEPT ![c].allow = ~@]

DeleteCr(c) ==
  /\ Edit("delete")
  /\ cr[c].phase = "live"
  /\ cr' = [cr EXCEPT ![c].phase = IF cr[c].finalizer THEN "deleting" ELSE "gone"]

Reconcile ==
  \/ Release \/ DeleteObject \/ AddFinalizer \/ RejectSpec \/ Create \/ UpdateObject
  \/ NothingToDo \/ RecordId \/ GuardFlag \/ Report
Failure ==
  \/ ClusterFails \/ ReleaseBlindly \/ DeleteFails \/ HumioFails \/ ReportFails
  \/ Crash \/ LoseObject
User == \E c \in Crs : EditSpec(c) \/ EditPlace(c) \/ Allow(c) \/ DeleteCr(c)

Next == (\E c \in Crs : Begin(c)) \/ Reconcile \/ Failure \/ User

\* A reconcile that runs goes on, and the queue hands out every CR again and again: what
\* a handler returns always asks for another run, or it is run again as its CR was written.
Fairness == WF_vars(Reconcile) /\ \A c \in Crs : SF_vars(Begin(c))

Spec == Init /\ [][Next]_vars /\ Fairness

(***************************************************************************)
(* Properties                                                              *)
(***************************************************************************)
Stage(c) ==
  IF cr[c].phase # "live" THEN cr[c].phase ELSE IF cr[c].finalizer THEN "guarded" ELSE "new"
Stages == [c \in Crs |-> Stage(c)]
Owners == {o.owner : o \in objects}

Promise == INSTANCE Finalizer WITH stage <- Stages, made <- Owners

(* The controllers keep what the finalizer promises, whatever call fails and wherever
   the operator dies: there is an object only for a CR with the finalizer, and the
   finalizer goes only when the object has gone ("first add the finalizer, then create";
   "if the finalization logic fails, don't remove the finalizer"). *)
KeepsPromise == Promise!Spec

(* A CR that is gone has left nothing in Humio. *)
NothingLeftBehind == Promise!NothingLeft

Has(c) == \E o \in objects :
  /\ o.name = cr[c].name
  /\ o.place = cr[c].place
  /\ o.spec = cr[c].spec \/ kind.flag
Settled(c) == cr[c].phase = "live" => cr[c].state = "Exists" /\ Has(c)

(* Once calls no longer fail, the CR is gone or gets what its spec says and reports it; a
   repository that may not be deleted waits. *)
AllSettled == \A c \in Crs :
  /\ Settled(c)
  /\ cr[c].phase = "deleting" => kind.guards /\ ~cr[c].allow

(* When two CRs name the same object, and one of them is deleted and takes the object of the
   other with it, the other gets it back. The deletion may have to wait for ever, when the other
   makes the object anew each time before the deletion looks whether it has gone. *)
NamesakesSettled ==
  (\A c \in Crs : cr[c].phase # "deleting") => \A c \in Crs : Settled(c)
=============================================================================
