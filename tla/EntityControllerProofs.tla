----------------------- MODULE EntityControllerProofs -----------------------
(***************************************************************************)
(* What holds of EntityController for every set of CRs, names and specs,   *)
(* and any number of edits and failures.                                   *)
(***************************************************************************)
EXTENDS EntityController, TLAPS

(* In the initial states every variable has its type. *)

LEMMA InitType == Init => TypeOK
<1> SUFFICES ASSUME Init PROVE TypeOK
  OBVIOUS
<1>1. NoId \in Ids /\ "" \in States
  <2>1. MaxIds \in Nat
    BY EntityAssumption
  <2> QED BY <2>1 DEF NoId, Ids, States
<1>2. cr \in [Crs -> Cr]
  BY <1>1 DEF Init, Cr
<1>3. work \in Worker
  <2>1. PICK c \in Crs : work = [pc |-> "idle", on |-> c, copy |-> cr[c], id |-> NoId]
    BY DEF Init
  <2>2. cr[c] \in Cr
    BY <1>2
  <2> HIDE DEF Cr
  <2> QED BY <1>1, <2>1, <2>2 DEF Worker
<1>4. faults \in 0..MaxFaults /\ edits \in 0..MaxEdits
  <2>1. faults = 0 /\ edits = 0
    BY DEF Init
  <2> QED BY <2>1, EntityAssumption
<1>5. objects \subseteq Object /\ kind \in Kinds /\ ids \in Ids
  BY <1>1 DEF Init
<1> QED BY <1>2, <1>3, <1>4, <1>5 DEF TypeOK

(* A write of the status of the CR at hand keeps the type of the CRs. *)
LEMMA StatusType ==
  ASSUME TypeOK, NEW s \in States, NEW i \in Ids, WriteStatus(s, i)
  PROVE  cr' \in [Crs -> Cr]
<1>1. [cr[On] EXCEPT !.state = s, !.id = i] \in Cr
  BY DEF TypeOK, Worker, Cr, On
<1> QED BY <1>1 DEF TypeOK, WriteStatus

(* A step of the worker that touches only where it is and its copy. *)
LEMMA CopyType ==
  ASSUME TypeOK
  PROVE  /\ [work.copy EXCEPT !.finalizer = TRUE] \in Cr
         /\ [work.copy EXCEPT !.state = "ConfigError"] \in Cr
<1>1. work.copy \in Cr /\ "ConfigError" \in States
  BY DEF TypeOK, Worker, States
<1> QED BY <1>1 DEF Cr

(* Where the worker may go. *)
LEMMA LeaveType ==
  ASSUME TypeOK, NEW d, Leave(d) \/ Return
  PROVE  work' \in Worker
BY DEF TypeOK, Leave, Return, Worker

LEMMA FoundType == TypeOK => Found \subseteq Object /\ Copy \in Cr /\ On \in Crs /\ Copy.id \in Ids
BY DEF TypeOK, Found, Copy, On, Worker, Cr

LEMMA NewType ==
  ASSUME TypeOK, NEW i \in Ids
  PROVE  objects \cup {New(i)} \subseteq Object
BY FoundType DEF TypeOK, New, Object, Cr

LEMMA UpdatedType == TypeOK => Updated \subseteq Object
BY FoundType DEF TypeOK, Updated, Object, Cr

(* The counters stay within their bounds. *)
LEMMA BudgetType ==
  ASSUME TypeOK
  PROVE  /\ NoFault => faults' \in 0..MaxFaults /\ edits' \in 0..MaxEdits /\ kind' \in Kinds
         /\ \A f : Fault(f) => faults' \in 0..MaxFaults /\ edits' \in 0..MaxEdits /\ kind' \in Kinds
         /\ \A e : Edit(e) => /\ faults' \in 0..MaxFaults /\ edits' \in 0..MaxEdits
                              /\ kind' \in Kinds /\ work' \in Worker
BY EntityAssumption DEF TypeOK, NoFault, Fault, Edit

(* Every step of a reconcile keeps the types. *)
LEMMA ReconcileType == TypeOK /\ Reconcile => TypeOK'
<1> SUFFICES ASSUME TypeOK, Reconcile PROVE TypeOK'
  OBVIOUS
<1> USE FoundType, BudgetType, LeaveType
<1>1. CASE Release
  BY <1>1 DEF Release, RemoveFinalizer, TypeOK, Cr
<1>2. CASE DeleteObject
  BY <1>2 DEF DeleteObject, TypeOK
<1>3. CASE AddFinalizer
  <2>1. cr' \in [Crs -> Cr]
    <3>1. [cr[On] EXCEPT !.finalizer = TRUE] \in Cr
      BY DEF TypeOK, Cr
    <3> QED BY <1>3, <3>1 DEF AddFinalizer, TypeOK
  <2>2. work' \in Worker
    BY <1>3, CopyType DEF AddFinalizer, TypeOK, Worker
  <2> QED BY <1>3, <2>1, <2>2 DEF AddFinalizer, TypeOK
<1>4. CASE RejectSpec
  <2>1. "ConfigError" \in States
    BY DEF States
  <2>2. cr' \in [Crs -> Cr]
    BY <1>4, <2>1, StatusType DEF RejectSpec
  <2>3. work' \in Worker
    BY <1>4, CopyType DEF RejectSpec, TypeOK, Worker
  <2> QED BY <1>4, <2>2, <2>3 DEF RejectSpec, TypeOK
<1>5. CASE Create
  <2>1. work' \in Worker
    BY <1>5 DEF Create, TypeOK, Worker
  <2> QED BY <1>5, <2>1, NewType DEF Create, TypeOK
<1>6. CASE UpdateObject
  BY <1>6, UpdatedType DEF UpdateObject, TypeOK
<1>7. CASE NothingToDo
  <2>1. work' \in Worker
    BY <1>7 DEF NothingToDo, TypeOK, Worker
  <2> QED BY <1>7, <2>1 DEF NothingToDo, TypeOK
<1>8. CASE RecordId
  <2>1. "Exists" \in States /\ work.id \in Ids
    BY DEF States, TypeOK, Worker
  <2> QED BY <1>8, <2>1, StatusType DEF RecordId, TypeOK
<1>9. CASE GuardFlag
  <2>1. cr' \in [Crs -> Cr]
    <3>1. [cr[On] EXCEPT !.finalizer = TRUE] \in Cr
      BY DEF TypeOK, Cr
    <3> QED BY <1>9, <3>1 DEF GuardFlag, TypeOK
  <2>2. work' \in Worker
    BY <1>9, CopyType DEF GuardFlag, Leave, Return, TypeOK, Worker
  <2> QED BY <1>9, <2>1, <2>2 DEF GuardFlag, TypeOK
<1>10. CASE Report
  <2>1. {"Exists", "NotFound", Copy.state} \subseteq States
    BY DEF States, Cr
  <2>2. \A o \in Found : o.id \in Ids
    BY DEF Object
  <2>3. cr' \in [Crs -> Cr]
    BY <1>10, <2>1, <2>2, StatusType DEF Report
  <2> QED BY <1>10, <2>3 DEF Report, TypeOK
<1> QED
  BY <1>1, <1>2, <1>3, <1>4, <1>5, <1>6, <1>7, <1>8, <1>9, <1>10 DEF Reconcile

(* Every failure keeps the types. *)
LEMMA FailureType == TypeOK /\ Failure => TypeOK'
<1> SUFFICES ASSUME TypeOK, Failure PROVE TypeOK'
  OBVIOUS
<1> USE FoundType, BudgetType, LeaveType
<1>1. CASE ClusterFails
  <2>1. "ConfigError" \in States
    BY DEF States
  <2> QED BY <1>1, <2>1, StatusType DEF ClusterFails, TypeOK
<1>2. CASE ReleaseBlindly
  BY <1>2 DEF ReleaseBlindly, RemoveFinalizer, TypeOK, Cr
<1>3. CASE DeleteFails
  BY <1>3 DEF DeleteFails, TypeOK
<1>4. CASE HumioFails
  <2>1. objects' \subseteq Object /\ ids' \in Ids
    BY <1>4, NewType, UpdatedType DEF HumioFails, TypeOK
  <2> QED BY <1>4, <2>1 DEF HumioFails, TypeOK
<1>5. CASE ReportFails
  <2>1. kind.unsure \in States
    BY EntityAssumption DEF TypeOK
  <2> QED BY <1>5, <2>1, StatusType DEF ReportFails, TypeOK
<1>6. CASE Crash
  BY <1>6 DEF Crash, TypeOK
<1>7. CASE LoseObject
  BY <1>7 DEF LoseObject, TypeOK
<1> QED
  BY <1>1, <1>2, <1>3, <1>4, <1>5, <1>6, <1>7 DEF Failure

(* Every edit keeps the types. *)
LEMMA UserType == TypeOK /\ User => TypeOK'
<1> SUFFICES ASSUME TypeOK, NEW c \in Crs, EditSpec(c) \/ EditPlace(c) \/ Allow(c) \/ DeleteCr(c)
             PROVE  TypeOK'
  BY DEF User
<1>1. cr' \in [Crs -> Cr]
  <2>1. cr[c] \in Cr
    BY DEF TypeOK
  <2>2. /\ \A s \in Specs : [cr[c] EXCEPT !.spec = s] \in Cr
        /\ \A p \in Places : [cr[c] EXCEPT !.place = p] \in Cr
        /\ [cr[c] EXCEPT !.allow = ~@] \in Cr
        /\ \A ph \in {"gone", "deleting"} : [cr[c] EXCEPT !.phase = ph] \in Cr
    BY <2>1 DEF Cr
  <2>3. CASE EditSpec(c)
    BY <2>2, <2>3 DEF EditSpec, TypeOK
  <2>4. CASE EditPlace(c)
    BY <2>2, <2>4 DEF EditPlace, TypeOK
  <2>5. CASE Allow(c)
    BY <2>2, <2>5 DEF Allow, TypeOK
  <2>6. CASE DeleteCr(c)
    BY <2>2, <2>6 DEF DeleteCr, TypeOK
  <2> QED BY <2>3, <2>4, <2>5, <2>6
<1>2. PICK e : Edit(e)
  BY DEF EditSpec, EditPlace, Allow, DeleteCr
<1> QED BY <1>1, <1>2, BudgetType DEF Edit, TypeOK

LEMMA NextType == TypeOK /\ [Next]_vars => TypeOK'
<1>1. ASSUME TypeOK, NEW c \in Crs, Begin(c) PROVE TypeOK'
  <2>1. work' \in Worker
    BY <1>1, EntityAssumption DEF Begin, TypeOK, Worker, Ids, NoId
  <2> QED BY <1>1, <2>1, BudgetType DEF Begin, TypeOK
<1>2. TypeOK /\ UNCHANGED vars => TypeOK'
  BY DEF TypeOK, vars
<1> QED BY <1>1, <1>2, ReconcileType, FailureType, UserType DEF Next

(* Every variable keeps its type, for every kind of CR and every number of CRs, objects,
   failures and edits. *)
THEOREM EntityTypeCorrect == Spec => []TypeOK
BY InitType, NextType, PTL DEF Spec

(***************************************************************************)
(* The controllers implement the finalizer                                 *)
(***************************************************************************)
(* What it takes: looking an object up does not hide its errors, it is found by its name,
   which cannot be edited, and its place, which nobody edits. *)
Sound ==
  /\ \A k \in Kinds : ~k.hides /\ ~k.flag /\ ~k.byId
  /\ "place" \notin Edits

OwnersGuarded == \A o \in objects :
  /\ cr[o.owner].finalizer
  /\ cr[o.owner].phase # "gone"
  /\ o.name = cr[o.owner].name
  /\ o.place = cr[o.owner].place

DeletingGuarded == \A c \in Crs : cr[c].phase = "deleting" => cr[c].finalizer

\* What the worker may rely on while its copy grows old.
CopyHolds == work.pc # "idle" =>
  /\ Copy.name = cr[On].name
  /\ Copy.place = cr[On].place
  /\ work.pc \in {"begun", "guarded"} /\ Copy.finalizer
     => cr[On].finalizer /\ cr[On].phase # "gone"

FInv == TypeOK /\ OwnersGuarded /\ DeletingGuarded /\ CopyHolds

(* A step that leaves of every CR what matters to its finalizer. *)
Keeps == \A c \in Crs :
  /\ cr'[c].phase = cr[c].phase
  /\ cr'[c].finalizer = cr[c].finalizer
  /\ cr'[c].name = cr[c].name
  /\ cr'[c].place = cr[c].place

LEMMA SoundKind ==
  ASSUME Sound, TypeOK
  PROVE  ~kind.hides /\ ~kind.flag /\ ~kind.byId
BY DEF Sound, TypeOK

(* A status that is written changes nothing that matters to the finalizer. *)
LEMMA StatusKeeps ==
  ASSUME TypeOK, NEW s, NEW i, WriteStatus(s, i)
  PROVE  Keeps
<1>1. \A c \in Crs : cr[c] \in Cr
  BY DEF TypeOK
<1> QED BY <1>1 DEF TypeOK, WriteStatus, Keeps, Cr

(* The worker's copy stays as good as it was when its CR keeps what matters and it does
   not take up another one. *)
LEMMA KeepsCopy ==
  ASSUME TypeOK, CopyHolds, Keeps,
         \/ work' = work
         \/ work'.pc = "idle"
         \/ /\ work'.on = work.on
            /\ work.pc # "idle"
            /\ work'.pc \in {"made", "reporting"}
            /\ work'.copy.name = work.copy.name
            /\ work'.copy.place = work.copy.place
  PROVE  CopyHolds'
BY DEF TypeOK, Worker, CopyHolds, Keeps, Copy, On

(* Leaving the reconcile is one of these. *)
LEMMA LeaveCopy ==
  ASSUME TypeOK, work.pc # "idle", NEW d, Leave(d) \/ Return
  PROVE  \/ work'.pc = "idle"
         \/ /\ work'.on = work.on
            /\ work'.pc = "reporting"
            /\ work'.copy = work.copy
BY DEF TypeOK, Worker, Leave, Return

LEMMA KeepsOwners ==
  ASSUME TypeOK, OwnersGuarded, DeletingGuarded, Keeps, objects' \subseteq objects
  PROVE  OwnersGuarded' /\ DeletingGuarded'
<1>1. \A o \in objects : o.owner \in Crs
  BY DEF TypeOK, Object
<1> QED BY <1>1 DEF OwnersGuarded, DeletingGuarded, Keeps

LEMMA KeepsStages == ASSUME Keeps PROVE Stages' = Stages
BY DEF Keeps, Stages, Stage

(* Such a step is one of the abstract specification, or none. *)
LEMMA KeepsUnmakes ==
  ASSUME Keeps, objects' \subseteq objects
  PROVE  [Promise!Next]_(Promise!vars)
<1>1. Owners' \subseteq Owners
  BY DEF Owners
<1>2. Owners' = Owners \ (Owners \ Owners')
  BY <1>1
<1>3. Promise!Unmake(Owners \ Owners')
  BY <1>2, KeepsStages DEF Promise!Unmake
<1> QED BY <1>3 DEF Promise!Next

(* Both, for a step of this sort: what the rest of the proof needs of most steps. *)
LEMMA QuietStep ==
  ASSUME FInv, TypeOK', Keeps, objects' \subseteq objects, CopyHolds'
  PROVE  FInv' /\ [Promise!Next]_(Promise!vars)
BY KeepsOwners, KeepsUnmakes DEF FInv

(* A handler works only for a CR that has the finalizer, and is not gone. *)
LEMMA WorksGuarded ==
  ASSUME Sound, FInv, Working
  PROVE  /\ On \in Crs
         /\ cr[On].finalizer
         /\ cr[On].phase # "gone"
         /\ Copy.name = cr[On].name
         /\ Copy.place = cr[On].place
         /\ Stages[On] \in {"guarded", "deleting"}
<1>1. Copy.finalizer /\ work.pc \in {"begun", "guarded"}
  BY SoundKind DEF Working, FInv
<1>2. On \in Crs
  BY FoundType DEF FInv
<1>3. cr[On].phase \in {"live", "deleting", "gone"}
  BY <1>2 DEF FInv, TypeOK, Cr
<1> QED BY <1>1, <1>2, <1>3 DEF FInv, CopyHolds, Stages, Stage

(* Making the object of the CR at hand. *)
LEMMA MakesObject ==
  ASSUME Sound, FInv, TypeOK', Working, NEW i \in Ids, objects' = objects \cup {New(i)},
         UNCHANGED cr, CopyHolds'
  PROVE  FInv' /\ [Promise!Next]_(Promise!vars)
<1>1. /\ New(i).owner = On
      /\ New(i).name = Copy.name
      /\ New(i).place = Copy.place
  BY DEF New
<1>2. OwnersGuarded' /\ DeletingGuarded'
  BY <1>1, WorksGuarded DEF FInv, OwnersGuarded, DeletingGuarded
<1>3. Owners' = Owners \cup {On} /\ Stages' = Stages
  <2>1. Owners' = {o.owner : o \in objects \cup {New(i)}}
    BY DEF Owners
  <2>2. Stages' = Stages
    BY DEF Stages, Stage
  <2> QED BY <1>1, <2>1, <2>2 DEF Owners
<1>4. Promise!Make(On)
  BY <1>3, WorksGuarded DEF Promise!Make
<1> QED BY <1>2, <1>4, WorksGuarded DEF FInv, Promise!Next

(* Updating what was found: the objects keep their owners. *)
LEMMA UpdatesObject ==
  ASSUME Sound, FInv, TypeOK', objects' = Updated, UNCHANGED cr, CopyHolds'
  PROVE  FInv' /\ [Promise!Next]_(Promise!vars)
<1>1. \A o \in objects' : \E x \in objects :
        o.owner = x.owner /\ o.name = x.name /\ o.place = x.place
  <2> SUFFICES ASSUME NEW o \in Updated
               PROVE  \E x \in objects : /\ o.owner = x.owner
                                         /\ o.name = x.name
                                         /\ o.place = x.place
    OBVIOUS
  <2>1. CASE o \in objects
    BY <2>1
  <2>2. CASE o \notin objects
    <3>1. PICK x \in Found : o = [x EXCEPT !.spec = Copy.spec]
      BY <2>2 DEF Updated
    <3>2. x \in objects /\ x \in Object
      BY <3>1, FoundType DEF FInv, Found
    <3> QED BY <3>1, <3>2 DEF Object
  <2> QED BY <2>1, <2>2
<1>2. OwnersGuarded' /\ DeletingGuarded'
  <2> SUFFICES ASSUME NEW o \in objects'
               PROVE  /\ cr[o.owner].finalizer
                      /\ cr[o.owner].phase # "gone"
                      /\ o.name = cr[o.owner].name
                      /\ o.place = cr[o.owner].place
    BY DEF FInv, OwnersGuarded, DeletingGuarded
  <2>1. PICK x \in objects : o.owner = x.owner /\ o.name = x.name /\ o.place = x.place
    BY <1>1
  <2> QED BY <2>1 DEF FInv, OwnersGuarded
<1>3. Owners' \subseteq Owners
  BY <1>1 DEF Owners
<1>4. Stages' = Stages
  BY DEF Stages, Stage
<1>5. Promise!Unmake(Owners \ Owners')
  BY <1>3, <1>4 DEF Promise!Unmake
<1> QED BY <1>2, <1>5 DEF FInv, Promise!Next

(* The finalizer is removed when there is no object, so when the CR owns none. *)
LEMMA ReleaseStep ==
  ASSUME Sound, FInv, TypeOK', Release
  PROVE  FInv' /\ [Promise!Next]_(Promise!vars)
<1> USE DEF FInv
<1>1. ~kind.byId /\ ~kind.flag /\ On \in Crs /\ Marked /\ Found = {}
  BY SoundKind, FoundType DEF Release
<1>2. /\ work'.pc \in {"idle", "reporting"}
      /\ work'.on = work.on
      /\ work'.copy = work.copy
      /\ work.pc = "begun"
      /\ objects' = objects
  BY DEF Release, RemoveFinalizer, Leave, Return, Marked, TypeOK, Worker
<1>3. CASE Fresh
  <2>1. cr' = [cr EXCEPT ![On].phase = "gone"]
    BY <1>3, <1>1 DEF Release, RemoveFinalizer
  <2>2. cr[On].phase = "deleting"
    BY <1>1, <1>3 DEF Marked, Fresh
  <2>3. On \notin Owners
    <3> SUFFICES ASSUME NEW o \in objects, o.owner = On PROVE FALSE
      BY DEF Owners
    <3>1. o.name = Copy.name /\ o.place = Copy.place
      BY <1>3 DEF OwnersGuarded, Fresh
    <3> QED BY <3>1, <1>1 DEF Found
  <2>4. /\ \A c \in Crs \ {On} : cr'[c] = cr[c]
        /\ cr'[On] = [cr[On] EXCEPT !.phase = "gone"]
    BY <2>1, <1>1 DEF TypeOK
  <2>5. /\ cr'[On].phase = "gone"
        /\ cr'[On].name = cr[On].name
        /\ cr'[On].place = cr[On].place
    BY <2>4, <1>1 DEF TypeOK, Cr
  <2>6. OwnersGuarded'
    <3> SUFFICES ASSUME NEW o \in objects PROVE cr'[o.owner] = cr[o.owner]
      BY <1>2 DEF OwnersGuarded
    <3>1. o.owner \in Crs \ {On}
      BY <2>3 DEF TypeOK, Object, Owners
    <3> QED BY <3>1, <2>4
  <2>7. DeletingGuarded'
    BY <2>4, <2>5 DEF DeletingGuarded
  <2>8. CopyHolds'
    BY <1>1, <1>2, <2>5 DEF CopyHolds, Copy, On
  <2>9. Promise!Release(On)
    <3>1. Stages[On] = "deleting"
      BY <2>2, <1>1 DEF Stages, Stage
    <3>2. \A c \in Crs : Stages'[c] = IF c = On THEN "gone" ELSE Stages[c]
      BY <2>4, <2>5 DEF Stages, Stage
    <3>3. Stages' = [Stages EXCEPT ![On] = "gone"]
      BY <3>2 DEF Stages
    <3>4. Owners' = Owners
      BY <1>2 DEF Owners
    <3> QED BY <3>1, <3>3, <3>4, <2>3 DEF Promise!Release
  <2> QED BY <2>6, <2>7, <2>8, <2>9, <1>1 DEF Promise!Next
<1>4. CASE ~Fresh
  <2>1. cr' = cr
    BY <1>1, <1>4 DEF Release, RemoveFinalizer
  <2>2. Keeps
    BY <2>1 DEF Keeps
  <2>3. CopyHolds'
    BY <1>2, <2>2, KeepsCopy
  <2> QED BY <1>2, <2>2, <2>3, QuietStep
<1> QED BY <1>3, <1>4

(* The finalizer is added to the CR as it was read. *)
LEMMA GuardStep ==
  ASSUME FInv, TypeOK', AddFinalizer
  PROVE  FInv' /\ [Promise!Next]_(Promise!vars)
<1> USE DEF FInv
<1>1. On \in Crs /\ work.pc = "begun" /\ objects' = objects
  BY FoundType DEF AddFinalizer
<1>2. CASE Fresh
  <2>1. /\ cr[On].phase = "live"
        /\ ~cr[On].finalizer
    BY <1>2 DEF AddFinalizer, Fresh
  <2>2. /\ \A c \in Crs \ {On} : cr'[c] = cr[c]
        /\ cr'[On] = [cr[On] EXCEPT !.finalizer = TRUE]
    BY <1>1, <1>2 DEF AddFinalizer, TypeOK
  <2>3. /\ cr'[On].phase = "live"
        /\ cr'[On].finalizer
        /\ cr'[On].name = cr[On].name
        /\ cr'[On].place = cr[On].place
    BY <2>1, <2>2, <1>1 DEF TypeOK, Cr
  <2>4. OwnersGuarded'
    <3> SUFFICES ASSUME NEW o \in objects PROVE cr'[o.owner] = cr[o.owner]
      BY <1>1 DEF OwnersGuarded
    <3>1. o.owner \in Crs \ {On}
      BY <2>1 DEF TypeOK, Object, OwnersGuarded
    <3> QED BY <3>1, <2>2
  <2>5. DeletingGuarded'
    BY <2>2, <2>3 DEF DeletingGuarded
  <2>6. /\ work'.on = work.on
        /\ work'.copy.name = work.copy.name
        /\ work'.copy.place = work.copy.place
    <3>1. work \in Worker /\ work.copy \in Cr
      BY DEF TypeOK, Worker
    <3>2. /\ [work.copy EXCEPT !.finalizer = TRUE].name = work.copy.name
          /\ [work.copy EXCEPT !.finalizer = TRUE].place = work.copy.place
      BY <3>1 DEF Cr
    <3>3. work'.on = work.on /\ work'.copy = [work.copy EXCEPT !.finalizer = TRUE]
      BY <3>1, <1>2 DEF AddFinalizer, Worker
    <3> QED BY <3>2, <3>3
  <2>7. CopyHolds'
    BY <2>3, <2>6, <1>1 DEF CopyHolds, Copy, On
  <2>8. Promise!Guard(On)
    <3>1. Stages[On] = "new"
      BY <2>1, <1>1 DEF Stages, Stage
    <3>2. \A c \in Crs : Stages'[c] = IF c = On THEN "guarded" ELSE Stages[c]
      BY <2>2, <2>3 DEF Stages, Stage
    <3>3. Stages' = [Stages EXCEPT ![On] = "guarded"]
      BY <3>2 DEF Stages
    <3>4. Owners' = Owners
      BY <1>1 DEF Owners
    <3> QED BY <3>1, <3>3, <3>4 DEF Promise!Guard
  <2> QED BY <2>4, <2>5, <2>7, <2>8, <1>1 DEF Promise!Next
<1>3. CASE ~Fresh
  <2>1. Keeps
    BY <1>3 DEF AddFinalizer, Keeps
  <2>2. CopyHolds'
    BY <1>1, <1>3, <2>1, KeepsCopy, LeaveCopy DEF AddFinalizer
  <2> QED BY <1>1, <2>1, <2>2, QuietStep
<1> QED BY <1>2, <1>3

(* A CR that is deleted goes at once when it has no finalizer, and so owns nothing. *)
LEMMA DeleteCrStep ==
  ASSUME FInv, TypeOK', NEW d \in Crs, DeleteCr(d)
  PROVE  FInv' /\ [Promise!Next]_(Promise!vars)
<1> USE DEF FInv
<1> DEFINE to == IF cr[d].finalizer THEN "deleting" ELSE "gone"
<1>1. cr[d].phase = "live" /\ objects' = objects /\ work' = work
  BY DEF DeleteCr, Edit
<1>2. /\ \A c \in Crs \ {d} : cr'[c] = cr[c]
      /\ cr'[d] = [cr[d] EXCEPT !.phase = to]
  BY DEF DeleteCr, TypeOK
<1>3. /\ cr'[d].phase = to
      /\ cr'[d].finalizer = cr[d].finalizer
      /\ cr'[d].name = cr[d].name
      /\ cr'[d].place = cr[d].place
  BY <1>2 DEF TypeOK, Cr
<1>4. OwnersGuarded'
  <2> SUFFICES ASSUME NEW o \in objects
               PROVE  /\ cr'[o.owner].finalizer
                      /\ cr'[o.owner].phase # "gone"
                      /\ o.name = cr'[o.owner].name
                      /\ o.place = cr'[o.owner].place
    BY <1>1 DEF OwnersGuarded
  <2>1. o.owner \in Crs
    BY DEF TypeOK, Object
  <2>2. CASE o.owner = d
    BY <2>2, <1>3 DEF OwnersGuarded
  <2>3. CASE o.owner # d
    BY <2>1, <2>3, <1>2 DEF OwnersGuarded
  <2> QED BY <2>2, <2>3
<1>5. DeletingGuarded'
  BY <1>2, <1>3 DEF DeletingGuarded
<1>6. CopyHolds'
  <2>1. On \in Crs
    BY FoundType
  <2>2. CASE On = d
    BY <2>2, <1>1, <1>3 DEF CopyHolds, Copy, On
  <2>3. CASE On # d
    BY <2>1, <2>3, <1>1, <1>2 DEF CopyHolds, Copy, On
  <2> QED BY <2>2, <2>3
<1>7. Promise!Mark(d)
  <2>1. Stages[d] = IF cr[d].finalizer THEN "guarded" ELSE "new"
    BY <1>1 DEF Stages, Stage
  <2>2. \A c \in Crs : Stages'[c] = IF c = d THEN to ELSE Stages[c]
    BY <1>2, <1>3 DEF Stages, Stage
  <2>3. Stages' = [Stages EXCEPT ![d] = to]
    BY <2>2 DEF Stages
  <2>4. to = IF Stages[d] = "new" THEN "gone" ELSE "deleting"
    BY <2>1
  <2>5. d \in DOMAIN Stages /\ Stages[d] \in {"new", "guarded"}
    BY <2>1 DEF Stages
  <2>6. Owners' = Owners
    BY <1>1 DEF Owners
  <2> HIDE DEF to
  <2> QED BY <2>3, <2>4, <2>5, <2>6 DEF Promise!Mark
<1> QED BY <1>4, <1>5, <1>6, <1>7 DEF Promise!Next

(* An edit of the spec or of the permission leaves what matters to the finalizer. *)
LEMMA EditStep ==
  ASSUME FInv, TypeOK', NEW c \in Crs, EditSpec(c) \/ Allow(c)
  PROVE  FInv' /\ [Promise!Next]_(Promise!vars)
<1>1. objects' = objects /\ work' = work
  BY DEF EditSpec, Allow, Edit
<1>2. Keeps
  <2>1. \A d \in Crs : cr[d] \in Cr
    BY DEF FInv, TypeOK
  <2>2. \A d \in Crs \ {c} : cr'[d] = cr[d]
    BY DEF EditSpec, Allow, FInv, TypeOK
  <2>3. \/ \E s : cr'[c] = [cr[c] EXCEPT !.spec = s]
        \/ cr'[c] = [cr[c] EXCEPT !.allow = ~@]
    BY DEF EditSpec, Allow, FInv, TypeOK
  <2>4. /\ cr'[c].phase = cr[c].phase
        /\ cr'[c].finalizer = cr[c].finalizer
        /\ cr'[c].name = cr[c].name
        /\ cr'[c].place = cr[c].place
    BY <2>1, <2>3 DEF Cr
  <2> QED BY <2>2, <2>4 DEF Keeps
<1>3. CopyHolds'
  BY <1>1, <1>2, KeepsCopy DEF FInv
<1> QED BY <1>1, <1>2, <1>3, QuietStep

(* The steps of a reconcile, the failures and what happens around them. *)
LEMMA ReconcileImplements ==
  ASSUME Sound, FInv, TypeOK', Reconcile
  PROVE  FInv' /\ [Promise!Next]_(Promise!vars)
<1> USE DEF FInv
<1> USE SoundKind
<1>1. CASE DeleteObject
  <2>1. Keeps /\ objects' \subseteq objects
    BY <1>1 DEF DeleteObject, Keeps
  <2>2. CopyHolds'
    BY <1>1, <2>1, KeepsCopy, LeaveCopy DEF DeleteObject, Marked
  <2> QED BY <2>1, <2>2, QuietStep
<1>2. CASE RejectSpec
  <2>1. Keeps /\ objects' \subseteq objects
    BY <1>2, StatusKeeps DEF RejectSpec
  <2>2. /\ work'.on = work.on /\ work'.pc = "reporting" /\ work.pc # "idle"
        /\ work'.copy = [work.copy EXCEPT !.state = "ConfigError"]
    BY <1>2 DEF RejectSpec, Working, TypeOK, Worker
  <2>3. work.copy \in Cr
    BY DEF TypeOK, Worker
  <2>4. work'.copy.name = work.copy.name /\ work'.copy.place = work.copy.place
    BY <2>2, <2>3 DEF Cr
  <2>5. CopyHolds'
    BY <2>1, <2>2, <2>4, KeepsCopy
  <2> QED BY <2>1, <2>5, QuietStep
<1>3. CASE Create
  <2>1. Keeps
    BY <1>3 DEF Create, Keeps
  <2>2. /\ work'.on = work.on /\ work'.pc = "reporting" /\ work.pc # "idle"
        /\ work'.copy = work.copy
    BY <1>3 DEF Create, Working, TypeOK, Worker
  <2>3. CopyHolds'
    BY <2>1, <2>2, KeepsCopy
  <2> QED BY <1>3, <2>3, MakesObject DEF Create
<1>4. CASE UpdateObject
  <2>1. Keeps
    BY <1>4 DEF UpdateObject, Keeps
  <2>2. CopyHolds'
    BY <1>4, <2>1, KeepsCopy, LeaveCopy DEF UpdateObject, Working
  <2>3. objects' = Updated
    BY <1>4 DEF UpdateObject, NeedsId
  <2> QED BY <1>4, <2>2, <2>3, UpdatesObject DEF UpdateObject
<1>5. CASE NothingToDo
  <2>1. Keeps /\ objects' \subseteq objects
    BY <1>5 DEF NothingToDo, Keeps
  <2>2. /\ work'.on = work.on /\ work'.pc = "reporting" /\ work.pc # "idle"
        /\ work'.copy = work.copy
    BY <1>5 DEF NothingToDo, Working, TypeOK, Worker
  <2>3. CopyHolds'
    BY <2>1, <2>2, KeepsCopy
  <2> QED BY <2>1, <2>3, QuietStep
<1>6. CASE Report
  <2>1. Keeps /\ objects' \subseteq objects
    BY <1>6, StatusKeeps DEF Report
  <2>2. CopyHolds'
    BY <1>6, <2>1, KeepsCopy, LeaveCopy DEF Report
  <2> QED BY <2>1, <2>2, QuietStep
<1>7. CASE RecordId \/ GuardFlag
  BY <1>7 DEF RecordId, GuardFlag
<1> QED
  BY <1>1, <1>2, <1>3, <1>4, <1>5, <1>6, <1>7, ReleaseStep, GuardStep DEF Reconcile

LEMMA FailureImplements ==
  ASSUME Sound, FInv, TypeOK', Failure
  PROVE  FInv' /\ [Promise!Next]_(Promise!vars)
<1> USE DEF FInv
<1> USE SoundKind
<1>1. CASE ClusterFails \/ ReportFails
  <2>1. Keeps /\ objects' \subseteq objects
    BY <1>1, StatusKeeps DEF ClusterFails, ReportFails
  <2>2. CopyHolds'
    BY <1>1, <2>1, KeepsCopy, LeaveCopy DEF ClusterFails, ReportFails
  <2> QED BY <2>1, <2>2, QuietStep
<1>2. CASE DeleteFails
  <2>1. Keeps /\ objects' \subseteq objects
    BY <1>2 DEF DeleteFails, Keeps
  <2>2. CopyHolds'
    BY <1>2, <2>1, KeepsCopy, LeaveCopy DEF DeleteFails, Marked
  <2> QED BY <2>1, <2>2, QuietStep
<1>3. CASE Crash \/ LoseObject
  <2>1. Keeps /\ objects' \subseteq objects
    BY <1>3 DEF Crash, LoseObject, Keeps
  <2>2. work' = work \/ work'.pc = "idle"
    BY <1>3 DEF Crash, LoseObject, Return, TypeOK, Worker
  <2>3. CopyHolds'
    BY <2>1, <2>2, KeepsCopy
  <2> QED BY <2>1, <2>3, QuietStep
<1>4. CASE HumioFails
  <2>1. Keeps
    BY <1>4 DEF HumioFails, Keeps
  <2>2. CopyHolds'
    BY <1>4, <2>1, KeepsCopy, LeaveCopy DEF HumioFails, Working
  <2>3. ids' \in Ids /\ UNCHANGED cr /\ Working
    BY <1>4 DEF HumioFails, TypeOK
  <2>4. \/ objects' = objects
        \/ objects' = objects \cup {New(ids')}
        \/ objects' = Updated
    BY <1>4 DEF HumioFails
  <2> QED BY <2>1, <2>2, <2>3, <2>4, QuietStep, MakesObject, UpdatesObject
<1>5. CASE ReleaseBlindly
  BY <1>5 DEF ReleaseBlindly
<1> QED BY <1>1, <1>2, <1>3, <1>4, <1>5 DEF Failure

LEMMA StepImplements ==
  ASSUME Sound
  PROVE  FInv /\ [Next]_vars => FInv' /\ [Promise!Next]_(Promise!vars)
<1> SUFFICES ASSUME FInv, [Next]_vars PROVE FInv' /\ [Promise!Next]_(Promise!vars)
  OBVIOUS
<1> USE DEF FInv
<1>1. TypeOK'
  BY NextType
<1>2. ASSUME NEW c \in Crs, Begin(c) PROVE FInv' /\ [Promise!Next]_(Promise!vars)
  <2>1. Keeps /\ objects' \subseteq objects
    BY <1>2 DEF Begin, Keeps
  <2>2. CopyHolds'
    BY <1>2 DEF Begin, CopyHolds, Copy, On
  <2> QED BY <1>1, <2>1, <2>2, QuietStep
<1>3. ASSUME User PROVE FInv' /\ [Promise!Next]_(Promise!vars)
  BY <1>1, <1>3, EditStep, DeleteCrStep DEF User, EditPlace, Edit, Sound
<1>4. CASE UNCHANGED vars
  <2>1. Keeps /\ objects' \subseteq objects
    BY <1>4 DEF vars, Keeps
  <2>2. CopyHolds'
    BY <1>4, <2>1, KeepsCopy DEF vars
  <2> QED BY <1>1, <2>1, <2>2, QuietStep
<1> QED
  BY <1>1, <1>2, <1>3, <1>4, ReconcileImplements, FailureImplements DEF Next

LEMMA InitImplements == Init => FInv /\ Promise!Init
<1> SUFFICES ASSUME Init PROVE FInv /\ Promise!Init
  OBVIOUS
<1>1. TypeOK
  BY InitType
<1>2. \A c \in Crs : cr[c].phase = "live" /\ ~cr[c].finalizer
  BY DEF Init
<1>3. objects = {} /\ work.pc = "idle"
  <2>1. PICK c \in Crs : work = [pc |-> "idle", on |-> c, copy |-> cr[c], id |-> NoId]
    BY DEF Init
  <2> QED BY <2>1 DEF Init
<1>4. Stages = [c \in Crs |-> "new"] /\ Owners = {}
  BY <1>2, <1>3 DEF Stages, Stage, Owners
<1>5. OwnersGuarded /\ DeletingGuarded /\ CopyHolds
  BY <1>2, <1>3 DEF OwnersGuarded, DeletingGuarded, CopyHolds
<1> QED BY <1>1, <1>4, <1>5 DEF FInv, Promise!Init

(* The controllers whose lookups do not hide errors, and that find what they made by its
   name, implement the finalizer: for any CRs, names and specs, any number of failed
   calls, crashes and objects that others delete. *)
THEOREM ImplementsFinalizer == ASSUME Sound PROVE Spec => KeepsPromise
BY InitImplements, StepImplements, PTL DEF Spec, KeepsPromise, Promise!Spec

(* So such a CR leaves nothing in Humio when it has gone. *)
THEOREM NothingIsLeft == ASSUME Sound PROVE Spec => []NothingLeftBehind
<1>1. FInv => NothingLeftBehind
  <2> SUFFICES ASSUME FInv, NEW c \in Crs, Stages[c] = "gone", c \in Owners PROVE FALSE
    BY DEF NothingLeftBehind, Promise!NothingLeft
  <2>1. PICK o \in objects : o.owner = c
    BY DEF Owners
  <2>2. cr[c].phase # "gone" /\ cr[c].finalizer
    BY <2>1 DEF FInv, OwnersGuarded
  <2>3. Stages[c] = cr[c].phase \/ Stages[c] \in {"guarded", "new"}
    BY DEF Stages, Stage
  <2> QED BY <2>2, <2>3
<1> QED BY <1>1, InitImplements, StepImplements, PTL DEF Spec
=============================================================================
