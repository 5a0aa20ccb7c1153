------------------------- MODULE RepositoryRetention -------------------------
(***************************************************************************)
(* A repository is changed attribute by attribute: its description, its    *)
(* limits of time, storage and ingest, and automatic search.  A limit that *)
(* is lowered deletes data: the operator does that, and deletes a          *)
(* repository, only where the resource allows it.  Others change the       *)
(* repository too.  A limit of 0 is none.                                  *)
(***************************************************************************)
EXTENDS Integers, Sequences

CONSTANTS
  Top,                    \* the highest value of an attribute
  Specs,                  \* what the resource may ask for
  MaxEdits, MaxFaults     \* bounds on edits of the resource and of the repository, and on failures

Attributes == {"description", "time", "storage", "ingest", "search"}
Limits == {"time", "storage", "ingest"}
Values == 0..Top
Order == <<"description", "time", "storage", "ingest", "search">>

RetentionAssumption ==
  /\ Top \in Nat /\ MaxEdits \in Nat /\ MaxFaults \in Nat
  /\ Specs # {} /\ Specs \subseteq [want : [Attributes -> Values], allow : BOOLEAN]

VARIABLES
  cr,        \* the resource: "there", "deleted" or "gone"
  spec,      \* what it asks for
  exists,    \* is the repository there?
  repo,      \* its attributes
  data,      \* how far the data in it reaches, as each limit measures it
  proc,      \* the worker: the resource and the repository as it read them, and the next attribute
  edits, faults

vars == <<cr, spec, exists, repo, data, proc, edits, faults>>

Idle == [pc |-> "idle"]
Nothing == [l \in Limits |-> 0]
(* Every variable has its type. *)
TypeOK ==
  /\ cr \in {"there", "deleted", "gone"} /\ spec \in Specs
  /\ exists \in BOOLEAN /\ repo \in [Attributes -> Values]
  /\ data \in [Limits -> Values]
  /\ \/ proc = Idle
     \/ proc \in [pc : {"create", "read", "update", "delete"}, spec : Specs,
                  seen : [Attributes -> Values], next : 1..Len(Order)]
  /\ edits \in 0..MaxEdits /\ faults \in 0..MaxFaults

New == [a \in Attributes |-> 0]

Init ==
  /\ cr = "there" /\ spec \in Specs
  /\ \/ exists = FALSE /\ repo = New /\ data = Nothing
     \/ exists = TRUE /\ repo \in {New, [a \in Attributes |-> Top]} /\ data = [l \in Limits |-> Top]
  /\ proc = Idle /\ edits = 0 /\ faults = 0

(***************************************************************************)
(* Humio                                                                   *)
(***************************************************************************)
\* What is left of the data under new limits.
Cut(d, r) == [l \in Limits |-> IF r[l] > 0 /\ r[l] < d[l] THEN r[l] ELSE d[l]]

Become(r) == repo' = r /\ data' = Cut(data, r) /\ exists' = TRUE

(***************************************************************************)
(* The operator                                                            *)
(***************************************************************************)
Alone == UNCHANGED <<spec, edits, faults>>
Goto(pc) == [pc |-> pc, spec |-> spec, seen |-> repo, next |-> 1]

\* The repository is read, and if it differs it is read again and updated.
Reconcile ==
  /\ proc = Idle /\ cr = "there"
  /\ proc' = IF ~exists THEN Goto("create")
             ELSE IF repo = spec.want THEN Idle
             ELSE Goto("read")
  /\ UNCHANGED <<cr, exists, repo, data>> /\ Alone

\* A new repository gets its limits; the rest comes with the next update.
AddRepository ==
  /\ proc.pc = "create"
  /\ IF exists THEN UNCHANGED <<exists, repo, data>>
     ELSE Become([a \in Attributes |-> IF a \in Limits THEN proc.spec.want[a] ELSE 0])
  /\ proc' = Idle
  /\ UNCHANGED cr /\ Alone

GetRepository ==
  /\ proc.pc = "read"
  /\ proc' = IF exists THEN [proc EXCEPT !.pc = "update", !.seen = repo] ELSE Idle
  /\ UNCHANGED <<cr, exists, repo, data>> /\ Alone

\* Mutant: a repository without a limit may be given any.
Refused_Finite(p, a) ==
  /\ a \in Limits /\ ~p.spec.allow
  /\ p.spec.want[a] > 0 /\ p.seen[a] > 0 /\ p.spec.want[a] < p.seen[a]

\* "repository may contain data and data deletion not enabled"
Refused(p, a) ==
  /\ a \in Limits /\ ~p.spec.allow
  /\ p.spec.want[a] > 0
  /\ p.seen[a] = 0 \/ p.spec.want[a] < p.seen[a]

Advance(p) == IF p.next < Len(Order) THEN [p EXCEPT !.next = @ + 1] ELSE Idle

\* UpdateRepository: one attribute after another, and none after one that is refused.
UpdateAttribute ==
  /\ proc.pc = "update"
  /\ LET a == Order[proc.next]
         differs == proc.seen[a] # proc.spec.want[a]
     IN /\ IF differs /\ ~Refused(proc, a) /\ exists
           THEN Become([repo EXCEPT ![a] = proc.spec.want[a]])
           ELSE UNCHANGED <<exists, repo, data>>
        /\ proc' = IF differs /\ (Refused(proc, a) \/ ~exists) THEN Idle ELSE Advance(proc)
  /\ UNCHANGED cr /\ Alone

\* The finalizer goes once the repository is not there, by whomever it was deleted.
ReconcileDeleted ==
  /\ proc = Idle /\ cr = "deleted"
  /\ IF ~exists THEN cr' = "gone" /\ UNCHANGED proc
     ELSE proc' = Goto("delete") /\ UNCHANGED cr
  /\ UNCHANGED <<exists, repo, data>> /\ Alone

MayDelete(s) == s.allow

DeleteRepository ==
  /\ proc.pc = "delete"
  /\ IF MayDelete(proc.spec)
     THEN exists' = FALSE /\ repo' = New /\ data' = Nothing
     ELSE UNCHANGED <<exists, repo, data>>
  /\ proc' = Idle
  /\ UNCHANGED cr /\ Alone

Work == AddRepository \/ GetRepository \/ UpdateAttribute \/ DeleteRepository
Operator == Reconcile \/ ReconcileDeleted \/ Work

(***************************************************************************)
(* Failures, and others                                                    *)
(***************************************************************************)
\* A call fails, or the operator is restarted.
Fault ==
  /\ proc # Idle
  /\ faults < MaxFaults /\ faults' = faults + 1
  /\ proc' = Idle
  /\ UNCHANGED <<cr, spec, exists, repo, data, edits>>

Edit == edits < MaxEdits /\ edits' = edits + 1 /\ UNCHANGED <<proc, faults>>

EditSpec ==
  /\ cr # "gone" /\ Edit
  /\ spec' \in Specs \ {spec}
  /\ UNCHANGED <<cr, exists, repo, data>>

DeleteResource ==
  /\ cr = "there" /\ Edit
  /\ cr' = "deleted"
  /\ UNCHANGED <<spec, exists, repo, data>>

\* Somebody changes an attribute of the repository.
EditRepository ==
  /\ exists /\ Edit
  /\ \E a \in Attributes, v \in Values : Become([repo EXCEPT ![a] = v])
  /\ UNCHANGED <<cr, spec>>

\* Data comes in, as far as the limits let it: not in the instants of one update.
Ingest ==
  /\ exists /\ proc = Idle
  /\ data' = Cut([l \in Limits |-> Top], repo)
  /\ UNCHANGED <<cr, spec, exists, repo, proc, edits, faults>>

Next == Operator \/ Fault \/ EditSpec \/ DeleteResource \/ EditRepository \/ Ingest

Fairness == WF_vars(Operator)

Spec == Init /\ [][Next]_vars /\ Fairness

(***************************************************************************)
(* Properties                                                              *)
(***************************************************************************)
(* The operator deletes data only if the resource it read allows that, also when somebody
   changes limits between its reading and its writing: "This must be set to true before the
   operator will apply retention settings that will (or might) cause data to be deleted". *)
NothingLost ==
  Operator => \/ \A l \in Limits : data'[l] >= data[l]
              \/ proc.spec.allow

(* A resource that allows the deletion of data gets in the end what it asks for, and if it is
   deleted its repository is. *)
Settled ==
  spec.allow => IF cr = "there" THEN exists /\ repo = spec.want ELSE cr = "gone"
=============================================================================
