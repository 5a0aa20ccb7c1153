-------------------------- MODULE SearchConnections --------------------------
(***************************************************************************)
(* A multi cluster search view searches in other clusters through its      *)
(* connections, which are known by the identity of the cluster: one to a   *)
(* view of the same cluster, and remote ones with a token from a secret.   *)
(* Humio does not show a token, so a connection carries a tag with a hash  *)
(* of it.  All is changed call by call.                                    *)
(***************************************************************************)
EXTENDS Integers, FiniteSets

CONSTANTS
  Ids,                    \* cluster identities
  KindsOf,                \* the kinds a connection may be of
  Tags,                   \* the tags a resource may ask for: 0 for none
  KeyOf,                  \* the key in its secret that a remote connection names
  Secrets,                \* which tokens may be in a secret under a key: 0 for no such key
  MaxEdits, MaxFaults

Keys == {"token", "other"}
Targets == 1..2
Local == "Local"
Remote == "Remote"
None == [kind |-> "none"]
Wish(i) == [kind : KindsOf[i], target : Targets, tag : Tags] \cup {None}
Tokens == (UNION {{s[k] : k \in Keys} : s \in Secrets}) \cup {0}
\* Target 0 is the name or address of a connection that has none.
Connection == [kind : {Local, Remote}, target : Targets \cup {0}, tag : Tags, token : Tokens]
Wishes ==
  {w \in [Ids -> UNION {Wish(i) : i \in Ids}] :
     /\ \A i \in Ids : w[i] \in Wish(i)
     /\ Cardinality({i \in Ids : w[i].kind = Local}) <= 1}

ConnectionAssumption ==
  /\ KindsOf \in [Ids -> SUBSET {Local, Remote}] /\ KeyOf \in [Ids -> Keys]
  /\ 0 \in Tags
  /\ \A s \in Secrets : s \in [Keys -> Nat]
  /\ MaxEdits \in Nat /\ MaxFaults \in Nat

VARIABLES
  spec,       \* the connections that the resource asks for, and whether to search at once
  deleted,    \* is the resource deleted?
  secrets,    \* the secrets that it names
  exists,     \* is the view there?
  view,       \* its connections, and whether it searches at once
  proc,       \* the worker
  edits, faults

vars == <<spec, deleted, secrets, exists, view, proc, edits, faults>>

Idle == [pc |-> "idle"]
Held == [conns : Wishes, search : BOOLEAN]
View == [conns : [Ids -> Connection \cup {None}], search : BOOLEAN]
Steps == {"create", "new", "read", "search", "add", "remove", "update"}
(* Every variable has its type. *)
TypeOK ==
  /\ spec \in Held /\ deleted \in BOOLEAN
  /\ secrets \in [Ids -> Secrets]
  /\ exists \in BOOLEAN /\ view \in View
  /\ \/ proc = Idle
     \/ proc \in [pc : Steps, spec : Held, tokens : [Ids -> Tokens], seen : View, done : SUBSET Ids]
  /\ edits \in 0..MaxEdits /\ faults \in 0..MaxFaults

There(w) == {i \in Ids : w[i] # None}
NoView == [conns |-> [i \in Ids |-> None], search |-> FALSE]

Init ==
  /\ spec \in {h \in Held : h.search} /\ deleted = FALSE
  /\ secrets \in [Ids -> Secrets]
  /\ exists = FALSE /\ view = NoView
  /\ proc = Idle /\ edits = 0 /\ faults = 0

(***************************************************************************)
(* What is asked for                                                       *)
(***************************************************************************)
\* A connection as Humio is told of it: with the token, and the tag with its hash.
Expected(w, t) ==
  [kind |-> w.kind, target |-> w.target, tag |-> w.tag, token |-> IF w.kind = Remote THEN t ELSE 0]

\* The comparison leaves the tags of the resource out of what it expects.
Compared(w, t) == [Expected(w, t) EXCEPT !.tag = 0]

AlreadyAsExpected(h, t) ==
  /\ view.search = h.search
  /\ view.conns = [i \in Ids |-> IF h.conns[i] = None THEN None ELSE Compared(h.conns[i], t[i])]

\* getConnectionDetailsIncludingAPIToken: the key is "token", whichever the resource names.
TokensOf(h) == [i \in Ids |-> IF h.conns[i].kind = Remote THEN secrets[i]["token"] ELSE 0]

TokensThere(h) == \A i \in Ids : h.conns[i].kind = Remote => secrets[i]["token"] > 0

(***************************************************************************)
(* The worker                                                              *)
(***************************************************************************)
Alone == UNCHANGED <<spec, secrets, edits, faults>>
Goto(pc) == [pc |-> pc, spec |-> spec, tokens |-> TokensOf(spec), seen |-> NoView, done |-> {}]
To(pc) == [proc EXCEPT !.pc = pc, !.done = {}]
Want(i) == Expected(proc.spec.conns[i], proc.tokens[i])

Reconcile ==
  /\ proc = Idle /\ ~deleted
  /\ TokensThere(spec)
  /\ proc' = IF ~exists THEN Goto("create")
             ELSE IF AlreadyAsExpected(spec, TokensOf(spec)) THEN Idle
             ELSE Goto("read")
  /\ UNCHANGED <<deleted, exists, view>> /\ Alone

\* AddMultiClusterSearchView: an empty view, automatic search, and the connections.
CreateView ==
  /\ proc.pc = "create"
  /\ exists' = TRUE /\ proc' = To("new")
  /\ UNCHANGED <<deleted, view>> /\ Alone

\* UpdateMultiClusterSearchView: the view is read again, and what is done follows from that.
ReadView ==
  /\ proc.pc = "read"
  /\ proc' = [To("search") EXCEPT !.seen = view]
  /\ UNCHANGED <<deleted, exists, view>> /\ Alone

SetAutomaticSearching ==
  /\ proc.pc \in {"new", "search"}
  /\ view' = [view EXCEPT !.search = proc.spec.search]
  /\ proc' = To("add")
  /\ UNCHANGED <<deleted, exists>> /\ Alone

Missing == There(proc.spec.conns) \ There(proc.seen.conns)

CreateConnection ==
  /\ proc.pc = "add"
  /\ \E i \in Missing \ proc.done :
       /\ view' = [view EXCEPT !.conns[i] = Want(i)]
       /\ proc' = [proc EXCEPT !.done = @ \cup {i}]
  /\ UNCHANGED <<deleted, exists>> /\ Alone

AfterAdd == To("remove")

AllAdded ==
  /\ proc.pc = "add" /\ Missing \subseteq proc.done
  /\ proc' = AfterAdd
  /\ UNCHANGED <<deleted, exists, view>> /\ Alone

\* Mutant: all connections go that are not as the resource asks for.
Unexpected_Differs ==
  {i \in There(proc.seen.conns) : proc.spec.conns[i] = None \/ proc.seen.conns[i] # Want(i)}

Unexpected == There(proc.seen.conns) \ There(proc.spec.conns)

DeleteConnection ==
  /\ proc.pc = "remove"
  /\ \E i \in Unexpected \ proc.done :
       /\ view' = [view EXCEPT !.conns[i] = None]
       /\ proc' = [proc EXCEPT !.done = @ \cup {i}]
  /\ UNCHANGED <<deleted, exists>> /\ Alone

AllRemoved ==
  /\ proc.pc = "remove" /\ Unexpected \subseteq proc.done
  /\ proc' = To("update")
  /\ UNCHANGED <<deleted, exists, view>> /\ Alone

\* connectionNeedsUpdate compares the tags with those of the resource, which may not use the key
\* of the identity: they always differ.
Kept == There(proc.seen.conns) \cap There(proc.spec.conns)

\* A connection is written as what it is in Humio, with what the resource has for that kind.
Written(i) ==
  [Want(i) EXCEPT !.kind = view.conns[i].kind,
                  !.target = IF view.conns[i].kind = Want(i).kind THEN @ ELSE 0,
                  !.token = IF view.conns[i].kind = Want(i).kind THEN @ ELSE 0]

UpdateConnection ==
  /\ proc.pc = "update"
  /\ \E i \in Kept \ proc.done :
       /\ view' = [view EXCEPT !.conns[i] = Written(i)]
       /\ proc' = [proc EXCEPT !.done = @ \cup {i}]
  /\ UNCHANGED <<deleted, exists>> /\ Alone

AllUpdated ==
  /\ proc.pc = "update" /\ Kept \subseteq proc.done
  /\ proc' = Idle
  /\ UNCHANGED <<deleted, exists, view>> /\ Alone

\* The view goes, and with the next reconcile the finalizer.
DeleteView ==
  /\ proc = Idle /\ deleted /\ exists
  /\ exists' = FALSE /\ view' = NoView
  /\ UNCHANGED <<deleted, proc>> /\ Alone

Work ==
  \/ CreateView \/ ReadView \/ SetAutomaticSearching \/ CreateConnection \/ AllAdded
  \/ DeleteConnection \/ AllRemoved \/ UpdateConnection \/ AllUpdated \/ DeleteView

(***************************************************************************)
(* Failures, and others                                                    *)
(***************************************************************************)
\* A call fails, or the operator is restarted.
Fault ==
  /\ proc # Idle
  /\ faults < MaxFaults /\ faults' = faults + 1
  /\ proc' = Idle
  /\ UNCHANGED <<spec, deleted, secrets, exists, view, edits>>

Edit == edits < MaxEdits /\ edits' = edits + 1 /\ UNCHANGED <<exists, proc, faults>>

\* The kind of a connection may not be changed; one that is taken out may come again as another.
EditSpec ==
  /\ ~deleted /\ Edit
  /\ \E i \in Ids : \E w \in Wish(i) \ {spec.conns[i]} :
       /\ spec.conns[i] # None /\ w # None => w.kind = spec.conns[i].kind
       /\ [spec.conns EXCEPT ![i] = w] \in Wishes
       /\ spec' = [spec EXCEPT !.conns[i] = w]
  /\ UNCHANGED <<deleted, secrets, view>>

EditSecret ==
  /\ Edit
  /\ \E i \in Ids, s \in Secrets : secrets' = [secrets EXCEPT ![i] = s]
  /\ UNCHANGED <<spec, deleted, view>>

DeleteResource ==
  /\ ~deleted /\ Edit /\ deleted' = TRUE
  /\ UNCHANGED <<spec, secrets, view>>

\* Somebody takes a connection away: not in the instants of an update.
EditView ==
  /\ proc = Idle /\ Edit
  /\ \E i \in There(view.conns) : view' = [view EXCEPT !.conns[i] = None]
  /\ UNCHANGED <<spec, deleted, secrets>>

Next == Reconcile \/ Work \/ Fault \/ EditSpec \/ EditSecret \/ DeleteResource \/ EditView

Fairness == WF_vars(Reconcile \/ Work)

Spec == Init /\ [][Next]_vars /\ Fairness

(***************************************************************************)
(* Properties                                                              *)
(***************************************************************************)
(* A connection is taken away by the operator only when all others that the resource asked for
   are there, so a search that moves to another cluster is never without both; and one that is
   kept is never taken away to be changed. *)
AddedFirst ==
  proc # Idle => \A i \in There(view.conns) :
    view'.conns[i] = None => /\ proc.spec.conns[i] = None
                             /\ There(proc.spec.conns) \subseteq There(view.conns)

(* In the end the view has the connections that the resource asks for, with the tokens that are
   now under the keys that it names; a deleted resource's view is gone. *)
Settled ==
  IF deleted THEN ~exists
  ELSE \/ \E i \in Ids : spec.conns[i].kind = Remote /\ secrets[i][KeyOf[i]] = 0
       \/ /\ exists /\ view.search = spec.search
          /\ \A i \in Ids : view.conns[i] = IF spec.conns[i] = None THEN None
                                            ELSE Expected(spec.conns[i], secrets[i][KeyOf[i]])

(* The operator stops writing once all is as the resource asks for: the comparison "returns a
   boolean indicating if the details from GraphQL already matches what is in the desired state". *)
AtRest == proc = Idle
=============================================================================
