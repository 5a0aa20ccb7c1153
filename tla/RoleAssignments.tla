--------------------------- MODULE RoleAssignments ---------------------------
(***************************************************************************)
(* Permission roles: a resource names the permissions of a role and the    *)
(* groups it is given to, for a view role in which view or repository.     *)
(* Humio is told call by call: the role, its permissions, what is taken    *)
(* from groups and what is given to them, all from one list of the roles.  *)
(* One worker handles all the roles of a kind.  A system or organization   *)
(* role is given to a group as a whole: there is one view then.            *)
(***************************************************************************)
EXTENDS Integers

CONSTANTS
  Roles,              \* roles that a resource describes
  OtherRoles,         \* roles of Humio that no resource describes
  Groups, Views,      \* numbers: assignments are sorted by view, then by group
  ViewRoles,          \* are these roles of views?
  Present,            \* groups that are there, unless they are made anew
  SpecsOf(_),         \* what the resource of a role may ask for
  MaxEdits, MaxFaults

Perms == 1..2
Places == Groups \X Views
NoRole == 0

RoleAssumption ==
  /\ Groups \subseteq Nat /\ Views \subseteq Nat /\ Present \subseteq Groups
  /\ Roles \cap OtherRoles = {} /\ ViewRoles \in BOOLEAN
  /\ \A r \in Roles : SpecsOf(r) # {} /\ SpecsOf(r) \subseteq [perms : Perms, places : SUBSET Places]
  /\ MaxEdits \in Nat /\ MaxFaults \in Nat

VARIABLES
  cr, spec,      \* the resources: are they there, and what they ask for
  role,          \* in Humio: the permissions of a role, NoRole if there is none
  groups,        \* groups that are there
  assigned,      \* who is given what: role, group, view
  proc,          \* the worker
  edits, faults

vars == <<cr, spec, role, groups, assigned, proc, edits, faults>>

AnyRole == Roles \cup OtherRoles
Specs == UNION {SpecsOf(r) : r \in Roles}
Steps == {"create", "list", "permissions", "assignments", "unassign", "delete"}
Idle == [pc |-> "idle"]
(* Every variable has its type. *)
TypeOK ==
  /\ cr \in [Roles -> {"there", "deleted", "gone"}]
  /\ \A r \in Roles : spec[r] \in SpecsOf(r)
  /\ role \in [Roles -> Perms \cup {NoRole}]
  /\ groups \subseteq Present
  /\ assigned \subseteq AnyRole \X groups \X Views
  /\ \/ proc = Idle
     \/ proc \in [pc : Steps, role : Roles, spec : Specs, take : SUBSET Places, give : SUBSET Places]
  /\ edits \in 0..MaxEdits /\ faults \in 0..MaxFaults

Init ==
  /\ cr = [r \in Roles |-> "there"]
  /\ spec \in {s \in [Roles -> Specs] : \A r \in Roles : s[r] \in SpecsOf(r)}
  /\ role = [r \in Roles |-> NoRole]
  /\ groups = Present /\ assigned = {}
  /\ proc = Idle
  /\ edits = 0 /\ faults = 0

(***************************************************************************)
(* Humio                                                                   *)
(***************************************************************************)
PlacesOf(r) == {p \in Places : <<r, p[1], p[2]>> \in assigned}

\* A group has one role in a view: another that it is given there replaces it.
Give(r, p) ==
  {a \in assigned : ~(ViewRoles /\ a[2] = p[1] /\ a[3] = p[2])} \cup {<<r, p[1], p[2]>>}

Take(r, p) == assigned \ {<<r, p[1], p[2]>>}

\* Mutant: only the first of a role's groups is looked at.
Seen_First(r) ==
  LET has == {p[1] : p \in PlacesOf(r)}
  IN {p \in PlacesOf(r) : \A g \in has : p[1] <= g}

\* ListRoles: a role comes with its groups, and a group with what it is given in its views,
\* by this role or by another, which is not told apart.
Seen(r) ==
  LET has == {p[1] : p \in PlacesOf(r)}
  IN IF ViewRoles THEN {p \in has \X Views : \E q \in AnyRole : p \in PlacesOf(q)} ELSE PlacesOf(r)

(***************************************************************************)
(* The worker                                                              *)
(***************************************************************************)
Alone == UNCHANGED <<spec, groups, edits, faults>>
Goto(pc, r, s) == [pc |-> pc, role |-> r, spec |-> s, take |-> {}, give |-> {}]

\* permissionRoleAlreadyAsExpected
AlreadyAsExpected(r, s) == role[r] = s.perms /\ Seen(r) = s.places

Reconcile(r) ==
  /\ proc = Idle /\ cr[r] = "there"
  /\ proc' = IF role[r] = NoRole THEN Goto("create", r, spec[r])
             ELSE IF AlreadyAsExpected(r, spec[r]) THEN Idle
             ELSE Goto("list", r, spec[r])
  /\ UNCHANGED <<cr, role, assigned>> /\ Alone

AddRole ==
  /\ proc.pc = "create"
  /\ role' = [role EXCEPT ![proc.role] = proc.spec.perms]
  /\ proc' = Idle
  /\ UNCHANGED <<cr, assigned>> /\ Alone

\* Mutant: everything is taken back before it is given anew.
Difference_Anew(s, seen) == [take |-> seen, give |-> s.places]

Difference(s, seen) == [take |-> seen \ s.places, give |-> s.places \ seen]

\* The role is looked up again, and what is to be done follows from that list alone.
ListRoles ==
  /\ proc.pc = "list"
  /\ LET d == Difference(proc.spec, Seen(proc.role))
     IN proc' = [proc EXCEPT !.take = d.take, !.give = d.give,
                             !.pc = IF role[proc.role] # proc.spec.perms THEN "permissions" ELSE "assignments"]
  /\ UNCHANGED <<cr, role, assigned>> /\ Alone

UpdateRole ==
  /\ proc.pc = "permissions"
  /\ role' = [role EXCEPT ![proc.role] = proc.spec.perms]
  /\ proc' = [proc EXCEPT !.pc = "assignments"]
  /\ UNCHANGED <<cr, assigned>> /\ Alone

\* In the order of the list, which is Humio's.
Unassign ==
  /\ proc.pc \in {"assignments", "unassign"}
  /\ \E p \in proc.take :
       /\ assigned' = Take(proc.role, p)
       /\ proc' = [proc EXCEPT !.take = @ \ {p}]
  /\ UNCHANGED <<cr, role>> /\ Alone

Before(p, q) == p[2] < q[2] \/ (p[2] = q[2] /\ p[1] < q[1])

\* In the order of the resource.  The group is looked up first: without it the update fails.
Assign ==
  /\ proc.pc = "assignments" /\ proc.take = {}
  /\ \E p \in proc.give :
       /\ \A q \in proc.give \ {p} : Before(p, q)
       /\ IF p[1] \in groups
          THEN /\ assigned' = Give(proc.role, p)
               /\ proc' = [proc EXCEPT !.give = @ \ {p}]
          ELSE assigned' = assigned /\ proc' = Idle
  /\ UNCHANGED <<cr, role>> /\ Alone

Done ==
  /\ proc.pc = "assignments" /\ proc.take = {} /\ proc.give = {}
  /\ proc' = Idle
  /\ UNCHANGED <<cr, role, assigned>> /\ Alone

Finalize(r) == [Goto("unassign", r, spec[r]) EXCEPT !.take = Seen(r)]

\* The finalizer goes when the role is not there, and the role when no group has it.
ReconcileDeleted(r) ==
  /\ proc = Idle /\ cr[r] = "deleted"
  /\ IF role[r] = NoRole
     THEN cr' = [cr EXCEPT ![r] = "gone"] /\ UNCHANGED proc
     ELSE proc' = Finalize(r) /\ UNCHANGED cr
  /\ UNCHANGED <<role, assigned>> /\ Alone

Unassigned ==
  /\ proc.pc = "unassign" /\ proc.take = {}
  /\ proc' = [proc EXCEPT !.pc = "delete"]
  /\ UNCHANGED <<cr, role, assigned>> /\ Alone

DeleteRole ==
  /\ proc.pc = "delete"
  /\ role' = [role EXCEPT ![proc.role] = NoRole]
  /\ proc' = Idle
  /\ UNCHANGED <<cr, assigned>> /\ Alone

Work ==
  AddRole \/ ListRoles \/ UpdateRole \/ Unassign \/ Assign \/ Done \/ Unassigned \/ DeleteRole

(***************************************************************************)
(* Failures, and others                                                    *)
(***************************************************************************)
\* A call fails or the operator is restarted: nothing is remembered.
Fault ==
  /\ proc # Idle
  /\ faults < MaxFaults /\ faults' = faults + 1
  /\ proc' = Idle
  /\ UNCHANGED <<cr, spec, role, groups, assigned, edits>>

Edit == edits < MaxEdits /\ edits' = edits + 1 /\ UNCHANGED <<proc, faults>>

EditSpec(r) ==
  /\ cr[r] = "there" /\ Edit
  /\ \E s \in SpecsOf(r) \ {spec[r]} : spec' = [spec EXCEPT ![r] = s]
  /\ UNCHANGED <<cr, role, groups, assigned>>

DeleteResource(r) ==
  /\ cr[r] = "there" /\ Edit
  /\ cr' = [cr EXCEPT ![r] = "deleted"]
  /\ UNCHANGED <<spec, role, groups, assigned>>

\* Somebody gives a group another role.
AssignOther(q) ==
  /\ Edit
  /\ \E p \in groups \X Views : assigned' = Give(q, p)
  /\ UNCHANGED <<cr, spec, role, groups>>

\* A group is deleted, with what it was given, and made anew.
GroupGoes(g) ==
  /\ g \in groups /\ Edit
  /\ groups' = groups \ {g} /\ assigned' = {a \in assigned : a[2] # g}
  /\ UNCHANGED <<cr, spec, role>>

GroupComes(g) ==
  /\ g \in Present \ groups
  /\ groups' = groups \cup {g}
  /\ UNCHANGED <<cr, spec, role, assigned, proc, edits, faults>>

Next ==
  \/ \E r \in Roles : Reconcile(r) \/ ReconcileDeleted(r) \/ EditSpec(r) \/ DeleteResource(r)
  \/ Work \/ Fault
  \/ \E q \in OtherRoles : AssignOther(q)
  \/ \E g \in Groups : GroupGoes(g) \/ GroupComes(g)

\* The queue gives every resource its turn again and again, and Humio answers.
Fairness ==
  /\ WF_vars(Work)
  /\ \A r \in Roles : SF_vars(Reconcile(r)) /\ SF_vars(ReconcileDeleted(r))
  /\ \A g \in Present : WF_vars(GroupComes(g))

Spec == Init /\ [][Next]_vars /\ Fairness

(***************************************************************************)
(* Properties                                                              *)
(***************************************************************************)
(* While a role is updated, no group loses it that had it and keeps it by the resource:
   "Nothing to do, group has the role and should have it". *)
NotInterrupted ==
  \A r \in Roles : \A p \in PlacesOf(r) :
    proc # Idle /\ proc.role = r /\ proc.pc = "assignments" /\ p \in proc.spec.places /\ p[1] \in groups'
    => <<r, p[1], p[2]>> \in assigned'

(* In the end every role has its permissions and is given to the groups its resource names, as
   far as they are there, and to no other; the role of a deleted resource is gone. *)
Settled ==
  \A r \in Roles :
    IF cr[r] = "there"
    THEN role[r] = spec[r].perms /\ PlacesOf(r) = {p \in spec[r].places : p[1] \in Present}
    ELSE cr[r] = "gone" /\ role[r] = NoRole
=============================================================================
