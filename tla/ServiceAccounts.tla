--------------------------- MODULE ServiceAccounts ---------------------------
(***************************************************************************)
(* The service account of a node pool.  A pod gets what the annotations of *)
(* its account say when it is made, so new annotations are followed by a   *)
(* new pod revision, and pods of another revision are replaced one by one. *)
(* The account and the status with the revision are two objects.  (How a   *)
(* rollout goes is NodePoolRollout's matter: here it only comes to an end.) *)
(***************************************************************************)
EXTENDS Integers, FiniteSets

CONSTANTS
  Pods,            \* the names of the pool's pods
  Managed,         \* does the operator keep the account, or has the user named one?
  AccountGoes,     \* may others delete it?
  MaxEdits, MaxFaults, MaxHurts

PodsAssumption == IsFiniteSet(Pods) /\ Managed \in BOOLEAN /\ MaxEdits \in Nat

VARIABLES
  annotations,     \* of the spec, as a number
  account,         \* those of the service account, or None
  revision,        \* the pod revision in the status
  pods,            \* with which annotations, and of which revision, each was made
  proc, edits, faults, hurts

vars == <<annotations, account, revision, pods, proc, edits, faults, hurts>>

None == 0
NoPod == [annotations |-> None, revision |-> 0]
Idle == [pc |-> "idle"]
Numbers == 1..(MaxEdits + 1)

TypeOK ==
  /\ annotations \in Numbers /\ account \in {None} \cup Numbers
  /\ revision \in Nat \ {0}
  /\ pods \in [Pods -> [annotations : Numbers, revision : 1..revision] \cup {NoPod}]

Init ==
  /\ annotations = 1 /\ account = IF Managed THEN None ELSE 1
  /\ revision = 1 /\ pods = [p \in Pods |-> NoPod]
  /\ proc = Idle /\ edits = 0 /\ faults = 0 /\ hurts = 0

(***************************************************************************)
(* A reconcile                                                             *)
(***************************************************************************)
Alone == UNCHANGED <<annotations, edits, faults, hurts>>
Goto(pc) == proc' = [proc EXCEPT !.pc = pc]

StartReconcile ==
  /\ proc = Idle
  /\ proc' = [pc |-> "mismatched", annotations |-> annotations, revision |-> revision]
  /\ UNCHANGED <<account, revision, pods>> /\ Alone

\* A pod of another revision goes, and is made anew below.
DeleteMismatchedPod ==
  /\ proc.pc = "mismatched"
  /\ LET M == {p \in Pods : pods[p] # NoPod /\ pods[p].revision # proc.revision}
     IN \/ M = {} /\ UNCHANGED pods
        \/ \E p \in M : pods' = [pods EXCEPT ![p] = NoPod]
  /\ Goto("account")
  /\ UNCHANGED <<account, revision>> /\ Alone

\* A missing account is made, with the annotations it is to have.
EnsureServiceAccountExists ==
  /\ proc.pc = "account"
  /\ account' = IF Managed /\ account = None THEN proc.annotations ELSE account
  /\ Goto("annotate")
  /\ UNCHANGED <<revision, pods>> /\ Alone

\* An account with other annotations gets those of the spec.
EnsureServiceAccountAnnotations ==
  /\ proc.pc = "annotate"
  /\ IF Managed /\ account \notin {None, proc.annotations}
     THEN account' = proc.annotations /\ Goto("raise")
     ELSE Goto("pods") /\ UNCHANGED account
  /\ UNCHANGED <<revision, pods>> /\ Alone

\* The revision is raised from what the status was, and the reconcile starts over.
RaiseRevision ==
  /\ proc.pc = "raise"
  /\ revision' = proc.revision + 1
  /\ proc' = Idle
  /\ UNCHANGED <<account, pods>> /\ Alone

\* A new pod is of the revision there was, and made with the account as it is.
EnsurePodsExist ==
  /\ proc.pc = "pods"
  /\ \/ \E p \in Pods : pods[p] = NoPod /\ account # None /\ pods' = [pods EXCEPT ![p] = [annotations |-> account, revision |-> proc.revision]]
     \/ (account = None \/ \A p \in Pods : pods[p] # NoPod) /\ UNCHANGED pods
  /\ proc' = Idle
  /\ UNCHANGED <<account, revision>> /\ Alone

Work ==
  \/ DeleteMismatchedPod \/ EnsureServiceAccountExists \/ EnsureServiceAccountAnnotations
  \/ RaiseRevision \/ EnsurePodsExist

(***************************************************************************)
(* Failures and others                                                     *)
(***************************************************************************)
\* A call fails, or the operator is restarted.
Fault ==
  /\ proc # Idle
  /\ faults < MaxFaults /\ faults' = faults + 1
  /\ proc' = Idle
  /\ UNCHANGED <<annotations, account, revision, pods, edits, hurts>>

EditAnnotations ==
  /\ edits < MaxEdits /\ edits' = edits + 1
  /\ annotations' = annotations + 1
  /\ UNCHANGED <<account, revision, pods, proc, faults, hurts>>

Hurt == hurts < MaxHurts /\ hurts' = hurts + 1 /\ UNCHANGED <<annotations, revision, proc, edits, faults>>
LosePod(p) == Hurt /\ pods[p] # NoPod /\ pods' = [pods EXCEPT ![p] = NoPod] /\ UNCHANGED account
LoseAccount == Hurt /\ AccountGoes /\ account # None /\ account' = None /\ UNCHANGED pods

Next ==
  \/ StartReconcile \/ Work \/ Fault \/ EditAnnotations \/ LoseAccount
  \/ \E p \in Pods : LosePod(p)

\* The queue goes on.
Spec == Init /\ [][Next]_vars /\ WF_vars(StartReconcile) /\ WF_vars(Work)

(***************************************************************************)
(* Properties                                                              *)
(***************************************************************************)
(* A restart comes to an end: all pods are there in the end, of the revision in the status, wherever a
   reconcile was cut short, and also when the account was deleted. *)
Restarted == \A p \in Pods : pods[p].revision = revision

(* New annotations reach all pods of an account the operator keeps: in the end each was made with
   those of the spec, although the account and the revision are written one after the other,
   annotations are edited in between, and a pod may be replaced at any time. *)
AnnotationsReached ==
  \A p \in Pods : pods[p] # NoPod /\ (Managed => pods[p].annotations = annotations)
=============================================================================
