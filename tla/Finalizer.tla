----------------------------- MODULE Finalizer -----------------------------
(***************************************************************************)
(* What a finalizer promises: a custom resource (CR) for which something   *)
(* was made outside of Kubernetes goes only when that is gone again.  The  *)
(* controllers implement it with calls that fail, objects that others      *)
(* remove, and a process that may die after any call.                      *)
(***************************************************************************)
CONSTANT Crs  \* the custom resources

VARIABLES
  stage,  \* per CR: "new" without a finalizer, "guarded" with it, "deleting", "gone"
  made    \* the CRs for which there is an object

vars == <<stage, made>>

TypeOK ==
  /\ stage \in [Crs -> {"new", "guarded", "deleting", "gone"}]
  /\ made \subseteq Crs

Init ==
  /\ stage = [c \in Crs |-> "new"]
  /\ made = {}

Guard(c) ==
  /\ stage[c] = "new"
  /\ stage' = [stage EXCEPT ![c] = "guarded"]
  /\ UNCHANGED made

\* A handler that has not seen the deletion yet may still make the object.
Make(c) ==
  /\ stage[c] \in {"guarded", "deleting"}
  /\ made' = made \cup {c}
  /\ UNCHANGED stage

\* By the controller, or by somebody else.
Unmake(S) ==
  /\ made' = made \ S
  /\ UNCHANGED stage

Mark(c) ==
  /\ stage[c] \in {"new", "guarded"}
  /\ stage' = [stage EXCEPT ![c] = IF @ = "new" THEN "gone" ELSE "deleting"]
  /\ UNCHANGED made

Release(c) ==
  /\ stage[c] = "deleting"
  /\ c \notin made
  /\ stage' = [stage EXCEPT ![c] = "gone"]
  /\ UNCHANGED made

Next ==
  \/ \E c \in Crs : Guard(c) \/ Make(c) \/ Mark(c) \/ Release(c)
  \/ \E S \in SUBSET made : Unmake(S)

Spec == Init /\ [][Next]_vars

(* Nothing is left behind by a CR that is gone: the reason why the controllers add
   HumioFinalizer to a CR before they make anything for it. *)
NothingLeft == \A c \in Crs : stage[c] = "gone" => c \notin made
=============================================================================
