----------------------------- MODULE AdminToken -----------------------------
(***************************************************************************)
(* The license of a cluster, and the API token of its user "admin" that    *)
(* all controllers work with: the HumioCluster controller installs the one *)
(* and keeps the other in a secret, asking Humio for a new one when the    *)
(* one in the secret does not work.  Tokens are numbered as they are made; *)
(* the last one works, and no token does when it was revoked.              *)
(***************************************************************************)
EXTENDS Integers

CONSTANTS
  Licenses,             \* licenses that can be read
  CacheLag,             \* may a secret be read as it was before the last change?
  Outages,              \* may Humio be away for a while?
  MaxTokens, MaxEdits, MaxFaults

None == "none"
Unreadable == "unreadable"
Wanted == Licenses \cup {Unreadable}
Tokens == 0..MaxTokens      \* 0: no token, or no secret

AdminTokenAssumption ==
  /\ {None, Unreadable} \cap Licenses = {}
  /\ CacheLag \in BOOLEAN /\ Outages \in BOOLEAN
  /\ MaxTokens \in Nat /\ MaxEdits \in Nat /\ MaxFaults \in Nat

VARIABLES
  wanted,       \* the license in the secret that the resource names
  license,      \* the license that is installed
  shown,        \* the license told by the status
  state,        \* status.state
  user,         \* is there a user "admin"?
  works,        \* the token that works
  made,         \* tokens made
  secret, seen, \* the token in the secret, and in the cache
  away,         \* is Humio away?
  op,           \* the reconcile: where it is, and the licenses and the token it has
  edits, faults

vars == <<wanted, license, shown, state, user, works, made, secret, seen, away, op, edits, faults>>

Idle == [pc |-> "idle", desired |-> None, installed |-> None, token |-> 0]
(* Every variable has its type. *)
TypeOK ==
  /\ wanted \in Wanted /\ license \in Licenses \cup {None} /\ shown \in Licenses \cup {None}
  /\ state \in {"Running", "ConfigError"} /\ user \in BOOLEAN
  /\ made \in Tokens /\ works \in 0..made /\ secret \in 0..made /\ seen \in 0..made
  /\ away \in BOOLEAN
  /\ op \in [pc : {"idle", "read", "user", "validate", "rotate", "write", "compare", "show"},
             desired : Licenses \cup {None}, installed : Licenses \cup {None}, token : 0..made]
  /\ edits \in 0..MaxEdits /\ faults \in 0..MaxFaults

Init ==
  /\ wanted \in Wanted /\ license = None /\ shown = None /\ state = "Running"
  /\ user = FALSE /\ works = 0 /\ made = 0 /\ secret = 0 /\ seen = 0
  /\ away = FALSE /\ op = Idle /\ edits = 0 /\ faults = 0

(***************************************************************************)
(* The reconcile                                                           *)
(***************************************************************************)
At(pc) == op.pc = pc
Goto(pc) == op' = [op EXCEPT !.pc = pc]
Alone == UNCHANGED <<wanted, away, edits, faults>>

\* An error ends the reconcile; what was read of the license is shown then too.
Return == IF op.installed = None THEN op' = Idle ELSE Goto("show")

\* A license that cannot be read ends it early, and one that can takes the error away again.
EnsureLicenseIsValid ==
  /\ At("idle")
  /\ IF wanted = Unreadable THEN state' = "ConfigError" /\ UNCHANGED op
     ELSE state' = "Running" /\ op' = [Idle EXCEPT !.pc = "read", !.desired = wanted]
  /\ UNCHANGED <<license, shown, user, works, made, secret, seen>> /\ Alone

\* The first license needs no token.
GetLicense ==
  /\ At("read")
  /\ IF away THEN op' = Idle /\ UNCHANGED license
     ELSE IF license = None THEN license' = op.desired /\ op' = Idle
     ELSE op' = [op EXCEPT !.pc = "user", !.installed = license] /\ UNCHANGED license
  /\ UNCHANGED <<shown, state, user, works, made, secret, seen>> /\ Alone

\* With the bootstrap token.
CreateAndGetUser ==
  /\ At("user")
  /\ IF away THEN Return /\ UNCHANGED user ELSE Goto("validate") /\ user' = TRUE
  /\ UNCHANGED <<license, shown, state, works, made, secret, seen>> /\ Alone

\* Mutant: a secret that was read is not tried.
Valid_Untried == FALSE

\* The token of the secret is tried by asking for the cluster.
Valid == seen # 0 /\ seen = works /\ ~away

ValidateAdminSecretContent ==
  /\ At("validate")
  /\ Goto(IF Valid THEN "compare" ELSE "rotate")
  /\ UNCHANGED <<license, shown, state, user, works, made, secret, seen>> /\ Alone

RotateUserApiToken ==
  /\ At("rotate") /\ made < MaxTokens
  /\ IF away \/ ~user THEN Return /\ UNCHANGED <<works, made>>
     ELSE /\ made' = made + 1 /\ works' = made + 1
          /\ op' = [op EXCEPT !.pc = "write", !.token = made + 1]
  /\ UNCHANGED <<license, shown, state, user, secret, seen>> /\ Alone

\* A write shows at once, or later.
Seen(t) ==
  \/ seen' = t /\ UNCHANGED faults
  \/ CacheLag /\ faults < MaxFaults /\ faults' = faults + 1 /\ UNCHANGED seen

Content == op.token

EnsureAdminSecretContent ==
  /\ At("write")
  /\ secret' = Content
  /\ Seen(Content)
  /\ Goto("compare")
  /\ UNCHANGED <<license, shown, state, user, works, made, wanted, away, edits>>

\* Another license is installed with the token, read again from the secret.
UpdateLicense ==
  /\ At("compare")
  /\ license' = IF op.installed # op.desired /\ ~away /\ seen # 0 /\ seen = works
                THEN op.desired ELSE license
  /\ Return
  /\ UNCHANGED <<shown, state, user, works, made, secret, seen>> /\ Alone

\* The license that was read is shown, not the one that was installed since.
ShowLicense ==
  /\ At("show")
  /\ shown' = op.installed
  /\ op' = Idle
  /\ UNCHANGED <<license, state, user, works, made, secret, seen>> /\ Alone

Reconcile ==
  \/ EnsureLicenseIsValid \/ GetLicense \/ CreateAndGetUser \/ ValidateAdminSecretContent
  \/ RotateUserApiToken \/ EnsureAdminSecretContent \/ UpdateLicense \/ ShowLicense

(***************************************************************************)
(* Failures, and others                                                    *)
(***************************************************************************)
CacheCatchesUp ==
  /\ seen # secret /\ seen' = secret
  /\ UNCHANGED <<wanted, license, shown, state, user, works, made, secret, away, op, edits, faults>>

GoAway ==
  /\ Outages /\ ~away /\ faults < MaxFaults /\ faults' = faults + 1
  /\ away' = TRUE
  /\ UNCHANGED <<wanted, license, shown, state, user, works, made, secret, seen, op, edits>>

ComeBack ==
  /\ away /\ away' = FALSE
  /\ UNCHANGED <<wanted, license, shown, state, user, works, made, secret, seen, op, edits, faults>>

\* The operator is restarted, or a call to the API server fails.
Restart ==
  /\ op # Idle /\ faults < MaxFaults /\ faults' = faults + 1
  /\ op' = Idle
  /\ UNCHANGED <<wanted, license, shown, state, user, works, made, secret, seen, away, edits>>

Edit == edits < MaxEdits /\ edits' = edits + 1 /\ UNCHANGED <<shown, state, made, away, op, faults>>

EditLicense ==
  /\ Edit
  /\ \E l \in Wanted \ {wanted} : wanted' = l
  /\ UNCHANGED <<license, user, works, secret, seen>>

RevokeToken ==
  /\ Edit /\ works # 0 /\ works' = 0
  /\ UNCHANGED <<wanted, license, user, secret, seen>>

DeleteUser ==
  /\ Edit /\ user /\ user' = FALSE /\ works' = 0
  /\ UNCHANGED <<wanted, license, secret, seen>>

DeleteSecret ==
  /\ Edit /\ secret # 0 /\ secret' = 0 /\ seen' = 0
  /\ UNCHANGED <<wanted, license, user, works>>

Others ==
  \/ CacheCatchesUp \/ GoAway \/ ComeBack \/ Restart
  \/ EditLicense \/ RevokeToken \/ DeleteUser \/ DeleteSecret

Next == Reconcile \/ Others

\* The reconcile goes on, the cache catches up and Humio comes back.
Fairness == WF_vars(Reconcile) /\ WF_vars(CacheCatchesUp) /\ WF_vars(ComeBack)

Spec == Init /\ [][Next]_vars /\ Fairness

(***************************************************************************)
(* Properties                                                              *)
(***************************************************************************)
(* A token that all controllers work with is not taken from them: a new one is made only when the one
   in the secret did not work when this reconcile tried it or stopped to work since. *)
TokenKept == made' # made => secret = 0 \/ secret # works

(* In the end the secret holds the token that works, the license is the one asked for and shown, and the
   state tells whether there is one: after the token was revoked, the user or the secret deleted or the
   license changed at any moment, and restarts between a rotation and the secret. *)
Settled ==
  IF wanted = Unreadable THEN state = "ConfigError"
  ELSE /\ secret = works /\ works # 0 /\ state = "Running"
       /\ license = wanted /\ shown = wanted
=============================================================================
