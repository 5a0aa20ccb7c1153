-------------------------- MODULE PermissionTokens --------------------------
(***************************************************************************)
(* The system, organization and view tokens: three controllers with the    *)
(* same Reconcile, each of which keeps a token in Humio, the token's ID in *)
(* the status of a custom resource (CR), and the token's value, which      *)
(* Humio tells only when it issues it, in a Kubernetes secret.             *)
(*                                                                         *)
(* One action is one call to Humio or to the API server, with the reads    *)
(* that lead to it.  A CR is updated with the resource version that was    *)
(* read when the reconcile began, so the update fails when a user has      *)
(* changed the CR since.  Secrets are written without a resource version,  *)
(* and read from the informer's cache, which gets every version of them in *)
(* order and however late.  The CR itself is read without lag.             *)
(***************************************************************************)
EXTENDS Integers, Sequences

CONSTANTS
  Crs,        \* the custom resources, each with a spec.name of its own
  Nobody,     \* the resource name in a secret that has none
  Names,      \* values of spec.tokenSecretName
  Permissions,  \* values of spec.permissions
  MaxIssued,  \* bound: how often Humio issues or rotates a token
  MaxLags,    \* bound: how often the cache falls behind
  MaxOverlooked,  \* bound: how often a CR's token is rotated on an old NotFound
  FaultKinds, MaxFaults,  \* which failures may happen, and a bound on how many
  MaxEdits    \* bound on the users' edits

ASSUME NobodyAssumption == Nobody \notin Crs
ASSUME NamesAssumption == Names # {} /\ Permissions # {}
ASSUME TokenBoundsAssumption == {MaxIssued, MaxLags, MaxOverlooked, MaxFaults, MaxEdits} \subseteq Nat

VARIABLES
  cr,       \* the custom resources in the API server
  tokens,   \* the live tokens in Humio
  issued,   \* how many values and IDs Humio has given out
  secrets,  \* the secrets in the API server, by name
  feed,     \* and the versions before, from the one the cache shows
  lags,     \* how often the cache has fallen behind
  op,       \* per CR: how far its reconcile is, and what it holds in memory
  meddled,  \* history: a token was removed by others, or a secret given another name
  overlooked,  \* history, per CR: its token was rotated on an old NotFound of its secret
  faults, edits  \* failures and edits so far

budgets == <<faults, edits, meddled, overlooked>>
vars == <<cr, tokens, issued, secrets, feed, lags, op, budgets>>

NoId == 0
Ids == 1..MaxIssued
States == {"", "Exists", "NotFound", "Unknown", "ConfigError"}

Cr == [phase : {"live", "deleting", "gone"}, finalizer : BOOLEAN,
       id : Ids \cup {NoId}, state : States, name : Names, perms : Permissions]
Token == [id : Ids, value : Ids, owner : Crs, perms : Permissions]

\* of: the data's resourceName, and the controller reference; a secret that finalize has
\* emptied has neither.
Secret == [there : BOOLEAN, of : Crs \cup {Nobody}, id : Ids \cup {NoId},
           value : Ids \cup {NoId}, finalizer : BOOLEAN, deleting : BOOLEAN]
NoSecret == [there |-> FALSE, of |-> Nobody, id |-> NoId, value |-> NoId,
             finalizer |-> FALSE, deleting |-> FALSE]
EmptySecret == [NoSecret EXCEPT !.there = TRUE]

\* "created"/"rotated": Humio has issued op.id and op.value and the status is to be set;
\* "new"/"renewed": the status is set and the secret is to be created.
Stages == {"idle", "begun", "updated", "created", "new", "rotated", "renewed",
           "checked", "wiping", "removing"}
Operator == [pc : Stages, copy : Cr, updated : BOOLEAN,
             id : Ids \cup {NoId}, value : Ids \cup {NoId}]

(* Every variable has its type. *)
TypeOK ==
  /\ cr \in [Crs -> Cr]
  /\ tokens \subseteq Token
  /\ issued \in 0..MaxIssued
  /\ secrets \in [Names -> Secret]
  /\ feed \in [Names -> Seq(Secret)]
  /\ lags \in 0..MaxLags
  /\ op \in [Crs -> Operator]
  /\ meddled \in BOOLEAN
  /\ overlooked \in [Crs -> 0..MaxOverlooked]
  /\ faults \in 0..MaxFaults
  /\ edits \in 0..MaxEdits

(***************************************************************************)
(* What the handler sees                                                   *)
(***************************************************************************)
At(c, stage) == op[c].pc = stage
Copy(c) == op[c].copy
Fresh(c) == Copy(c) = cr[c]

\* GetSecret reads the cache, every write goes to the API server.
Behind(n) == feed[n] # <<>>
SecretOf(c) == IF Behind(Copy(c).name) THEN Head(feed[Copy(c).name]) ELSE secrets[Copy(c).name]
Stored(c) == secrets[Copy(c).name]

\* The cache hears of the version that a write leaves, at once or after all that it missed.
Publish(n) ==
  \/ feed' = [feed EXCEPT ![n] = <<>>] /\ UNCHANGED lags
  \/ /\ secrets'[n] # secrets[n]
     /\ feed' = [feed EXCEPT ![n] = Append(@, secrets[n])]
     /\ IF Behind(n) THEN UNCHANGED lags ELSE lags < MaxLags /\ lags' = lags + 1

\* GetSystemToken: the token is looked up by the ID in the status.
Found(c) == {t \in tokens : t.id = Copy(c).id}

Marked(c) == At(c, "begun") /\ Copy(c).phase = "deleting"
Working(c) == At(c, "begun") /\ Copy(c).phase = "live" /\ Copy(c).finalizer

AsExpected(c) == \E t \in Found(c) : t.perms = Copy(c).perms

\* The token is there and as expected, or has just been updated.
Ensuring(c) ==
  \/ At(c, "updated")
  \/ Working(c) /\ AsExpected(c)

\* Its secret has been seen to, or is in order.
Ensured(c) ==
  \/ At(c, "checked")
  \/ /\ Ensuring(c)
     /\ SecretOf(c).there
     /\ SecretOf(c).of = c
     /\ SecretOf(c).id = Copy(c).id

Goto(c, stage) == op' = [op EXCEPT ![c].pc = stage]
Idle == [pc |-> "idle", copy |-> CHOOSE x \in Cr : TRUE, updated |-> FALSE,
         id |-> NoId, value |-> NoId]
Return(c) == op' = [op EXCEPT ![c] = Idle]

\* setState with the ID there was, and its result ignored.
SetState(c, st) ==
  cr' = IF Fresh(c) THEN [cr EXCEPT ![c].state = st] ELSE cr

Fault(kind) ==
  /\ kind \in FaultKinds
  /\ faults < MaxFaults
  /\ faults' = faults + 1
  /\ meddled' = (meddled \/ kind = "lose_token")
  /\ UNCHANGED <<edits, overlooked>>

Init ==
  /\ \E p \in Permissions, named \in [Crs -> Names] :
       cr = [c \in Crs |-> [phase |-> "live", finalizer |-> FALSE, id |-> NoId, state |-> "",
                            name |-> named[c], perms |-> p]]
  /\ tokens = {}
  /\ issued = 0
  /\ secrets = [n \in Names |-> NoSecret] /\ feed = [n \in Names |-> <<>>]
  /\ lags = 0
  /\ op = [c \in Crs |-> Idle]
  /\ faults = 0 /\ edits = 0 /\ meddled = FALSE
  /\ overlooked = [c \in Crs |-> 0]

(***************************************************************************)
(* Reconcile                                                               *)
(***************************************************************************)
Begin(c) ==
  /\ At(c, "idle")
  /\ cr[c].phase # "gone"
  /\ op' = [op EXCEPT ![c] = [Idle EXCEPT !.pc = "begun", !.copy = cr[c]]]
  /\ UNCHANGED <<cr, tokens, issued, secrets, feed, lags, budgets>>

\* No cluster of that name, or no admin token for it.
ClusterFails(c) ==
  /\ At(c, "begun")
  /\ Fault("cluster")
  /\ SetState(c, "ConfigError")
  /\ Return(c)
  /\ UNCHANGED <<tokens, issued, secrets, feed, lags>>

AddFinalizer(c) ==
  /\ At(c, "begun")
  /\ Copy(c).phase = "live"
  /\ ~Copy(c).finalizer
  /\ IF Fresh(c)
     THEN /\ cr' = [cr EXCEPT ![c].finalizer = TRUE]
          /\ op' = [op EXCEPT ![c].copy.finalizer = TRUE]
     ELSE UNCHANGED cr /\ Return(c)
  /\ UNCHANGED <<tokens, issued, secrets, feed, lags, budgets>>

\* handleCriticalError: a dependency in Humio, or the spec, is not valid.
Invalid(c) ==
  /\ (Working(c) /\ ~AsExpected(c)) \/ Ensured(c)
  /\ Fault("dependency")
  /\ SetState(c, "ConfigError")
  /\ Return(c)
  /\ UNCHANGED <<tokens, issued, secrets, feed, lags>>

CreateToken(c) ==
  /\ Working(c)
  /\ Found(c) = {}
  /\ issued < MaxIssued
  /\ issued' = issued + 1
  /\ tokens' = tokens \cup {[id |-> issued', value |-> issued', owner |-> c,
                             perms |-> Copy(c).perms]}
  /\ op' = [op EXCEPT ![c].pc = "created", ![c].id = issued', ![c].value = issued']
  /\ UNCHANGED <<cr, secrets, feed, lags, budgets>>

UpdateToken(c) ==
  /\ Working(c)
  /\ \E t \in Found(c) :
       /\ t.perms # Copy(c).perms
       /\ tokens' = (tokens \ {t}) \cup {[t EXCEPT !.perms = Copy(c).perms]}
  /\ op' = [op EXCEPT ![c].pc = "updated", ![c].updated = TRUE]
  /\ UNCHANGED <<cr, issued, secrets, feed, lags, budgets>>

\* Mutants: a secret that is being deleted counts as missing; a missing
\* secret ends the reconcile.
RotateTerminating(c) ==
  /\ Ensuring(c)
  /\ ~SecretOf(c).there \/ SecretOf(c).deleting
  /\ issued < MaxIssued
  /\ issued' = issued + 1
  /\ \E t \in Found(c), id \in {issued', Copy(c).id} :
       /\ tokens' = (tokens \ {t}) \cup {[t EXCEPT !.id = id, !.value = issued']}
       /\ op' = [op EXCEPT ![c].pc = "rotated", ![c].id = id, ![c].value = issued']
  /\ UNCHANGED <<cr, secrets, feed, lags, budgets>>
RotateNever(c) ==
  /\ Ensuring(c)
  /\ ~SecretOf(c).there
  /\ Return(c)
  /\ UNCHANGED <<cr, tokens, issued, secrets, feed, lags, budgets>>

\* The value is lost with the secret, or not at all: the cache may be behind.  The new
\* one may come under another ID.
RotateToken(c) ==
  /\ Ensuring(c)
  /\ ~SecretOf(c).there
  /\ issued < MaxIssued
  /\ IF Behind(Copy(c).name)
     THEN /\ overlooked[c] < MaxOverlooked
          /\ overlooked' = [overlooked EXCEPT ![c] = @ + 1]
     ELSE UNCHANGED overlooked
  /\ issued' = issued + 1
  /\ \E t \in Found(c), id \in {issued', Copy(c).id} :
       /\ tokens' = (tokens \ {t}) \cup {[t EXCEPT !.id = id, !.value = issued']}
       /\ op' = [op EXCEPT ![c].pc = "rotated", ![c].id = id, ![c].value = issued']
  /\ UNCHANGED <<cr, secrets, feed, lags, faults, edits, meddled>>

\* Humio fails, or the token was removed from it after the update.
RotateFails(c) ==
  /\ Ensuring(c)
  /\ ~SecretOf(c).there
  /\ IF Found(c) = {} THEN UNCHANGED budgets ELSE Fault("humio")
  /\ Return(c)
  /\ UNCHANGED <<cr, tokens, issued, secrets, feed, lags>>

\* setState with the ID just issued; nothing is written when nothing changes.
SetId(c) ==
  /\ At(c, "created") \/ At(c, "rotated")
  /\ IF Fresh(c) \/ (Copy(c).state = "Exists" /\ Copy(c).id = op[c].id)
     THEN /\ cr' = IF Fresh(c)
                   THEN [cr EXCEPT ![c].state = "Exists", ![c].id = op[c].id] ELSE cr
          /\ op' = [op EXCEPT ![c].pc = IF At(c, "created") THEN "new" ELSE "renewed",
                              ![c].copy.state = "Exists", ![c].copy.id = op[c].id]
     ELSE UNCHANGED cr /\ Return(c)
  /\ UNCHANGED <<tokens, issued, secrets, feed, lags, budgets>>

CreateSecret(c) ==
  /\ At(c, "new") \/ At(c, "renewed")
  /\ ~Stored(c).there
  /\ secrets' = [secrets EXCEPT ![Copy(c).name] =
                   [there |-> TRUE, of |-> c, id |-> Copy(c).id, value |-> op[c].value,
                    finalizer |-> TRUE, deleting |-> FALSE]]
  /\ Publish(Copy(c).name)
  /\ UNCHANGED cr
  /\ IF At(c, "new") THEN Return(c) ELSE Goto(c, "checked")
  /\ UNCHANGED <<tokens, issued, budgets>>

LoseValue(c) ==
  /\ At(c, "new") \/ At(c, "renewed")
  /\ IF At(c, "new") THEN SetState(c, "ConfigError") ELSE UNCHANGED cr
  /\ Return(c)
  /\ UNCHANGED <<tokens, issued, secrets, feed, lags>>

\* The call fails because a secret of that name is there, or for another reason.
SecretIsThere(c) == LoseValue(c) /\ Stored(c).there /\ UNCHANGED budgets
CreateSecretFails(c) == LoseValue(c) /\ Fault("secret")

\* The secret belongs to a resource of another name.
RejectSecret(c) ==
  /\ Ensuring(c)
  /\ SecretOf(c).there
  /\ SecretOf(c).of # c
  /\ SetState(c, "ConfigError")
  /\ Return(c)
  /\ UNCHANGED <<tokens, issued, secrets, feed, lags, budgets>>

\* The value that was read is kept, and replaces the one of whatever secret is there; the
\* ID is the status's.
Outdated(c) ==
  /\ Ensuring(c)
  /\ SecretOf(c).there
  /\ SecretOf(c).of = c
  /\ SecretOf(c).id # Copy(c).id

UpdateSecret(c) ==
  /\ Outdated(c)
  /\ Stored(c).there
  /\ secrets' = [secrets EXCEPT ![Copy(c).name] =
                   [there |-> TRUE, of |-> c, id |-> Copy(c).id, value |-> SecretOf(c).value,
                    finalizer |-> TRUE, deleting |-> Stored(c).deleting]]
  /\ Publish(Copy(c).name)
  /\ Goto(c, "checked")
  /\ UNCHANGED <<cr, tokens, issued, budgets>>

\* It is gone by now.
UpdateSecretFails(c) ==
  /\ Outdated(c)
  /\ ~Stored(c).there
  /\ SetState(c, "ConfigError")
  /\ Return(c)
  /\ UNCHANGED <<tokens, issued, secrets, feed, lags, budgets>>

\* Only after an update is the token looked up once more.
Finish(c) ==
  /\ Ensured(c)
  /\ SetState(c, IF op[c].updated /\ Found(c) = {} THEN "NotFound" ELSE "Exists")
  /\ Return(c)
  /\ UNCHANGED <<tokens, issued, secrets, feed, lags, budgets>>

(***************************************************************************)
(* Deletion                                                                *)
(***************************************************************************)
\* Mutant: the finalizer goes without a look at Humio.
ReleaseCrAtOnce(c) ==
  /\ Marked(c)
  /\ cr' = IF Fresh(c) THEN [cr EXCEPT ![c].phase = "gone", ![c].finalizer = FALSE]
           ELSE cr
  /\ Return(c)
  /\ UNCHANGED <<tokens, issued, secrets, feed, lags, budgets>>

\* The token is not found in Humio: the finalizer goes, and with it the CR.
ReleaseCr(c) ==
  /\ Marked(c)
  /\ Found(c) = {}
  /\ cr' = IF Fresh(c) THEN [cr EXCEPT ![c].phase = "gone", ![c].finalizer = FALSE]
           ELSE cr
  /\ Return(c)
  /\ UNCHANGED <<tokens, issued, secrets, feed, lags, budgets>>

\* finalize: the token first, then the secret's finalizer, then the secret.
DeleteToken(c) ==
  /\ Marked(c)
  /\ Found(c) # {}
  /\ tokens' = tokens \ Found(c)
  /\ Goto(c, "wiping")
  /\ UNCHANGED <<cr, issued, secrets, feed, lags, budgets>>

DeleteTokenFails(c) ==
  /\ Marked(c)
  /\ Copy(c).id # NoId
  /\ Fault("humio")
  /\ SetState(c, "Unknown")
  /\ Return(c)
  /\ UNCHANGED <<tokens, issued, secrets, feed, lags>>

\* The object that is sent has a name and nothing else: the update that is to remove the
\* finalizer replaces the whole secret, whoever's it is.
WipeSecret(c) ==
  /\ At(c, "wiping")
  /\ IF Stored(c).there
     THEN /\ secrets' = [secrets EXCEPT ![Copy(c).name] =
                           IF Stored(c).deleting THEN NoSecret ELSE EmptySecret]
          /\ Publish(Copy(c).name)
          /\ UNCHANGED cr
          /\ Goto(c, "removing")
     ELSE UNCHANGED <<secrets, feed, lags>> /\ SetState(c, "Unknown") /\ Return(c)
  /\ UNCHANGED <<tokens, issued, budgets>>

RemovedSecret(n) ==
  IF secrets[n].finalizer THEN [secrets EXCEPT ![n].deleting = TRUE]
  ELSE [secrets EXCEPT ![n] = NoSecret]

RemoveSecret(c) ==
  /\ At(c, "removing")
  /\ secrets' = RemovedSecret(Copy(c).name)
  /\ Publish(Copy(c).name)
  /\ UNCHANGED cr
  /\ Return(c)
  /\ UNCHANGED <<tokens, issued, budgets>>

\* The process dies, or a call returns an error that ends the reconcile.
Crash(c) ==
  /\ ~At(c, "idle")
  /\ Fault("crash")
  /\ UNCHANGED cr
  /\ Return(c)
  /\ UNCHANGED <<tokens, issued, secrets, feed, lags>>

Reconcile(c) ==
  \/ Begin(c) \/ AddFinalizer(c)
  \/ CreateToken(c) \/ UpdateToken(c) \/ RotateToken(c) \/ RotateFails(c)
  \/ SetId(c) \/ CreateSecret(c) \/ SecretIsThere(c)
  \/ RejectSecret(c) \/ UpdateSecret(c) \/ UpdateSecretFails(c) \/ Finish(c)
  \/ ReleaseCr(c) \/ DeleteToken(c) \/ WipeSecret(c) \/ RemoveSecret(c)

ReconcileFails(c) ==
  \/ ClusterFails(c) \/ Invalid(c) \/ CreateSecretFails(c)
  \/ DeleteTokenFails(c) \/ Crash(c)

(***************************************************************************)
(* Kubernetes, Humio and the users                                         *)
(***************************************************************************)
\* The garbage collector deletes what a CR that is gone owned.
CollectGarbage(n) ==
  /\ secrets[n].there
  /\ ~secrets[n].deleting
  /\ \E c \in Crs : secrets[n].of = c /\ cr[c].phase = "gone"
  /\ secrets' = RemovedSecret(n)
  /\ Publish(n)
  /\ UNCHANGED <<cr, tokens, issued, op, budgets>>

\* Somebody deletes the secret, and may take its finalizer away as well.
LoseSecret(n) ==
  /\ secrets[n].there
  /\ Fault("lose_secret")
  /\ secrets' \in {RemovedSecret(n), [secrets EXCEPT ![n] = NoSecret]}
  /\ Publish(n)
  /\ UNCHANGED <<cr, tokens, issued, op>>

CacheCatchesUp(n) ==
  /\ Behind(n)
  /\ feed' = [feed EXCEPT ![n] = Tail(@)]
  /\ UNCHANGED <<cr, tokens, issued, secrets, lags, op, budgets>>

LoseToken(t) ==
  /\ Fault("lose_token")
  /\ tokens' = tokens \ {t}
  /\ UNCHANGED <<cr, issued, secrets, feed, lags, op>>

Edit(c) ==
  /\ cr[c].phase = "live"
  /\ edits < MaxEdits
  /\ edits' = edits + 1
  /\ UNCHANGED <<tokens, issued, secrets, feed, lags, op, faults, overlooked>>

DeleteCr(c) ==
  /\ Edit(c)
  /\ cr' = [cr EXCEPT ![c].phase = IF cr[c].finalizer THEN "deleting" ELSE "gone"]
  /\ UNCHANGED meddled

EditPermissions(c) ==
  /\ Edit(c)
  /\ \E p \in Permissions \ {cr[c].perms} : cr' = [cr EXCEPT ![c].perms = p]
  /\ UNCHANGED meddled

EditSecretName(c) ==
  /\ "rename" \in FaultKinds
  /\ Edit(c)
  /\ \E n \in Names \ {cr[c].name} : cr' = [cr EXCEPT ![c].name = n]
  /\ meddled' = TRUE

Environment ==
  \/ \E n \in Names : CollectGarbage(n) \/ LoseSecret(n) \/ CacheCatchesUp(n)
  \/ \E t \in tokens : LoseToken(t)
  \/ \E c \in Crs : DeleteCr(c) \/ EditPermissions(c) \/ EditSecretName(c)

Next == (\E c \in Crs : Reconcile(c) \/ ReconcileFails(c)) \/ Environment

\* A reconcile that fails or ends is run again: after the error, RequeueAfter or a watch
\* event.  The cache hears of every version.
Fairness ==
  /\ \A c \in Crs : WF_vars(Reconcile(c))
  /\ \A n \in Names : WF_vars(CollectGarbage(n)) /\ WF_vars(CacheCatchesUp(n))

Spec == Init /\ [][Next]_vars
FairSpec == Spec /\ Fairness

(***************************************************************************)
(* Properties                                                              *)
(***************************************************************************)
(* A secret that names a live token's ID holds that token's value, so that what a user
   reads from the secret is what Humio accepts: what the documentation of
   tokenSecretName says of the secret.  It does as long as nobody else removes tokens or
   renames secrets, and the token was not rotated because the cache had yet to hear of a
   secret: although the value, the ID in the status and the secret are written by
   three calls any of which may be the last, secrets are lost and shared, and every other
   decision is made on a secret as it once was. *)
SecretStaysTrue ==
  \A n \in Names, t \in tokens :
    ~meddled /\ overlooked[t.owner] = 0 /\ secrets[n].there /\ secrets[n].id = t.id =>
      secrets[n].value = t.value

(* A CR goes only once the token its status names is gone from Humio. *)
TokenGoesFirst ==
  [][\A c \in Crs : cr[c].phase # "gone" /\ cr'[c].phase = "gone" =>
       \A t \in tokens : t.id # cr[c].id]_vars

Stage(object) ==
  IF object.phase # "live" THEN object.phase ELSE IF object.finalizer THEN "guarded" ELSE "new"

Progress == [c \in Crs |-> Stage(cr[c])]
Holders == {c \in Crs : \E t \in tokens : t.id = cr[c].id}

Promise == INSTANCE Finalizer WITH stage <- Progress, made <- Holders

(* The controllers keep what the finalizer promises, of the token that the status of a CR names,
   whatever fails: it is named only under the finalizer, which goes when the token has gone. *)
KeepsPromise == Promise!Spec

\* The CR, its token and its secret say the same, but for the token's value.
Named(c) ==
  /\ cr[c].phase = "live"
  /\ cr[c].state = "Exists"
  /\ \E t \in tokens : t.id = cr[c].id /\ t.perms = cr[c].perms
  /\ secrets[cr[c].name].of = c
  /\ secrets[cr[c].name].id = cr[c].id

Served(c) ==
  /\ Named(c)
  /\ \E t \in tokens : t.id = cr[c].id /\ t.value = secrets[cr[c].name].value

\* Another resource's secret, or the empty one it left, has the name.
Shadowed(c) == secrets[cr[c].name].there /\ secrets[cr[c].name].of # c

(* Once edits and failures stop, every CR comes to rest: it has its token, its secret
   and the state Exists, or it is gone as its user asked, or its secret's name is taken;
   unless a token was removed, or a secret renamed, while it was served.  A CR whose secret
   was overlooked comes to rest as well, with a secret that may hold an older value. *)
Settles ==
  \A c \in Crs :
    <>[](\/ Served(c)
         \/ cr[c].phase = "gone"
         \/ Shadowed(c)
         \/ meddled
         \/ Named(c) /\ overlooked[c] > 0)
=============================================================================
