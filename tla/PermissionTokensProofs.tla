----------------------- MODULE PermissionTokensProofs -----------------------
(***************************************************************************)
(* What holds of PermissionTokens for every number of resources, secrets,  *)
(* permissions, edits and failures.                                        *)
(***************************************************************************)
EXTENDS PermissionTokens, SequenceTheorems, TLAPS

(***************************************************************************)
(* Types                                                                   *)
(***************************************************************************)
(* What most steps rely on of the types. *)
LEMMA Typed ==
  ASSUME TypeOK
  PROVE  /\ cr \in [Crs -> Cr] /\ op \in [Crs -> Operator] /\ secrets \in [Names -> Secret]
         /\ tokens \subseteq Token /\ issued \in 0..MaxIssued
BY DEF TypeOK

(* A reconcile that has ended holds nothing. *)
LEMMA IdleType == Idle \in Operator
<1>1. (CHOOSE x \in Cr : TRUE) \in Cr
  <2>1. PICK n \in Names, p \in Permissions : TRUE
    BY NamesAssumption
  <2>2. [phase |-> "live", finalizer |-> FALSE, id |-> NoId, state |-> "",
         name |-> n, perms |-> p] \in Cr
    BY DEF Cr, States
  <2> QED BY <2>2
<1> QED
  BY <1>1 DEF Idle, Operator, Stages

(* The resources keep their type when their state is set. *)
LEMMA SetStateType ==
  ASSUME cr \in [Crs -> Cr], NEW c \in Crs, NEW st \in States, SetState(c, st)
  PROVE  cr' \in [Crs -> Cr]
BY DEF SetState, Cr

(* Faults and the histories keep their type. *)
LEMMA FaultType ==
  ASSUME TypeOK, NEW kind, Fault(kind)
  PROVE  /\ faults' \in 0..MaxFaults /\ meddled' \in BOOLEAN /\ edits' \in 0..MaxEdits
         /\ overlooked' = overlooked
BY TokenBoundsAssumption DEF TypeOK, Fault

(* So does a step that ends a reconcile. *)
LEMMA ReturnType ==
  ASSUME TypeOK, NEW c \in Crs, Return(c)
  PROVE  op' \in [Crs -> Operator]
BY IdleType DEF TypeOK, Return

(* and one that goes on with it. *)
LEMMA GotoType ==
  ASSUME TypeOK, NEW c \in Crs, NEW stage \in Stages, Goto(c, stage)
  PROVE  op' \in [Crs -> Operator]
BY DEF TypeOK, Goto, Operator

(* Issuing a token stays within the bound on the IDs. *)
LEMMA NextId ==
  ASSUME TypeOK, issued < MaxIssued, issued' = issued + 1
  PROVE  issued' \in Ids /\ issued' \in 0..MaxIssued
BY TokenBoundsAssumption DEF TypeOK, Ids

(* A secret that has been removed, or waits for its finalizer. *)
LEMMA RemovedType ==
  ASSUME TypeOK, NEW n \in Names
  PROVE  RemovedSecret(n) \in [Names -> Secret]
BY DEF TypeOK, RemovedSecret, Secret, NoSecret

(* A missing secret and one that finalize has emptied are secrets. *)
LEMMA NoSecretType == NoSecret \in Secret /\ EmptySecret \in Secret
BY DEF NoSecret, EmptySecret, Secret

(* What the cache shows is a version of the secret, *)
LEMMA ReadType ==
  ASSUME TypeOK, NEW c \in Crs
  PROVE  SecretOf(c) \in Secret /\ Stored(c) \in Secret /\ Copy(c).name \in Names
<1>1. Copy(c).name \in Names
  BY DEF TypeOK, Operator, Copy, Cr
<1>2. feed[Copy(c).name] \in Seq(Secret) /\ secrets[Copy(c).name] \in Secret
  BY <1>1 DEF TypeOK
<1>3. Behind(Copy(c).name) => Head(feed[Copy(c).name]) \in Secret
  BY <1>2, HeadTailProperties DEF Behind
<1> QED BY <1>1, <1>2, <1>3 DEF SecretOf, Stored

(* and a write leaves it with versions of the secret to catch up with. *)
LEMMA PublishType ==
  ASSUME TypeOK, NEW n \in Names, Publish(n)
  PROVE  feed' \in [Names -> Seq(Secret)] /\ lags' \in 0..MaxLags
<1>1. feed[n] \in Seq(Secret) /\ secrets[n] \in Secret /\ <<>> \in Seq(Secret)
  BY DEF TypeOK
<1>2. Append(feed[n], secrets[n]) \in Seq(Secret)
  BY <1>1, AppendProperties
<1>3. feed' \in [Names -> Seq(Secret)]
  <2>1. \/ feed' = [feed EXCEPT ![n] = <<>>]
        \/ feed' = [feed EXCEPT ![n] = Append(feed[n], secrets[n])]
    BY DEF Publish, TypeOK
  <2> QED BY <1>1, <1>2, <2>1 DEF TypeOK
<1>4. lags' \in 0..MaxLags
  BY TokenBoundsAssumption DEF Publish, TypeOK
<1> QED BY <1>3, <1>4

(* A cluster without tokens and secrets has the types, *)
LEMMA TypeInit == Init => TypeOK
<1> SUFFICES ASSUME Init PROVE TypeOK
  OBVIOUS
<1>1. cr \in [Crs -> Cr]
  <2>1. PICK p \in Permissions, named \in [Crs -> Names] :
          cr = [c \in Crs |-> [phase |-> "live", finalizer |-> FALSE, id |-> NoId,
                               state |-> "", name |-> named[c], perms |-> p]]
    BY DEF Init
  <2> QED BY <2>1 DEF Cr, States
<1>2. secrets \in [Names -> Secret] /\ op \in [Crs -> Operator]
  BY NoSecretType, IdleType DEF Init
<1>3. issued \in 0..MaxIssued /\ faults \in 0..MaxFaults /\ edits \in 0..MaxEdits
  <2>1. issued = 0 /\ faults = 0 /\ edits = 0
    BY DEF Init
  <2> QED BY <2>1, TokenBoundsAssumption
<1>4. tokens \subseteq Token /\ meddled \in BOOLEAN
  BY DEF Init
<1>5. feed \in [Names -> Seq(Secret)]
  <2>1. <<>> \in Seq(Secret)
    OBVIOUS
  <2> QED BY <2>1 DEF Init
<1>6. lags \in 0..MaxLags /\ overlooked \in [Crs -> 0..MaxOverlooked]
  <2>1. lags = 0 /\ overlooked = [c \in Crs |-> 0]
    BY DEF Init
  <2> QED BY <2>1, TokenBoundsAssumption
<1> QED
  BY <1>1, <1>2, <1>3, <1>4, <1>5, <1>6 DEF TypeOK

(* Every step of a reconcile keeps the types. *)
LEMMA ReconcileType ==
  ASSUME TypeOK, NEW c \in Crs, Reconcile(c)
  PROVE  TypeOK'
<1> USE DEF Stages
<1>0. /\ cr[c] \in Cr /\ op[c] \in Operator /\ Copy(c) \in Cr
      /\ Copy(c).name \in Names /\ Copy(c).perms \in Permissions
      /\ Copy(c).id \in Ids \cup {NoId}
      /\ SecretOf(c) \in Secret /\ Stored(c) \in Secret
  BY ReadType DEF TypeOK, Operator, Cr, Copy
<1>1. CASE Begin(c)
  <2>1. op' \in [Crs -> Operator]
    BY <1>0, <1>1, IdleType DEF Begin, TypeOK, Operator
  <2> QED BY <2>1, <1>1 DEF Begin, TypeOK, budgets
<1>2. CASE AddFinalizer(c)
  <2>1. cr' \in [Crs -> Cr]
    <3>1. [cr[c] EXCEPT !.finalizer = TRUE] \in Cr
      BY <1>0 DEF Cr
    <3>2. cr' = cr \/ cr' = [cr EXCEPT ![c] = [cr[c] EXCEPT !.finalizer = TRUE]]
      BY <1>2 DEF AddFinalizer, TypeOK
    <3> QED BY <3>1, <3>2 DEF TypeOK
  <2>2. op' \in [Crs -> Operator]
    <3>1. [op[c] EXCEPT !.copy = [op[c].copy EXCEPT !.finalizer = TRUE]] \in Operator
      BY <1>0 DEF Operator, Cr
    <3>2. \/ Return(c)
          \/ op' = [op EXCEPT ![c] = [op[c] EXCEPT !.copy =
                                        [op[c].copy EXCEPT !.finalizer = TRUE]]]
      BY <1>2 DEF AddFinalizer, TypeOK
    <3> QED BY <3>1, <3>2, ReturnType DEF TypeOK
  <2> QED BY <2>1, <2>2, <1>2 DEF AddFinalizer, TypeOK, budgets
<1>3. CASE CreateToken(c)
  <2>1. issued' \in Ids /\ issued' \in 0..MaxIssued
    BY <1>3, NextId DEF CreateToken
  <2>2. tokens' \subseteq Token
    BY <1>0, <1>3, <2>1 DEF CreateToken, TypeOK, Token
  <2>3. op' \in [Crs -> Operator]
    BY <1>0, <1>3, <2>1 DEF CreateToken, TypeOK, Operator
  <2> QED BY <2>1, <2>2, <2>3, <1>3 DEF CreateToken, TypeOK, budgets
<1>4. CASE UpdateToken(c)
  <2>1. tokens' \subseteq Token
    BY <1>0, <1>4 DEF UpdateToken, Found, TypeOK, Token
  <2>2. op' \in [Crs -> Operator]
    BY <1>0, <1>4 DEF UpdateToken, TypeOK, Operator
  <2> QED BY <2>1, <2>2, <1>4 DEF UpdateToken, TypeOK, budgets
<1>5. CASE RotateToken(c)
  <2>1. issued' \in Ids /\ issued' \in 0..MaxIssued
    BY <1>5, NextId DEF RotateToken
  <2>2. PICK t \in Found(c), id \in {issued', Copy(c).id} :
          /\ tokens' = (tokens \ {t}) \cup {[t EXCEPT !.id = id, !.value = issued']}
          /\ op' = [op EXCEPT ![c].pc = "rotated", ![c].id = id, ![c].value = issued']
    BY <1>5 DEF RotateToken
  <2>3. t \in Token /\ id \in Ids
    BY <2>1, <2>2 DEF Found, TypeOK, Token
  <2>4. tokens' \subseteq Token
    BY <2>1, <2>2, <2>3 DEF TypeOK, Token
  <2>5. op' \in [Crs -> Operator]
    BY <1>0, <2>1, <2>2, <2>3 DEF TypeOK, Operator
  <2>6. overlooked' \in [Crs -> 0..MaxOverlooked]
    BY <1>5, TokenBoundsAssumption DEF RotateToken, TypeOK
  <2> QED BY <2>1, <2>4, <2>5, <2>6, <1>5 DEF RotateToken, TypeOK
<1>6. CASE RotateFails(c)
  <2>1. /\ faults' \in 0..MaxFaults /\ meddled' \in BOOLEAN /\ edits' \in 0..MaxEdits
        /\ overlooked' = overlooked
    BY <1>6, FaultType DEF RotateFails, budgets, TypeOK
  <2> QED BY <2>1, <1>6, ReturnType DEF RotateFails, TypeOK
<1>7. CASE SetId(c)
  <2>0. op[c].id \in Ids \cup {NoId}
    BY <1>0 DEF Operator
  <2>1. cr' \in [Crs -> Cr]
    <3>1. [cr[c] EXCEPT !.state = "Exists", !.id = op[c].id] \in Cr
      BY <1>0, <2>0 DEF Cr, States
    <3>2. \/ cr' = cr
          \/ cr' = [cr EXCEPT ![c] = [cr[c] EXCEPT !.state = "Exists", !.id = op[c].id]]
      BY <1>7 DEF SetId, TypeOK
    <3> QED BY <3>1, <3>2 DEF TypeOK
  <2>2. op' \in [Crs -> Operator]
    <3> DEFINE copied == [op[c].copy EXCEPT !.state = "Exists", !.id = op[c].id]
               moved == [op[c] EXCEPT !.pc = IF At(c, "created") THEN "new" ELSE "renewed",
                                      !.copy = copied]
    <3>1. copied \in Cr
      BY <1>0, <2>0 DEF Operator, Cr, States
    <3>2. moved \in Operator
      BY <1>0, <3>1 DEF Operator
    <3>3. \/ Return(c)
          \/ op' = [op EXCEPT ![c].pc = IF At(c, "created") THEN "new" ELSE "renewed",
                              ![c].copy.state = "Exists", ![c].copy.id = op[c].id]
      BY <1>7 DEF SetId
    <3>4. [op EXCEPT ![c].pc = IF At(c, "created") THEN "new" ELSE "renewed",
                     ![c].copy.state = "Exists", ![c].copy.id = op[c].id]
            = [op EXCEPT ![c] = moved]
      BY <1>0 DEF TypeOK
    <3> HIDE DEF moved
    <3> QED BY <3>2, <3>3, <3>4, ReturnType, Typed
  <2> QED BY <2>1, <2>2, <1>7 DEF SetId, TypeOK, budgets
<1>8. CASE CreateSecret(c)
  <2>0. op[c].value \in Ids \cup {NoId}
    BY <1>0 DEF Operator
  <2>1. secrets' \in [Names -> Secret]
    BY <1>0, <2>0, <1>8 DEF CreateSecret, TypeOK, Secret
  <2>2. op' \in [Crs -> Operator]
    BY <1>8, ReturnType, GotoType DEF CreateSecret
  <2>3. feed' \in [Names -> Seq(Secret)] /\ lags' \in 0..MaxLags
    BY <1>0, <1>8, PublishType DEF CreateSecret
  <2> QED BY <2>1, <2>2, <2>3, <1>8 DEF CreateSecret, TypeOK, budgets
<1>9. CASE SecretIsThere(c)
  <2>1. cr' \in [Crs -> Cr]
    BY <1>9, SetStateType DEF SecretIsThere, LoseValue, TypeOK, States
  <2> QED BY <2>1, <1>9, ReturnType DEF SecretIsThere, LoseValue, TypeOK, budgets
<1>10. CASE RejectSecret(c)
  <2>1. cr' \in [Crs -> Cr]
    BY <1>10, SetStateType DEF RejectSecret, TypeOK, States
  <2> QED BY <2>1, <1>10, ReturnType DEF RejectSecret, TypeOK, budgets
<1>11. CASE UpdateSecret(c)
  <2>1. secrets' \in [Names -> Secret]
    BY <1>0, <1>11 DEF UpdateSecret, TypeOK, Secret
  <2>2. feed' \in [Names -> Seq(Secret)] /\ lags' \in 0..MaxLags
    BY <1>0, <1>11, PublishType DEF UpdateSecret
  <2> QED BY <2>1, <2>2, <1>11, GotoType DEF UpdateSecret, TypeOK, budgets
<1>12. CASE Finish(c)
  <2>1. cr' \in [Crs -> Cr]
    BY <1>12, SetStateType DEF Finish, TypeOK, States
  <2> QED BY <2>1, <1>12, ReturnType DEF Finish, TypeOK, budgets
<1>13. CASE ReleaseCr(c)
  <2>1. cr' \in [Crs -> Cr]
    BY <1>13 DEF ReleaseCr, TypeOK, Cr
  <2> QED BY <2>1, <1>13, ReturnType DEF ReleaseCr, TypeOK, budgets
<1>14. CASE DeleteToken(c)
  BY <1>14, GotoType DEF DeleteToken, TypeOK, budgets
<1>15. CASE WipeSecret(c)
  <2>1. secrets' \in [Names -> Secret]
    BY <1>0, <1>15, NoSecretType DEF WipeSecret, TypeOK
  <2>2. cr' \in [Crs -> Cr]
    BY <1>15, SetStateType DEF WipeSecret, TypeOK, States
  <2>3. op' \in [Crs -> Operator]
    BY <1>15, ReturnType, GotoType DEF WipeSecret
  <2>4. feed' \in [Names -> Seq(Secret)] /\ lags' \in 0..MaxLags
    BY <1>0, <1>15, PublishType DEF WipeSecret, TypeOK
  <2> QED BY <2>1, <2>2, <2>3, <2>4, <1>15 DEF WipeSecret, TypeOK, budgets
<1>16. CASE RemoveSecret(c)
  <2>1. feed' \in [Names -> Seq(Secret)] /\ lags' \in 0..MaxLags
    BY <1>0, <1>16, PublishType DEF RemoveSecret
  <2> QED BY <1>0, <1>16, <2>1, RemovedType, ReturnType DEF RemoveSecret, TypeOK, budgets
<1>17. CASE UpdateSecretFails(c)
  <2>1. cr' \in [Crs -> Cr]
    BY <1>17, SetStateType DEF UpdateSecretFails, TypeOK, States
  <2> QED BY <2>1, <1>17, ReturnType DEF UpdateSecretFails, TypeOK, budgets
<1> QED
  BY <1>1, <1>2, <1>3, <1>4, <1>5, <1>6, <1>7, <1>8, <1>9, <1>10, <1>11, <1>12, <1>13,
     <1>14, <1>15, <1>16, <1>17 DEF Reconcile

(* So does every failure, *)
LEMMA ReconcileFailsType ==
  ASSUME TypeOK, NEW c \in Crs, ReconcileFails(c)
  PROVE  TypeOK'
<1>1. op' \in [Crs -> Operator]
  BY ReturnType DEF ReconcileFails, ClusterFails, Invalid, CreateSecretFails, LoseValue,
                    DeleteTokenFails, Crash
<1>2. /\ faults' \in 0..MaxFaults /\ meddled' \in BOOLEAN /\ edits' \in 0..MaxEdits
      /\ overlooked' = overlooked
  BY FaultType DEF ReconcileFails, ClusterFails, Invalid, CreateSecretFails,
                   DeleteTokenFails, Crash
<1>3. cr' \in [Crs -> Cr]
  BY SetStateType DEF ReconcileFails, ClusterFails, Invalid, CreateSecretFails, LoseValue,
                      DeleteTokenFails, Crash, TypeOK, States
<1>4. UNCHANGED <<tokens, issued, secrets, feed, lags>>
  BY DEF ReconcileFails, ClusterFails, Invalid, CreateSecretFails, LoseValue,
         DeleteTokenFails, Crash
<1> QED
  BY <1>1, <1>2, <1>3, <1>4 DEF TypeOK

(* and everything Kubernetes, Humio and the users do. *)
LEMMA EnvironmentType ==
  ASSUME TypeOK, Environment
  PROVE  TypeOK'
<1>1. CASE \E n \in Names : CollectGarbage(n)
  BY <1>1, RemovedType, PublishType DEF CollectGarbage, TypeOK, budgets
<1>2. CASE \E n \in Names : LoseSecret(n)
  <2>1. PICK n \in Names : LoseSecret(n)
    BY <1>2
  <2>2. /\ faults' \in 0..MaxFaults /\ meddled' \in BOOLEAN /\ edits' \in 0..MaxEdits
        /\ overlooked' = overlooked
    BY <2>1, FaultType DEF LoseSecret
  <2>3. secrets' \in [Names -> Secret]
    BY <2>1, RemovedType, NoSecretType DEF LoseSecret, TypeOK
  <2>4. feed' \in [Names -> Seq(Secret)] /\ lags' \in 0..MaxLags
    BY <2>1, PublishType DEF LoseSecret
  <2> QED BY <2>1, <2>2, <2>3, <2>4 DEF LoseSecret, TypeOK
<1>3. CASE \E t \in tokens : LoseToken(t)
  <2>1. PICK t \in tokens : LoseToken(t)
    BY <1>3
  <2>2. /\ faults' \in 0..MaxFaults /\ meddled' \in BOOLEAN /\ edits' \in 0..MaxEdits
        /\ overlooked' = overlooked
    BY <2>1, FaultType DEF LoseToken
  <2> QED BY <2>1, <2>2 DEF LoseToken, TypeOK
<1>4. CASE \E c \in Crs : DeleteCr(c) \/ EditPermissions(c) \/ EditSecretName(c)
  <2>1. PICK c \in Crs : DeleteCr(c) \/ EditPermissions(c) \/ EditSecretName(c)
    BY <1>4
  <2>2. cr' \in [Crs -> Cr]
    BY <2>1, Typed DEF DeleteCr, EditPermissions, EditSecretName, Cr
  <2>3. /\ edits' \in 0..MaxEdits
        /\ UNCHANGED <<tokens, issued, secrets, feed, lags, op, faults, overlooked>>
    BY <2>1, TokenBoundsAssumption
       DEF DeleteCr, EditPermissions, EditSecretName, Edit, TypeOK
  <2>4. meddled' \in BOOLEAN
    BY <2>1 DEF DeleteCr, EditPermissions, EditSecretName, TypeOK
  <2> QED BY <2>2, <2>3, <2>4 DEF TypeOK
<1>5. CASE \E n \in Names : CacheCatchesUp(n)
  <2>1. PICK n \in Names : CacheCatchesUp(n)
    BY <1>5
  <2>2. Tail(feed[n]) \in Seq(Secret)
    BY <2>1, HeadTailProperties DEF CacheCatchesUp, Behind, TypeOK
  <2>3. feed' \in [Names -> Seq(Secret)]
    BY <2>1, <2>2 DEF CacheCatchesUp, TypeOK
  <2> QED BY <2>1, <2>3 DEF CacheCatchesUp, TypeOK, budgets
<1> QED
  BY <1>1, <1>2, <1>3, <1>4, <1>5 DEF Environment

(* and all steps keep them. *)
LEMMA TypeStep == TypeOK /\ [Next]_vars => TypeOK'
<1>1. TypeOK /\ Next => TypeOK'
  BY ReconcileType, ReconcileFailsType, EnvironmentType DEF Next
<1>2. TypeOK /\ UNCHANGED vars => TypeOK'
  BY DEF TypeOK, vars, budgets
<1> QED BY <1>1, <1>2

(* The variables of the three token controllers keep their types. *)
THEOREM TypeCorrect == Spec => []TypeOK
BY TypeInit, TypeStep, PTL DEF Spec

(***************************************************************************)
(* Which steps change what                                                 *)
(***************************************************************************)
(* A reconcile that is over has no ID in hand. *)
LEMMA IdleIsIdle == Idle.pc = "idle" /\ Idle.id = NoId
BY DEF Idle

(* Before the first reconcile nothing has been issued. *)
LEMMA InitEffect ==
  ASSUME Init
  PROVE  /\ \A c \in Crs : cr[c].id = NoId /\ op[c].pc = "idle" /\ op[c].id = NoId
         /\ \A n \in Names : secrets[n] = NoSecret
         /\ tokens = {} /\ issued = 0
<1>1. \A c \in Crs : cr[c].id = NoId
  <2>1. PICK p \in Permissions, named \in [Crs -> Names] :
          cr = [c \in Crs |-> [phase |-> "live", finalizer |-> FALSE, id |-> NoId,
                               state |-> "", name |-> named[c], perms |-> p]]
    BY DEF Init
  <2> QED BY <2>1
<1>2. /\ op = [c \in Crs |-> Idle] /\ secrets = [n \in Names |-> NoSecret]
      /\ tokens = {} /\ issued = 0
  BY DEF Init
<1> QED
  BY <1>1, <1>2, IdleIsIdle

(* A reconcile writes to its own CR only. *)
LEMMA OthersAreLeftAlone ==
  ASSUME TypeOK, NEW c \in Crs, Reconcile(c) \/ ReconcileFails(c)
  PROVE  \A d \in Crs \ {c} : cr'[d] = cr[d] /\ op'[d] = op[d]
BY Typed DEF Reconcile, Begin, AddFinalizer, CreateToken, UpdateToken, RotateToken,
       RotateFails, SetId, CreateSecret, SecretIsThere, LoseValue, RejectSecret,
       UpdateSecret, UpdateSecretFails, Finish, ReleaseCr, DeleteToken, WipeSecret,
       RemoveSecret, ReconcileFails, ClusterFails, Invalid, CreateSecretFails, DeleteTokenFails, Crash,
       Return, Goto, SetState

\* The steps that end a reconcile and write at most the state of its CR.
Ends(c) ==
  /\ op' = [op EXCEPT ![c] = Idle]
  /\ cr'[c].phase = cr[c].phase
  /\ cr'[c].finalizer = cr[c].finalizer
  /\ cr'[c].id = cr[c].id
  /\ cr'[c].name = cr[c].name
  /\ UNCHANGED <<tokens, issued, secrets, feed, overlooked>>
  /\ meddled => meddled'

(* They are these. *)
LEMMA EndsOnly ==
  ASSUME TypeOK, NEW c \in Crs,
         \/ RotateFails(c) \/ SecretIsThere(c) \/ RejectSecret(c) \/ UpdateSecretFails(c)
         \/ Finish(c)
         \/ ReconcileFails(c)
  PROVE  Ends(c)
<1>1. op' = [op EXCEPT ![c] = Idle] /\ UNCHANGED <<tokens, issued, secrets, feed>>
  BY DEF RotateFails, SecretIsThere, LoseValue, RejectSecret, UpdateSecretFails, Finish,
         ReconcileFails, ClusterFails, Invalid, CreateSecretFails, DeleteTokenFails, Crash, Return
<1>2. UNCHANGED budgets \/ \E kind \in FaultKinds : Fault(kind)
  BY DEF RotateFails, SecretIsThere, RejectSecret, UpdateSecretFails, Finish,
         ReconcileFails, ClusterFails, Invalid, CreateSecretFails, DeleteTokenFails, Crash, Fault
<1>5. overlooked' = overlooked
  BY <1>2 DEF Fault, budgets
<1>6. meddled => meddled'
  <2>1. CASE UNCHANGED budgets
    BY <2>1 DEF budgets
  <2>2. ASSUME NEW kind \in FaultKinds, Fault(kind) PROVE meddled => meddled'
    BY <2>2 DEF Fault
  <2> QED BY <1>2, <2>1, <2>2
<1>3. cr' = cr \/ \E st \in States : SetState(c, st)
  BY DEF RotateFails, SecretIsThere, LoseValue, RejectSecret, UpdateSecretFails, Finish,
         ReconcileFails, ClusterFails, Invalid, CreateSecretFails, DeleteTokenFails, Crash, States
<1>4. /\ cr'[c].phase = cr[c].phase /\ cr'[c].finalizer = cr[c].finalizer
      /\ cr'[c].id = cr[c].id /\ cr'[c].name = cr[c].name
  BY <1>3, Typed DEF SetState, Cr
<1> QED
  BY <1>1, <1>4, <1>5, <1>6 DEF Ends

(* What becomes of a CR and of the reconcile's copy when the ID is stored. *)
LEMMA SetIdEffect ==
  ASSUME TypeOK, NEW c \in Crs, SetId(c)
  PROVE  \/ Return(c) /\ cr' = cr
         \/ /\ op'[c].pc \in {"new", "renewed"}
            /\ op'[c].copy.id = op[c].id
            /\ op'[c].id = op[c].id /\ op'[c].value = op[c].value
            /\ op'[c].copy.finalizer = op[c].copy.finalizer
            /\ op'[c].copy.phase = op[c].copy.phase
            /\ op'[c].copy.name = op[c].copy.name
            /\ cr'[c].phase = cr[c].phase /\ cr'[c].finalizer = cr[c].finalizer
            /\ cr'[c].name = cr[c].name
            /\ \/ Fresh(c) /\ cr'[c].id = op[c].id
               \/ cr' = cr /\ Copy(c).id = op[c].id
<1> DEFINE copied == [op[c].copy EXCEPT !.state = "Exists", !.id = op[c].id]
           moved == [op[c] EXCEPT !.pc = IF At(c, "created") THEN "new" ELSE "renewed",
                                  !.copy = copied]
           issuedTo == [cr[c] EXCEPT !.state = "Exists", !.id = op[c].id]
<1>0. op[c] \in Operator /\ op[c].copy \in Cr /\ cr[c] \in Cr
  BY Typed DEF Operator
<1>1. CASE Return(c) /\ cr' = cr
  BY <1>1
<1>2. CASE ~(Return(c) /\ cr' = cr)
  <2>1. op' = [op EXCEPT ![c].pc = IF At(c, "created") THEN "new" ELSE "renewed",
                         ![c].copy.state = "Exists", ![c].copy.id = op[c].id]
    BY <1>2 DEF SetId
  <2>2. op' = [op EXCEPT ![c] = moved]
    BY <1>0, <2>1, Typed
  <2>3. op'[c] = moved
    BY <2>2, Typed
  <2>4. /\ moved.pc \in {"new", "renewed"} /\ moved.copy = copied
        /\ moved.id = op[c].id /\ moved.value = op[c].value
    BY <1>0 DEF Operator
  <2>5. /\ copied.id = op[c].id /\ copied.finalizer = op[c].copy.finalizer
        /\ copied.phase = op[c].copy.phase /\ copied.name = op[c].copy.name
    BY <1>0 DEF Cr
  <2>6. \/ Fresh(c) /\ cr' = [cr EXCEPT ![c] = issuedTo]
        \/ cr' = cr /\ Copy(c).id = op[c].id
    BY <1>2, Typed DEF SetId
  <2>7. \/ Fresh(c) /\ cr'[c] = issuedTo
        \/ cr' = cr /\ Copy(c).id = op[c].id
    BY <2>6, Typed
  <2>8. /\ issuedTo.id = op[c].id /\ issuedTo.finalizer = cr[c].finalizer
        /\ issuedTo.phase = cr[c].phase /\ issuedTo.name = cr[c].name
    BY <1>0 DEF Cr
  <2> HIDE DEF moved, copied, issuedTo
  <2> QED BY <2>3, <2>4, <2>5, <2>7, <2>8
<1> QED BY <1>1, <1>2

(* Moving on within a reconcile changes nothing else of what it holds. *)
LEMMA GotoEffect ==
  ASSUME TypeOK, NEW c \in Crs, NEW stage \in Stages, Goto(c, stage)
  PROVE  /\ op'[c].pc = stage /\ op'[c].copy = op[c].copy
         /\ op'[c].id = op[c].id /\ op'[c].value = op[c].value
BY Typed DEF Goto, Operator

(* The end of a reconcile leaves nothing in hand. *)
LEMMA ReturnEffect ==
  ASSUME TypeOK, NEW c \in Crs, Return(c)
  PROVE  op'[c].pc = "idle" /\ op'[c].id = NoId
BY IdleIsIdle, Typed DEF Return

(* What a reconcile holds of its CR once it has begun, and once it has its finalizer. *)
LEMMA BeginEffect ==
  ASSUME TypeOK, NEW c \in Crs, Begin(c)
  PROVE  op'[c].pc = "begun" /\ op'[c].copy = cr[c] /\ op'[c].id = NoId
BY Typed DEF Begin, Idle

(* The finalizer is all that changes when it is added. *)
LEMMA AddFinalizerEffect ==
  ASSUME TypeOK, NEW c \in Crs, AddFinalizer(c)
  PROVE  /\ cr'[c].phase = cr[c].phase /\ cr'[c].id = cr[c].id /\ cr'[c].name = cr[c].name
         /\ cr[c].finalizer => cr'[c].finalizer
         /\ \/ Return(c)
            \/ /\ op'[c].pc = "begun" /\ op'[c].id = op[c].id
               /\ op'[c].copy.phase = op[c].copy.phase
               /\ op'[c].copy.id = op[c].copy.id
               /\ op'[c].copy.name = op[c].copy.name
<1>0. op[c] \in Operator /\ op[c].copy \in Cr /\ cr[c] \in Cr
  BY Typed DEF Operator
<1>1. cr' = cr \/ cr' = [cr EXCEPT ![c] = [cr[c] EXCEPT !.finalizer = TRUE]]
  BY Typed DEF AddFinalizer
<1>2. \/ Return(c)
      \/ op' = [op EXCEPT ![c] = [op[c] EXCEPT !.copy =
                                    [op[c].copy EXCEPT !.finalizer = TRUE]]]
  BY Typed DEF AddFinalizer
<1>3. op[c].pc = "begun"
  BY DEF AddFinalizer, At
<1> QED
  BY <1>0, <1>1, <1>2, <1>3, Typed DEF Operator, Cr

(* What it holds once Humio has answered. *)
LEMMA CreateTokenEffect ==
  ASSUME TypeOK, NEW c \in Crs, CreateToken(c)
  PROVE  /\ op'[c].pc = "created" /\ op'[c].copy = op[c].copy
         /\ op'[c].id = issued' /\ op'[c].value = issued'
<1>0. op[c] \in Operator
  BY Typed
<1> QED
  BY <1>0, Typed DEF CreateToken, Operator

(* An update is remembered, and nothing else. *)
LEMMA UpdateTokenEffect ==
  ASSUME TypeOK, NEW c \in Crs, UpdateToken(c)
  PROVE  /\ op'[c].pc = "updated" /\ op'[c].copy = op[c].copy /\ op'[c].id = op[c].id
<1>0. op[c] \in Operator
  BY Typed
<1>1. op' = [op EXCEPT ![c].pc = "updated", ![c].updated = TRUE]
  BY DEF UpdateToken
<1> QED
  BY <1>0, <1>1, Typed DEF Operator

(* A rotation puts the ID and the value it was told in hand. *)
LEMMA RotateTokenEffect ==
  ASSUME TypeOK, NEW c \in Crs, RotateToken(c)
  PROVE  \E t \in Found(c), id \in {issued', Copy(c).id} :
           /\ tokens' = (tokens \ {t}) \cup {[t EXCEPT !.id = id, !.value = issued']}
           /\ op'[c].pc = "rotated" /\ op'[c].copy = op[c].copy
           /\ op'[c].id = id /\ op'[c].value = issued'
<1>0. op[c] \in Operator
  BY Typed
<1>1. PICK t \in Found(c), id \in {issued', Copy(c).id} :
        /\ tokens' = (tokens \ {t}) \cup {[t EXCEPT !.id = id, !.value = issued']}
        /\ op' = [op EXCEPT ![c].pc = "rotated", ![c].id = id, ![c].value = issued']
  BY DEF RotateToken
<1>2. /\ op'[c].pc = "rotated" /\ op'[c].copy = op[c].copy
      /\ op'[c].id = id /\ op'[c].value = issued'
  BY <1>0, <1>1, Typed DEF Operator
<1> QED
  BY <1>1, <1>2

(* A step of the environment leaves the reconciles alone, and the CRs their IDs. *)
LEMMA EnvironmentEffect ==
  ASSUME TypeOK, Environment
  PROVE  /\ op' = op
         /\ \A d \in Crs :
              /\ cr'[d].id = cr[d].id /\ cr'[d].finalizer = cr[d].finalizer
              /\ cr'[d].phase # cr[d].phase => cr[d].phase = "live"
BY Typed DEF Environment, CollectGarbage, LoseSecret, CacheCatchesUp, LoseToken, DeleteCr,
       EditPermissions, EditSecretName, Edit, Cr

(***************************************************************************)
(* The finalizer                                                           *)
(***************************************************************************)
\* A CR without the finalizer has no token yet, and a reconcile that is at work has seen
\* it: ReleaseCr is the only step that takes away a CR with an ID.
AtWork == {"updated", "created", "new", "rotated", "renewed", "checked"}
FinalizerFirst ==
  \A c \in Crs :
    /\ cr[c].phase # "gone" /\ ~cr[c].finalizer => cr[c].id = NoId
    /\ op[c].pc \in AtWork => Copy(c).finalizer

(* The finalizer is on a CR before it has an ID, and stays until it is gone: AddFinalizer
   is the first write of a reconcile, and only ReleaseCr takes it away. *)
LEMMA FinalizerStep ==
  ASSUME TypeOK, FinalizerFirst, [Next]_vars
  PROVE  FinalizerFirst'
<1> USE DEF AtWork
<1>0. CASE UNCHANGED vars
  BY <1>0 DEF vars, FinalizerFirst, Copy
<1>1. ASSUME NEW c \in Crs, Reconcile(c) \/ ReconcileFails(c)
      PROVE  FinalizerFirst'
  <2>1. \A d \in Crs \ {c} : cr'[d] = cr[d] /\ op'[d] = op[d]
    BY <1>1, OthersAreLeftAlone
  <2>2. CASE Ends(c)
    BY <2>1, <2>2, IdleIsIdle DEF Ends, FinalizerFirst, Copy
  <2>3. CASE Begin(c)
    BY <2>1, <2>3, BeginEffect DEF Begin, FinalizerFirst, Copy
  <2>4. CASE AddFinalizer(c)
    BY <2>1, <2>4, AddFinalizerEffect, ReturnEffect DEF FinalizerFirst, Copy
  <2>5. CASE CreateToken(c)
    BY <2>1, <2>5, CreateTokenEffect DEF CreateToken, Working, FinalizerFirst, Copy
  <2>6. CASE UpdateToken(c)
    BY <2>1, <2>6, UpdateTokenEffect DEF UpdateToken, Working, FinalizerFirst, Copy
  <2>7. CASE RotateToken(c)
    BY <2>1, <2>7, RotateTokenEffect
       DEF RotateToken, Ensuring, Working, At, FinalizerFirst, Copy
  <2>8. CASE SetId(c)
    <3>1. op[c].pc \in AtWork /\ op[c].copy.finalizer
      BY <2>8 DEF SetId, At, FinalizerFirst, Copy
    <3>2. CASE Return(c) /\ cr' = cr
      BY <2>1, <3>2, ReturnEffect DEF FinalizerFirst, Copy
    <3>3. CASE ~(Return(c) /\ cr' = cr)
      BY <2>1, <2>8, <3>1, <3>3, SetIdEffect DEF Fresh, FinalizerFirst, Copy
    <3> QED BY <3>2, <3>3
  <2>9. CASE CreateSecret(c)
    <3>1. cr' = cr /\ (Return(c) \/ Goto(c, "checked"))
      BY <2>9 DEF CreateSecret
    <3> QED BY <2>1, <2>9, <3>1, ReturnEffect, GotoEffect
            DEF CreateSecret, At, FinalizerFirst, Copy, Stages
  <2>10. CASE UpdateSecret(c)
    <3>1. cr' = cr /\ Goto(c, "checked") /\ Copy(c).finalizer
      BY <2>10 DEF UpdateSecret, Outdated, Ensuring, Working, At, FinalizerFirst
    <3> QED BY <2>1, <3>1, GotoEffect DEF FinalizerFirst, Copy, Stages
  <2>11. CASE ReleaseCr(c)
    BY <2>1, <2>11, IdleIsIdle, Typed DEF ReleaseCr, Return, FinalizerFirst, Copy, Cr
  <2>12. CASE DeleteToken(c) \/ WipeSecret(c) \/ RemoveSecret(c)
    BY <2>1, <2>12, IdleIsIdle, Typed DEF DeleteToken, WipeSecret, RemoveSecret, Goto, Return,
       SetState, FinalizerFirst, Copy, Cr, Operator
  <2> QED
    BY <1>1, <2>2, <2>3, <2>4, <2>5, <2>6, <2>7, <2>8, <2>9, <2>10, <2>11, <2>12, EndsOnly
       DEF Reconcile
<1>2. CASE Environment
  BY <1>2, EnvironmentEffect DEF FinalizerFirst, Copy
<1> QED
  BY <1>0, <1>1, <1>2 DEF Next

(* At first no CR has an ID. *)
LEMMA FinalizerInit == Init => FinalizerFirst
BY InitEffect DEF FinalizerFirst, AtWork

(* The step that takes a CR away finds no token under the ID of its status. *)
LEMMA GoneStep ==
  ASSUME TypeOK, FinalizerFirst, [Next]_vars, NEW c \in Crs,
         cr[c].phase # "gone", cr'[c].phase = "gone", NEW t \in tokens
  PROVE  t.id # cr[c].id
<1>1. t.id # NoId
  BY Typed DEF Token, Ids, NoId
<1>2. CASE Environment
  <2>1. PICK d \in Crs : DeleteCr(d)
    BY <1>2, Typed DEF Environment, CollectGarbage, LoseSecret, CacheCatchesUp, LoseToken,
                EditPermissions, EditSecretName, Edit, Cr
  <2>2. ~cr[c].finalizer
    BY <2>1, Typed DEF DeleteCr, Edit, Cr
  <2> QED BY <1>1, <2>2 DEF FinalizerFirst
<1>3. ASSUME NEW d \in Crs, Reconcile(d) \/ ReconcileFails(d)
      PROVE  t.id # cr[c].id
  <2>1. c = d
    BY <1>3, OthersAreLeftAlone
  <2>2. ~Ends(c)
    BY DEF Ends
  <2>3. ~AddFinalizer(c)
    BY AddFinalizerEffect
  <2>4. ~SetId(c)
    BY SetIdEffect
  <2>5. ~WipeSecret(c)
    BY Typed DEF WipeSecret, SetState, Cr
  <2>6. ReleaseCr(c)
    BY <1>3, <2>1, <2>2, <2>3, <2>4, <2>5, EndsOnly
       DEF Reconcile, Begin, CreateToken, UpdateToken, RotateToken, CreateSecret,
           UpdateSecret, DeleteToken, RemoveSecret
  <2>7. Found(c) = {} /\ Copy(c) = cr[c]
    BY <2>6 DEF ReleaseCr, Fresh
  <2> QED BY <2>7 DEF Found
<1>4. ~UNCHANGED vars
  BY DEF vars
<1> QED
  BY <1>2, <1>3, <1>4 DEF Next

(* Whatever fails and whoever edits, a CR does not go before the token its status names:
   the finalizer, which a CR has before it has an ID, goes only when GetSystemToken finds
   nothing under the ID in the very version of the CR that is updated. *)
THEOREM TokensGoFirst == Spec => TokenGoesFirst
<1>1. Spec => [](TypeOK /\ FinalizerFirst)
  BY TypeInit, TypeStep, FinalizerInit, FinalizerStep, PTL DEF Spec
<1>2. TypeOK /\ FinalizerFirst /\ [Next]_vars
        => [\A c \in Crs : cr[c].phase # "gone" /\ cr'[c].phase = "gone" =>
              \A t \in tokens : t.id # cr[c].id]_vars
  BY GoneStep
<1> QED
  BY <1>1, <1>2, PTL DEF Spec, TokenGoesFirst

(***************************************************************************)
(* What the secrets hold                                                   *)
(***************************************************************************)
\* Between the call that issues a token and the one that creates its secret.
InHand == {"created", "new", "rotated", "renewed"}
Busy(c) == op[c].pc # "idle"

\* What the API server has of a secret and what the cache shows, or will on its way there.
Versions(n) == {secrets[n]} \cup {feed[n][i] : i \in 1..Len(feed[n])}
OwnedBy(c, n) == {v \in Versions(n) : v.there /\ v.of = c}
HasSecret(c, n) == OwnedBy(c, n) # {}

\* Nobody has meddled, and the secret of the CR has not been overlooked.
Undisturbed(c) == ~meddled /\ overlooked[c] = 0

\* Every ID that is written anywhere has been issued.
IssuedSoFar ==
  /\ \A t \in tokens : t.id <= issued
  /\ \A n \in Names : secrets[n].id <= issued
  /\ \A c \in Crs : cr[c].id <= issued /\ op[c].id <= issued

\* What the reconcile holds of its CR is what it read, but for what users may change.
CopiesKeepUp ==
  \A c \in Crs : Busy(c) =>
    /\ Copy(c).id = cr[c].id
    /\ cr[c].phase = "live" => Copy(c).phase = "live"
    /\ ~meddled => Copy(c).name = cr[c].name
    /\ op[c].pc \in {"new", "renewed"} => op[c].id = Copy(c).id

\* An ID is the ID of one token, which belongs to the CR that has it in its status or
\* in hand; and a secret with the ID belongs to the same CR.
Single == \A t, u \in tokens : t.id = u.id => t = u
Owned == \A t \in tokens, c \in Crs : t.id = cr[c].id \/ t.id = op[c].id => t.owner = c
Tagged ==
  \A t \in tokens, n \in Names :
    secrets[n].there /\ secrets[n].id = t.id => secrets[n].of = t.owner
ValueInHand ==
  \A c \in Crs, t \in tokens :
    op[c].pc \in InHand /\ t.id = op[c].id => t.value = op[c].value

\* A CR's secret has the name and the ID that the CR says, and had no other.
SecretKnowsToken ==
  \A c \in Crs, n \in Names : Undisturbed(c) =>
    \A v \in OwnedBy(c, n) : n = cr[c].name /\ v.id = cr[c].id

\* While a value is in hand the token is there and no secret is, and none was,
HandsFull ==
  \A c \in Crs : Undisturbed(c) /\ op[c].pc \in InHand =>
    /\ \A n \in Names : ~HasSecret(c, n)
    /\ \E t \in tokens : t.id = op[c].id

\* and once there is a secret the token stays until the CR is deleted.
TokenBehindSecret ==
  \A c \in Crs, n \in Names :
    /\ Undisturbed(c)
    /\ HasSecret(c, n)
    /\ cr[c].phase = "live" \/ (Busy(c) /\ Copy(c).phase = "live")
    => \E t \in tokens : t.id = cr[c].id

SecretInv ==
  /\ IssuedSoFar /\ CopiesKeepUp /\ Single /\ Owned /\ Tagged /\ ValueInHand
  /\ SecretKnowsToken /\ HandsFull /\ TokenBehindSecret /\ SecretStaysTrue

(* The cache shows one of the versions, and the last one when it is not behind, *)
LEMMA ReadsAVersion ==
  ASSUME TypeOK, NEW c \in Crs
  PROVE  /\ SecretOf(c) \in Versions(Copy(c).name)
         /\ ~Behind(Copy(c).name) =>
              Versions(Copy(c).name) = {SecretOf(c)} /\ SecretOf(c) = Stored(c)
<1> DEFINE n == Copy(c).name
<1>1. feed[n] \in Seq(Secret)
  BY ReadType DEF TypeOK
<1>2. CASE Behind(n)
  <2>1. Head(feed[n]) = feed[n][1] /\ 1 \in 1..Len(feed[n])
    BY <1>1, <1>2 DEF Behind
  <2> QED BY <1>2, <2>1 DEF SecretOf, Versions
<1>3. CASE ~Behind(n)
  <2>1. Len(feed[n]) = 0
    BY <1>3 DEF Behind
  <2>2. 1..Len(feed[n]) = {}
    BY <2>1
  <2>3. SecretOf(c) = secrets[n] /\ Stored(c) = secrets[n]
    BY <1>3 DEF SecretOf, Stored
  <2>4. Versions(n) = {secrets[n]}
    BY <2>2 DEF Versions
  <2> QED BY <1>3, <2>3, <2>4
<1> QED BY <1>2, <1>3

(* a write adds the one that it leaves, *)
LEMMA PublishVersions ==
  ASSUME TypeOK, NEW n \in Names, Publish(n),
         \A m \in Names \ {n} : secrets'[m] = secrets[m]
  PROVE  \A m \in Names : Versions(m)' \subseteq Versions(m) \cup {secrets'[m]}
<1> SUFFICES ASSUME NEW m \in Names, NEW v \in Versions(m)', v # secrets'[m]
             PROVE  v \in Versions(m)
  OBVIOUS
<1>1. PICK i \in 1..Len(feed'[m]) : v = feed'[m][i]
  BY DEF Versions
<1>2. feed[m] \in Seq(Secret) /\ secrets[m] \in Secret
  BY DEF TypeOK
<1>3. CASE feed'[m] = feed[m]
  BY <1>1, <1>3 DEF Versions
<1>4. CASE feed'[m] = Append(feed[m], secrets[m])
  <2>1. i \in 1..Len(feed[m]) \/ i = Len(feed[m]) + 1
    BY <1>1, <1>2, <1>4, AppendProperties
  <2>2. (i \in 1..Len(feed[m]) /\ v = feed[m][i]) \/ v = secrets[m]
    BY <1>1, <1>2, <1>4, <2>1, AppendProperties
  <2> QED BY <2>2 DEF Versions
<1>5. CASE feed'[m] = <<>>
  <2>1. Len(feed'[m]) = 0
    BY <1>5
  <2>2. FALSE
    BY <1>1, <2>1
  <2> QED BY <2>2
<1> QED
  BY <1>3, <1>4, <1>5 DEF Publish, TypeOK

(* and the cache leaves versions behind. *)
LEMMA CatchUpVersions ==
  ASSUME TypeOK, NEW n \in Names, CacheCatchesUp(n)
  PROVE  \A m \in Names : Versions(m)' \subseteq Versions(m)
<1> SUFFICES ASSUME NEW m \in Names, NEW v \in Versions(m)', v # secrets[m]
             PROVE  v \in Versions(m)
  BY DEF Versions
<1>1. secrets' = secrets
  BY DEF CacheCatchesUp
<1>2. PICK i \in 1..Len(feed'[m]) : v = feed'[m][i]
  BY <1>1 DEF Versions
<1>3. CASE m # n
  <2>1. feed'[m] = feed[m]
    BY <1>3 DEF CacheCatchesUp, TypeOK
  <2> QED BY <1>2, <2>1 DEF Versions
<1>4. CASE m = n
  <2>1. feed'[n] = Tail(feed[n]) /\ feed[n] \in Seq(Secret) /\ feed[n] # <<>>
    BY DEF CacheCatchesUp, Behind, TypeOK
  <2>2. i \in 1..Len(Tail(feed[n])) /\ v = Tail(feed[n])[i]
    BY <1>2, <1>4, <2>1
  <2>3. v = feed[n][i + 1] /\ Len(Tail(feed[n])) = Len(feed[n]) - 1
    BY <2>1, <2>2, HeadTailProperties
  <2>4. i + 1 \in 1..Len(feed[n])
    BY <2>1, <2>2, <2>3
  <2> QED BY <1>4, <2>3, <2>4 DEF Versions
<1> QED BY <1>3, <1>4

(* Without tokens there is nothing a secret could say wrongly. *)
LEMMA SecretInit == Init => SecretInv
<1> SUFFICES ASSUME Init PROVE SecretInv
  OBVIOUS
<1>1. CopiesKeepUp /\ Single /\ Owned /\ Tagged /\ ValueInHand
  BY InitEffect DEF CopiesKeepUp, Busy, Single, Owned, Tagged, ValueInHand
<1>2. IssuedSoFar
  BY InitEffect DEF IssuedSoFar, NoSecret, NoId
<1>3. SecretKnowsToken /\ HandsFull /\ TokenBehindSecret
  <2>1. \A n \in Names : secrets[n] = NoSecret /\ feed[n] = <<>>
    BY DEF Init
  <2>2. \A n \in Names : Versions(n) = {NoSecret}
    <3>1. \A n \in Names : Len(feed[n]) = 0
      BY <2>1
    <3>2. \A n \in Names : 1..Len(feed[n]) = {}
      BY <3>1
    <3> QED BY <2>1, <3>2 DEF Versions
  <2>3. \A c \in Crs, n \in Names : OwnedBy(c, n) = {}
    BY <2>2 DEF OwnedBy, NoSecret
  <2> QED BY <2>3, InitEffect DEF SecretKnowsToken, HandsFull, TokenBehindSecret, HasSecret, InHand
<1>4. SecretStaysTrue
  BY InitEffect DEF SecretStaysTrue
<1> QED BY <1>1, <1>2, <1>3, <1>4 DEF SecretInv

\* A reconcile that stays as it is, is over, or holds what the CR says.
Stays(d) == op'[d] = op[d]
IsOver(d) == op'[d].pc = "idle" /\ op'[d].id = NoId
Agrees(d) ==
  /\ op'[d].pc \notin InHand
  /\ op'[d].id \in {NoId, op[d].id}
  /\ op'[d].copy.id = cr'[d].id
  /\ cr'[d].phase = "live" => op'[d].copy.phase = "live"
  /\ op'[d].copy.phase = "live" =>
       cr[d].phase = "live" \/ (Busy(d) /\ Copy(d).phase = "live")
  /\ ~meddled' => op'[d].copy.name = cr'[d].name

\* A CR that nothing of this is changed of, but that users may delete or rename.
SameCr(d) ==
  /\ cr'[d].id = cr[d].id
  /\ cr'[d].phase = "live" => cr[d].phase = "live"
  /\ ~meddled' => cr'[d].name = cr[d].name

(* The steps that write neither tokens nor secrets nor IDs keep the invariant. *)
LEMMA SecretQuiet ==
  ASSUME TypeOK, SecretInv,
         UNCHANGED <<tokens, issued, secrets, overlooked>>,
         \A n \in Names : Versions(n)' \subseteq Versions(n),
         meddled => meddled',
         \A d \in Crs : SameCr(d) /\ (Stays(d) \/ IsOver(d) \/ Agrees(d))
  PROVE  SecretInv'
<1>1. issued \in Nat /\ \A t \in tokens : t.id # NoId
  BY Typed DEF Token, Ids, NoId
<1>2. \A d \in Crs : cr'[d].id = cr[d].id /\ op'[d].id \in {NoId, op[d].id}
  BY DEF SameCr, Stays, IsOver, Agrees
<1>3. \A d \in Crs : op'[d].pc \in InHand => op'[d] = op[d]
  BY DEF Stays, IsOver, Agrees, InHand
<1>0. \A d \in Crs : /\ Undisturbed(d)' => Undisturbed(d)
                    /\ \A n \in Names : OwnedBy(d, n)' \subseteq OwnedBy(d, n)
  BY DEF Undisturbed, OwnedBy
<1>4. IssuedSoFar' /\ Single' /\ Owned' /\ Tagged'
  BY <1>1, <1>2 DEF SecretInv, IssuedSoFar, Single, Owned, Tagged, NoId
<1>5. CopiesKeepUp'
  <2> SUFFICES ASSUME NEW d \in Crs, Busy(d)'
               PROVE  /\ op'[d].copy.id = cr'[d].id
                      /\ cr'[d].phase = "live" => op'[d].copy.phase = "live"
                      /\ ~meddled' => op'[d].copy.name = cr'[d].name
                      /\ op'[d].pc \in {"new", "renewed"} => op'[d].id = op'[d].copy.id
    BY DEF CopiesKeepUp, Copy
  <2>1. CASE Stays(d)
    BY <2>1 DEF Stays, SameCr, SecretInv, CopiesKeepUp, Busy, Copy
  <2>2. CASE Agrees(d)
    BY <2>2 DEF Agrees, InHand
  <2> QED BY <2>1, <2>2 DEF IsOver, Busy
<1>6. ValueInHand'
  BY <1>3 DEF SecretInv, ValueInHand
<1>7. SecretKnowsToken'
  <2>1. \A d \in Crs : ~meddled' => cr'[d].name = cr[d].name
    BY DEF SameCr
  <2> QED BY <1>0, <1>2, <2>1 DEF SecretInv, SecretKnowsToken, Undisturbed
<1>8. HandsFull'
  BY <1>0, <1>3 DEF SecretInv, HandsFull, HasSecret
<1>9. TokenBehindSecret'
  <2>1. \A d \in Crs : cr'[d].phase = "live" \/ (Busy(d)' /\ op'[d].copy.phase = "live")
          => cr[d].phase = "live" \/ (Busy(d) /\ op[d].copy.phase = "live")
    BY DEF SameCr, Stays, IsOver, Agrees, Busy, Copy
  <2> QED BY <1>0, <1>2, <2>1 DEF SecretInv, TokenBehindSecret, HasSecret, Copy
<1>10. SecretStaysTrue'
  BY DEF SecretInv, SecretStaysTrue
<1> QED
  BY <1>4, <1>5, <1>6, <1>7, <1>8, <1>9, <1>10 DEF SecretInv

(* The secrets that are lost or emptied: nobody else's token is named by what is left. *)
LEMMA SecretsLost ==
  ASSUME TypeOK, SecretInv,
         UNCHANGED <<tokens, issued, overlooked>>,
         \A n \in Names : Versions(n)' \subseteq Versions(n) \cup {secrets'[n]},
         meddled => meddled',
         \A n \in Names :
           \/ /\ secrets'[n].there = secrets[n].there /\ secrets'[n].of = secrets[n].of
              /\ secrets'[n].id = secrets[n].id /\ secrets'[n].value = secrets[n].value
           \/ secrets'[n].of = Nobody /\ secrets'[n].id = NoId,
         \A d \in Crs : /\ cr'[d].id = cr[d].id
                        /\ cr'[d].phase = cr[d].phase
                        /\ cr'[d].name = cr[d].name
                        /\ \/ IsOver(d)
                           \/ /\ op'[d].copy = op[d].copy /\ op'[d].id = op[d].id
                              /\ op'[d].value = op[d].value
                              /\ op[d].pc # "idle"
                              /\ op'[d].pc \notin InHand
                           \/ Stays(d)
  PROVE  SecretInv'
<1> USE DEF Stays, IsOver
<1>0. issued \in Nat /\ \A t \in tokens : t.id # NoId
  BY Typed DEF Token, Ids, NoId
<1>1. ASSUME NEW c \in Crs, NEW n \in Names, NEW v \in OwnedBy(c, n)'
      PROVE  \E w \in OwnedBy(c, n) : w.id = v.id
  <2>1. v.there /\ v.of = c /\ (v \in Versions(n) \/ v = secrets'[n])
    BY <1>1 DEF OwnedBy
  <2>2. CASE v \in Versions(n)
    BY <2>1, <2>2 DEF OwnedBy
  <2>3. CASE v = secrets'[n]
    BY <2>1, <2>3, NobodyAssumption DEF OwnedBy, Versions
  <2> QED BY <2>1, <2>2, <2>3
<1>9. \A d \in Crs : /\ Undisturbed(d)' => Undisturbed(d)
                    /\ \A n \in Names : HasSecret(d, n)' => HasSecret(d, n)
  BY <1>1 DEF Undisturbed, HasSecret
<1>2. IssuedSoFar' /\ Single' /\ Owned' /\ Tagged'
  BY <1>0 DEF SecretInv, IssuedSoFar, Single, Owned, Tagged, NoId
<1>3. CopiesKeepUp'
  BY DEF SecretInv, CopiesKeepUp, Busy, Copy, InHand
<1>4. ValueInHand'
  BY DEF SecretInv, ValueInHand, InHand
<1>5. SecretKnowsToken'
  BY <1>1, <1>9 DEF SecretInv, SecretKnowsToken
<1>6. HandsFull'
  BY <1>9 DEF SecretInv, HandsFull, InHand
<1>7. TokenBehindSecret'
  BY <1>9 DEF SecretInv, TokenBehindSecret, Busy, Copy
<1>8. SecretStaysTrue'
  BY <1>0 DEF SecretInv, SecretStaysTrue
<1> QED
  BY <1>2, <1>3, <1>4, <1>5, <1>6, <1>7, <1>8 DEF SecretInv

(* They are the steps that begin or end a reconcile, the finalizer's included, *)
LEMMA QuietSteps ==
  ASSUME TypeOK, SecretInv, NEW c \in Crs,
         \/ Begin(c) \/ AddFinalizer(c) \/ ReleaseCr(c)
         \/ RotateFails(c) \/ SecretIsThere(c) \/ RejectSecret(c) \/ UpdateSecretFails(c)
         \/ Finish(c)
         \/ ReconcileFails(c)
  PROVE  SecretInv'
<1>1. \A d \in Crs \ {c} : cr'[d] = cr[d] /\ op'[d] = op[d]
  BY OthersAreLeftAlone DEF Reconcile
<1>2. \A d \in Crs \ {c} : SameCr(d) /\ Stays(d)
  BY <1>1 DEF SameCr, Stays
<1>3. SameCr(c) /\ (Stays(c) \/ IsOver(c) \/ Agrees(c))
  <2>1. CASE Ends(c)
    BY <2>1, ReturnEffect DEF Ends, Return, SameCr, IsOver
  <2>2. CASE Begin(c)
    BY <2>2, BeginEffect DEF Begin, SameCr, Agrees, InHand
  <2>3. CASE AddFinalizer(c)
    <3>1. SameCr(c)
      BY <2>3, AddFinalizerEffect DEF SameCr
    <3>2. CASE Return(c)
      BY <3>1, <3>2, ReturnEffect DEF IsOver
    <3>3. CASE ~Return(c)
      <4>1. /\ op'[c].pc = "begun" /\ op'[c].id = op[c].id
            /\ op'[c].copy.phase = op[c].copy.phase
            /\ op'[c].copy.id = op[c].copy.id
            /\ op'[c].copy.name = op[c].copy.name
            /\ cr'[c].phase = cr[c].phase /\ cr'[c].id = cr[c].id /\ cr'[c].name = cr[c].name
        BY <2>3, <3>3, AddFinalizerEffect
      <4>2. /\ op[c].copy.id = cr[c].id
            /\ cr[c].phase = "live" => op[c].copy.phase = "live"
            /\ ~meddled => op[c].copy.name = cr[c].name
            /\ Busy(c)
        BY <2>3 DEF AddFinalizer, At, SecretInv, CopiesKeepUp, Busy, Copy
      <4>3. meddled' = meddled
        BY <2>3 DEF AddFinalizer, budgets
      <4> QED BY <3>1, <4>1, <4>2, <4>3 DEF Agrees, InHand, Copy
    <3> QED BY <3>2, <3>3
  <2>4. CASE ReleaseCr(c)
    <3>1. cr'[c].id = cr[c].id /\ cr'[c].name = cr[c].name
          /\ (cr'[c].phase = "live" => cr[c].phase = "live")
      BY <2>4, Typed DEF ReleaseCr, Cr
    <3> QED BY <2>4, <3>1, ReturnEffect DEF ReleaseCr, SameCr, IsOver
  <2> QED BY <2>1, <2>2, <2>3, <2>4, EndsOnly
<1>4. UNCHANGED <<tokens, issued, secrets, feed, overlooked>> /\ (meddled => meddled')
  <2>1. CASE Ends(c)
    BY <2>1 DEF Ends
  <2> QED BY <2>1, EndsOnly DEF Begin, AddFinalizer, ReleaseCr, budgets
<1>5. \A n \in Names : Versions(n)' \subseteq Versions(n)
  BY <1>4 DEF Versions
<1> QED
  BY <1>2, <1>3, <1>4, <1>5, SecretQuiet

(* the cache's, *)
LEMMA CatchingUp ==
  ASSUME TypeOK, SecretInv, NEW n \in Names, CacheCatchesUp(n)
  PROVE  SecretInv'
<1>1. UNCHANGED <<cr, tokens, issued, secrets, op, meddled, overlooked>>
  BY DEF CacheCatchesUp, budgets
<1>2. \A d \in Crs : SameCr(d) /\ Stays(d)
  BY <1>1 DEF SameCr, Stays
<1> QED
  BY <1>1, <1>2, CatchUpVersions, SecretQuiet

(* and the users' edits. *)
LEMMA EditSteps ==
  ASSUME TypeOK, SecretInv, NEW c \in Crs,
         DeleteCr(c) \/ EditPermissions(c) \/ EditSecretName(c)
  PROVE  SecretInv'
<1>1. UNCHANGED <<tokens, issued, secrets, feed, op, overlooked>>
  BY DEF DeleteCr, EditPermissions, EditSecretName, Edit
<1>2. meddled => meddled'
  BY DEF DeleteCr, EditPermissions, EditSecretName
<1>3. \A d \in Crs : /\ cr'[d].id = cr[d].id
                     /\ cr'[d].phase = "live" => cr[d].phase = "live"
  BY Typed DEF DeleteCr, EditPermissions, EditSecretName, Edit, Cr
<1>4. ~meddled' => \A d \in Crs : cr'[d].name = cr[d].name
  <2>1. CASE DeleteCr(c) \/ EditPermissions(c)
    BY <2>1, Typed DEF DeleteCr, EditPermissions, Cr
  <2>2. CASE EditSecretName(c)
    <3>1. meddled'
      BY <2>2 DEF EditSecretName
    <3> QED BY <3>1
  <2> QED BY <2>1, <2>2
<1>5. \A d \in Crs : SameCr(d) /\ Stays(d)
  <2>1. ASSUME NEW d \in Crs PROVE SameCr(d)
    <3>1. ~meddled' => cr'[d].name = cr[d].name
      BY <1>4
    <3> QED BY <1>3, <3>1 DEF SameCr
  <2>2. \A d \in Crs : Stays(d)
    BY <1>1 DEF Stays
  <2> QED BY <2>1, <2>2
<1>6. \A n \in Names : Versions(n)' \subseteq Versions(n)
  BY <1>1 DEF Versions
<1> QED
  BY <1>1, <1>2, <1>5, <1>6, SecretQuiet

(* They are finalize's, the garbage collector's and other clients'. *)
LEMMA LosingSteps ==
  ASSUME TypeOK, SecretInv,
         \/ \E c \in Crs : WipeSecret(c) \/ RemoveSecret(c)
         \/ \E n \in Names : CollectGarbage(n) \/ LoseSecret(n)
  PROVE  SecretInv'
<1>0. \A m \in Names : secrets[m] \in Secret
  BY Typed
<1>1. \A n, m \in Names :
        \/ /\ RemovedSecret(n)[m].there = secrets[m].there
           /\ RemovedSecret(n)[m].of = secrets[m].of
           /\ RemovedSecret(n)[m].id = secrets[m].id
           /\ RemovedSecret(n)[m].value = secrets[m].value
        \/ RemovedSecret(n)[m].of = Nobody /\ RemovedSecret(n)[m].id = NoId
  BY <1>0, Typed DEF RemovedSecret, Secret, NoSecret
<1>2. ASSUME NEW n \in Names, CollectGarbage(n) \/ LoseSecret(n)
      PROVE  SecretInv'
  <2>1. UNCHANGED <<cr, tokens, issued, op, overlooked>> /\ (meddled => meddled')
    <3>1. CASE CollectGarbage(n)
      BY <3>1 DEF CollectGarbage, budgets
    <3>2. CASE LoseSecret(n)
      <4>1. UNCHANGED <<cr, tokens, issued, op, overlooked>>
        BY <3>2 DEF LoseSecret, Fault
      <4>2. meddled => meddled'
        BY <3>2 DEF LoseSecret, Fault
      <4> QED BY <4>1, <4>2
    <3> QED BY <1>2, <3>1, <3>2
  <2>2. secrets' = RemovedSecret(n) \/ secrets' = [secrets EXCEPT ![n] = NoSecret]
    BY <1>2 DEF CollectGarbage, LoseSecret
  <2>3. \A m \in Names :
           \/ /\ secrets'[m].there = secrets[m].there /\ secrets'[m].of = secrets[m].of
              /\ secrets'[m].id = secrets[m].id /\ secrets'[m].value = secrets[m].value
           \/ secrets'[m].of = Nobody /\ secrets'[m].id = NoId
    BY <1>0, <1>1, <2>2, Typed DEF NoSecret
  <2>4. \A m \in Names : Versions(m)' \subseteq Versions(m) \cup {secrets'[m]}
    <3>1. Publish(n) /\ \A m \in Names \ {n} : secrets'[m] = secrets[m]
      <4>1. Publish(n)
        BY <1>2 DEF CollectGarbage, LoseSecret
      <4>2. \A m \in Names \ {n} : secrets'[m] = secrets[m]
        BY <2>2, Typed DEF RemovedSecret
      <4> QED BY <4>1, <4>2
    <3> QED BY <3>1, PublishVersions
  <2> QED BY <2>1, <2>3, <2>4, SecretsLost DEF Stays
<1>3. ASSUME NEW c \in Crs, WipeSecret(c) \/ RemoveSecret(c)
      PROVE  SecretInv'
  <2>0. Copy(c).name \in Names
    BY Typed DEF Operator, Copy, Cr
  <2>1. UNCHANGED <<tokens, issued, meddled, overlooked>>
    BY <1>3 DEF WipeSecret, RemoveSecret, budgets
  <2>2. \A m \in Names :
           \/ /\ secrets'[m].there = secrets[m].there /\ secrets'[m].of = secrets[m].of
              /\ secrets'[m].id = secrets[m].id /\ secrets'[m].value = secrets[m].value
           \/ secrets'[m].of = Nobody /\ secrets'[m].id = NoId
    <3>1. CASE RemoveSecret(c)
      <4>1. secrets' = RemovedSecret(Copy(c).name)
        BY <3>1 DEF RemoveSecret
      <4> QED BY <1>1, <2>0, <4>1
    <3>2. CASE WipeSecret(c)
      <4>1. \/ secrets' = secrets
            \/ secrets' = [secrets EXCEPT ![Copy(c).name] = NoSecret]
            \/ secrets' = [secrets EXCEPT ![Copy(c).name] = EmptySecret]
        BY <3>2 DEF WipeSecret
      <4> QED BY <4>1, <2>0, Typed DEF NoSecret, EmptySecret
    <3> QED BY <1>3, <3>1, <3>2
  <2>3. \A d \in Crs : /\ cr'[d].id = cr[d].id /\ cr'[d].phase = cr[d].phase
                       /\ cr'[d].name = cr[d].name
    BY <1>3, Typed DEF WipeSecret, RemoveSecret, SetState, Cr
  <2>4. \A d \in Crs \ {c} : Stays(d)
    BY <1>3, OthersAreLeftAlone DEF Reconcile, Stays
  <2>7. \A m \in Names : Versions(m)' \subseteq Versions(m) \cup {secrets'[m]}
    <3>1. CASE Publish(Copy(c).name)
      <4>1. \A m \in Names \ {Copy(c).name} : secrets'[m] = secrets[m]
        BY <1>3, <2>0, Typed DEF WipeSecret, RemoveSecret, RemovedSecret
      <4> QED BY <2>0, <3>1, <4>1, PublishVersions
    <3>2. CASE UNCHANGED <<secrets, feed>>
      BY <3>2 DEF Versions
    <3> QED BY <1>3, <3>1, <3>2 DEF WipeSecret, RemoveSecret
  <2>5. CASE Return(c)
    BY <2>1, <2>2, <2>3, <2>4, <2>5, <2>7, ReturnEffect, SecretsLost DEF IsOver
  <2>6. CASE ~Return(c)
    <3>1. Goto(c, "removing") /\ op[c].pc = "wiping"
      BY <1>3, <2>6 DEF WipeSecret, RemoveSecret, At
    <3>2. /\ op'[c].copy = op[c].copy /\ op'[c].id = op[c].id /\ op'[c].value = op[c].value
          /\ op[c].pc # "idle" /\ op'[c].pc \notin InHand
      BY <3>1, GotoEffect DEF Stages, InHand
    <3> QED BY <2>1, <2>2, <2>3, <2>4, <2>7, <3>2, SecretsLost
  <2> QED BY <2>5, <2>6
<1> QED
  BY <1>2, <1>3

(* The next ID is above every other. *)
LEMMA NextIdIsNew ==
  ASSUME TypeOK, SecretInv, issued' = issued + 1
  PROVE  /\ \A t \in tokens : t.id \in Nat /\ t.id < issued'
         /\ \A n \in Names : secrets[n].id \in Nat /\ secrets[n].id < issued'
         /\ \A d \in Crs : cr[d].id \in Nat /\ cr[d].id < issued'
         /\ \A d \in Crs : op[d].id \in Nat /\ op[d].id < issued'
<1>0. issued \in Nat /\ Ids \cup {NoId} \subseteq Nat
  BY Typed DEF Ids, NoId
<1>1. \A t \in tokens : t.id \in Nat
  BY <1>0, Typed DEF Token
<1>2. \A n \in Names : secrets[n].id \in Nat
  BY <1>0, Typed DEF Secret
<1>3. \A d \in Crs : cr[d].id \in Nat
  BY <1>0, Typed DEF Cr
<1>4. \A d \in Crs : op[d].id \in Nat
  BY <1>0, Typed DEF Operator
<1> QED
  BY <1>0, <1>1, <1>2, <1>3, <1>4 DEF SecretInv, IssuedSoFar

(* A token that is issued has an ID that nothing names, and its CR has no secret: if it
   had one, the token that the CR names would be there, unless somebody removed it. *)
LEMMA CreateTokenStep ==
  ASSUME TypeOK, SecretInv, NEW c \in Crs, CreateToken(c)
  PROVE  SecretInv'
<1> DEFINE new == [id |-> issued', value |-> issued', owner |-> c, perms |-> Copy(c).perms]
<1>1. /\ issued \in Nat /\ issued' = issued + 1 /\ issued' # NoId
      /\ tokens' = tokens \cup {new}
      /\ UNCHANGED <<cr, secrets, feed, meddled, overlooked>>
      /\ Found(c) = {} /\ Busy(c) /\ Copy(c).phase = "live"
  BY Typed DEF CreateToken, Working, At, Busy, budgets, NoId
<1>2. /\ op'[c].pc = "created" /\ op'[c].copy = op[c].copy
      /\ op'[c].id = issued' /\ op'[c].value = issued'
  BY CreateTokenEffect
<1>3. \A d \in Crs \ {c} : op'[d] = op[d]
  BY OthersAreLeftAlone DEF Reconcile
<1>4. new.id = issued' /\ new.value = issued' /\ new.owner = c
  OBVIOUS
<1>5. /\ \A t \in tokens : t.id \in Nat /\ t.id < issued'
      /\ \A n \in Names : secrets[n].id \in Nat /\ secrets[n].id < issued'
      /\ \A d \in Crs : cr[d].id \in Nat /\ cr[d].id < issued'
      /\ \A d \in Crs : op[d].id \in Nat /\ op[d].id < issued'
  BY <1>1, NextIdIsNew
<1>14. \A d \in Crs : /\ Undisturbed(d)' = Undisturbed(d)
                     /\ \A n \in Names : OwnedBy(d, n)' = OwnedBy(d, n)
  BY <1>1 DEF Undisturbed, OwnedBy, Versions
<1> HIDE DEF new
<1>6. IssuedSoFar'
  BY <1>1, <1>2, <1>3, <1>4, <1>5 DEF IssuedSoFar
<1>7. Single' /\ Owned' /\ Tagged'
  BY <1>1, <1>2, <1>3, <1>4, <1>5 DEF SecretInv, Single, Owned, Tagged
<1>8. CopiesKeepUp'
  BY <1>1, <1>2, <1>3 DEF SecretInv, CopiesKeepUp, Busy, Copy
<1>9. ValueInHand'
  BY <1>1, <1>2, <1>3, <1>4, <1>5 DEF SecretInv, ValueInHand
<1>10. SecretKnowsToken'
  BY <1>1, <1>14 DEF SecretInv, SecretKnowsToken
<1>11. HandsFull'
  <2>1. Undisturbed(c) => \A n \in Names : ~HasSecret(c, n)
    BY <1>1 DEF SecretInv, TokenBehindSecret, CopiesKeepUp, Found
  <2>2. new \in tokens' /\ tokens \subseteq tokens'
    BY <1>1
  <2> QED BY <1>1, <1>2, <1>3, <1>4, <1>14, <2>1, <2>2 DEF SecretInv, HandsFull, HasSecret
<1>12. TokenBehindSecret'
  BY <1>1, <1>2, <1>3, <1>14 DEF SecretInv, TokenBehindSecret, HasSecret, Busy, Copy
<1>13. SecretStaysTrue'
  BY <1>1, <1>4, <1>5 DEF SecretInv, SecretStaysTrue
<1> QED
  BY <1>6, <1>7, <1>8, <1>9, <1>10, <1>11, <1>12, <1>13 DEF SecretInv

(* New permissions leave the ID, the value and the owner. *)
LEMMA UpdateTokenStep ==
  ASSUME TypeOK, SecretInv, NEW c \in Crs, UpdateToken(c)
  PROVE  SecretInv'
<1>1. PICK t \in tokens :
        tokens' = (tokens \ {t}) \cup {[t EXCEPT !.perms = Copy(c).perms]}
  BY DEF UpdateToken, Found
<1> DEFINE new == [t EXCEPT !.perms = Copy(c).perms]
<1>2. new.id = t.id /\ new.value = t.value /\ new.owner = t.owner
  BY Typed DEF Token
<1>3. UNCHANGED <<cr, issued, secrets, feed, meddled, overlooked>> /\ Busy(c) /\ op[c].pc = "begun"
  BY DEF UpdateToken, Working, At, Busy, budgets
<1>4. op'[c].pc = "updated" /\ op'[c].copy = op[c].copy /\ op'[c].id = op[c].id
  BY UpdateTokenEffect
<1>5. \A d \in Crs \ {c} : op'[d] = op[d]
  BY OthersAreLeftAlone DEF Reconcile
<1>6. tokens' = (tokens \ {t}) \cup {new}
  BY <1>1
<1>0. \A u \in tokens' : \E v \in tokens :
        u.id = v.id /\ u.value = v.value /\ u.owner = v.owner
  BY <1>2, <1>6
<1>16. \A d \in Crs : /\ Undisturbed(d)' = Undisturbed(d)
                     /\ \A n \in Names : OwnedBy(d, n)' = OwnedBy(d, n)
  BY <1>3 DEF Undisturbed, OwnedBy, Versions
<1> HIDE DEF new
<1>7. IssuedSoFar' /\ Owned' /\ Tagged'
  BY <1>0, <1>3, <1>4, <1>5 DEF SecretInv, IssuedSoFar, Owned, Tagged
<1>8. Single'
  BY <1>2, <1>6 DEF SecretInv, Single
<1>9. CopiesKeepUp'
  BY <1>3, <1>4, <1>5 DEF SecretInv, CopiesKeepUp, Busy, Copy
<1>10. ValueInHand'
  BY <1>0, <1>4, <1>5 DEF SecretInv, ValueInHand, InHand
<1>11. SecretKnowsToken'
  BY <1>3, <1>16 DEF SecretInv, SecretKnowsToken
<1>12. \A u \in tokens : \E v \in tokens' : v.id = u.id
  BY <1>2, <1>6
<1>13. HandsFull'
  BY <1>3, <1>4, <1>5, <1>12, <1>16 DEF SecretInv, HandsFull, HasSecret, InHand
<1>14. TokenBehindSecret'
  BY <1>3, <1>4, <1>5, <1>12, <1>16 DEF SecretInv, TokenBehindSecret, HasSecret, Busy, Copy
<1>15. SecretStaysTrue'
  BY <1>0, <1>3 DEF SecretInv, SecretStaysTrue
<1> QED
  BY <1>7, <1>8, <1>9, <1>10, <1>11, <1>13, <1>14, <1>15 DEF SecretInv

(* A rotation gives the token a value that no secret has.  It is safe because no secret
   names the token: one that did would be the CR's own, under the CR's secret name, and
   that one has just been found missing; unless the cache is behind, and then the CR's
   secret counts as overlooked. *)
LEMMA RotateTokenStep ==
  ASSUME TypeOK, SecretInv, NEW c \in Crs, RotateToken(c)
  PROVE  SecretInv'
<1>1. PICK t \in Found(c), id \in {issued', Copy(c).id} :
        /\ tokens' = (tokens \ {t}) \cup {[t EXCEPT !.id = id, !.value = issued']}
        /\ op'[c].pc = "rotated" /\ op'[c].copy = op[c].copy
        /\ op'[c].id = id /\ op'[c].value = issued'
  BY RotateTokenEffect
<1> DEFINE new == [t EXCEPT !.id = id, !.value = issued']
<1>2. t \in tokens /\ t.id = Copy(c).id
  BY DEF Found
<1>3. new.id = id /\ new.value = issued' /\ new.owner = t.owner
  BY <1>2, Typed DEF Token
<1>4. /\ issued \in Nat /\ issued' = issued + 1
      /\ UNCHANGED <<cr, secrets, feed, meddled>>
      /\ ~SecretOf(c).there /\ Busy(c) /\ op[c].pc \notin InHand
  BY Typed DEF RotateToken, Ensuring, Working, At, Busy, InHand, budgets
<1>5. \A d \in Crs \ {c} : op'[d] = op[d]
  BY OthersAreLeftAlone DEF Reconcile
<1>6. tokens' = (tokens \ {t}) \cup {new}
  BY <1>1
<1>7. /\ \A u \in tokens : u.id \in Nat /\ u.id < issued'
      /\ \A n \in Names : secrets[n].id \in Nat /\ secrets[n].id < issued'
      /\ \A d \in Crs : cr[d].id \in Nat /\ cr[d].id < issued'
      /\ \A d \in Crs : op[d].id \in Nat /\ op[d].id < issued'
  BY <1>4, NextIdIsNew
<1>8. t.owner = c /\ t.id = cr[c].id
  BY <1>2, <1>4 DEF SecretInv, CopiesKeepUp, Owned
<1>9. id = issued' \/ id = t.id
  BY <1>1, <1>2
<1>21. /\ \A d \in Crs : Undisturbed(d)' => Undisturbed(d)
       /\ Undisturbed(c)' => ~Behind(Copy(c).name)
  <2>1. \A d \in Crs : overlooked[d] \in Nat
    BY TokenBoundsAssumption DEF TypeOK
  <2>2. overlooked' = overlooked \/ overlooked' = [overlooked EXCEPT ![c] = overlooked[c] + 1]
    BY DEF RotateToken
  <2>3. \A d \in Crs : overlooked'[d] = 0 => overlooked[d] = 0
    BY <2>1, <2>2 DEF TypeOK
  <2>4. Behind(Copy(c).name) => overlooked'[c] # 0
    BY <2>1 DEF RotateToken, TypeOK
  <2>5. meddled' = meddled
    BY <1>4
  <2> QED BY <2>3, <2>4, <2>5 DEF Undisturbed
<1>22. \A d \in Crs, n \in Names : OwnedBy(d, n)' = OwnedBy(d, n)
  BY <1>4 DEF OwnedBy, Versions
<1>10. Undisturbed(c)' => \A n \in Names : ~HasSecret(c, n)
  <2> SUFFICES ASSUME Undisturbed(c)', NEW n \in Names, NEW v \in OwnedBy(c, n)
               PROVE  FALSE
    BY DEF HasSecret
  <2>1. Undisturbed(c) /\ ~Behind(Copy(c).name)
    BY <1>21
  <2>2. n = cr[c].name /\ cr[c].name = Copy(c).name
    BY <1>4, <2>1 DEF SecretInv, SecretKnowsToken, CopiesKeepUp, Undisturbed
  <2>3. v \in Versions(Copy(c).name) /\ v.there
    BY <2>2 DEF OwnedBy
  <2> QED BY <1>4, <2>1, <2>3, ReadsAVersion
<1> HIDE DEF new
<1>11. IssuedSoFar'
  <2>0. id \in Nat /\ id <= issued'
    BY <1>2, <1>4, <1>7, <1>9
  <2>1. \A u \in tokens' : u.id <= issued'
    BY <1>3, <1>4, <1>6, <1>7, <2>0
  <2>2. \A n \in Names : secrets'[n].id <= issued'
    BY <1>4, <1>7
  <2>3. \A d \in Crs : cr'[d].id <= issued'
    BY <1>4, <1>7
  <2>4. \A d \in Crs : op'[d].id <= issued'
    <3>1. op'[c].id <= issued'
      BY <1>1, <2>0
    <3> QED BY <1>4, <1>5, <1>7, <3>1
  <2> QED BY <2>1, <2>2, <2>3, <2>4 DEF IssuedSoFar
<1>12. Single'
  BY <1>3, <1>6, <1>7, <1>9, <1>2 DEF SecretInv, Single
<1>13. Owned'
  BY <1>1, <1>2, <1>3, <1>4, <1>5, <1>6, <1>7, <1>8, <1>9 DEF SecretInv, Owned, Single
<1>14. Tagged'
  BY <1>2, <1>3, <1>4, <1>6, <1>7, <1>9 DEF SecretInv, Tagged
<1>15. CopiesKeepUp'
  BY <1>1, <1>4, <1>5 DEF SecretInv, CopiesKeepUp, Busy, Copy
<1>16. ValueInHand'
  <2> SUFFICES ASSUME NEW d \in Crs, NEW u \in tokens', op'[d].pc \in InHand,
                      u.id = op'[d].id
               PROVE  u.value = op'[d].value
    BY DEF ValueInHand
  <2>1. CASE d = c
    BY <1>1, <1>2, <1>3, <1>6, <1>7, <1>9, <2>1 DEF SecretInv, Single
  <2>2. CASE d # c
    <3>1. u # new
      BY <1>3, <1>2, <1>5, <1>7, <1>8, <1>9, <2>2 DEF SecretInv, Owned
    <3> QED BY <1>5, <1>6, <2>2, <3>1 DEF SecretInv, ValueInHand
  <2> QED BY <2>1, <2>2
<1>17. SecretKnowsToken'
  BY <1>4, <1>21, <1>22 DEF SecretInv, SecretKnowsToken
<1>18. HandsFull'
  <2>1. new \in tokens' /\ \A u \in tokens \ {t} : u \in tokens'
    BY <1>6
  <2>2. \A d \in Crs \ {c} : t.id # op[d].id
    BY <1>2, <1>8 DEF SecretInv, Owned
  <2> QED BY <1>1, <1>3, <1>4, <1>5, <1>10, <1>21, <1>22, <2>1, <2>2
          DEF SecretInv, HandsFull, HasSecret
<1>19. TokenBehindSecret'
  <2>1. \A d \in Crs \ {c} : t.id # cr[d].id
    BY <1>2, <1>8 DEF SecretInv, Owned
  <2>2. \A u \in tokens \ {t} : u \in tokens'
    BY <1>6
  <2> QED BY <1>4, <1>5, <1>10, <1>21, <1>22, <2>1, <2>2
          DEF SecretInv, TokenBehindSecret, HasSecret, Busy, Copy
<1>20. SecretStaysTrue'
  <2> SUFFICES ASSUME NEW n \in Names, NEW u \in tokens', Undisturbed(u.owner)',
                      secrets[n].there, secrets[n].id = u.id
               PROVE  secrets[n].value = u.value
    BY <1>4 DEF SecretStaysTrue, Undisturbed
  <2>1. u # new
    <3>1. SUFFICES ASSUME u = new PROVE FALSE
      OBVIOUS
    <3>2. u.owner = c /\ secrets[n].id = t.id
      BY <1>3, <1>7, <1>8, <1>9, <3>1
    <3>3. secrets[n].of = c
      BY <1>2, <1>8, <3>2 DEF SecretInv, Tagged
    <3>4. HasSecret(c, n)
      BY <3>3 DEF HasSecret, OwnedBy, Versions
    <3> QED BY <1>10, <3>2, <3>4
  <2>2. u \in tokens /\ u.owner \in Crs
    BY <1>6, <2>1, Typed DEF Token
  <2> QED BY <1>21, <2>2 DEF SecretInv, SecretStaysTrue, Undisturbed
<1> QED
  BY <1>11, <1>12, <1>13, <1>14, <1>15, <1>16, <1>17, <1>18, <1>19, <1>20 DEF SecretInv

(* The ID in hand becomes the status's. *)
LEMMA SetIdStep ==
  ASSUME TypeOK, SecretInv, NEW c \in Crs, SetId(c)
  PROVE  SecretInv'
<1>1. \A d \in Crs \ {c} : cr'[d] = cr[d] /\ op'[d] = op[d]
  BY OthersAreLeftAlone DEF Reconcile
<1>2. UNCHANGED <<tokens, issued, secrets, feed, meddled, overlooked>>
      /\ op[c].pc \in {"created", "rotated"}
  BY DEF SetId, At, budgets
<1>5. \A d \in Crs : /\ Undisturbed(d)' = Undisturbed(d)
                    /\ \A n \in Names : OwnedBy(d, n)' = OwnedBy(d, n)
  BY <1>2 DEF Undisturbed, OwnedBy, Versions
<1>6. \A n \in Names : Versions(n)' \subseteq Versions(n)
  BY <1>2 DEF Versions
<1>3. CASE Return(c) /\ cr' = cr
  <2>1. SameCr(c) /\ IsOver(c) /\ \A d \in Crs \ {c} : SameCr(d) /\ Stays(d)
    BY <1>1, <1>3, ReturnEffect DEF SameCr, IsOver, Stays
  <2> QED BY <1>2, <1>6, <2>1, SecretQuiet
<1>4. CASE ~(Return(c) /\ cr' = cr)
  <2>1. /\ op'[c].pc \in {"new", "renewed"}
        /\ op'[c].copy.id = op[c].id
        /\ op'[c].id = op[c].id /\ op'[c].value = op[c].value
        /\ op'[c].copy.phase = op[c].copy.phase
        /\ op'[c].copy.name = op[c].copy.name
        /\ cr'[c].phase = cr[c].phase
        /\ cr'[c].name = cr[c].name
        /\ \/ Fresh(c) /\ cr'[c].id = op[c].id
           \/ cr' = cr /\ Copy(c).id = op[c].id
    BY <1>4, SetIdEffect
  <2>2. cr'[c].id = op[c].id
    BY <1>2, <2>1 DEF SecretInv, CopiesKeepUp, Busy
  <2>3. Undisturbed(c) => /\ \A n \in Names : OwnedBy(c, n) = {}
                          /\ \E t \in tokens : t.id = op[c].id
    BY <1>2 DEF SecretInv, HandsFull, HasSecret, InHand
  <2>4. IssuedSoFar' /\ Single' /\ Tagged' /\ SecretStaysTrue'
    BY <1>1, <1>2, <2>1, <2>2
       DEF SecretInv, IssuedSoFar, Single, Tagged, SecretStaysTrue
  <2>5. Owned'
    BY <1>1, <1>2, <2>1, <2>2 DEF SecretInv, Owned
  <2>6. CopiesKeepUp'
    BY <1>1, <1>2, <2>1, <2>2 DEF SecretInv, CopiesKeepUp, Busy, Copy
  <2>7. ValueInHand'
    BY <1>1, <1>2, <2>1 DEF SecretInv, ValueInHand, InHand
  <2>8. SecretKnowsToken'
    BY <1>1, <1>2, <1>5, <2>3 DEF SecretInv, SecretKnowsToken
  <2>9. HandsFull'
    BY <1>1, <1>2, <1>5, <2>1, <2>3 DEF SecretInv, HandsFull, HasSecret, InHand
  <2>10. TokenBehindSecret'
    BY <1>1, <1>2, <1>5, <2>3 DEF SecretInv, TokenBehindSecret, HasSecret, Busy, Copy
  <2> QED BY <2>4, <2>5, <2>6, <2>7, <2>8, <2>9, <2>10 DEF SecretInv
<1> QED BY <1>3, <1>4

(* The secret gets the value in hand, under the ID that the status has by now. *)
LEMMA CreateSecretStep ==
  ASSUME TypeOK, SecretInv, NEW c \in Crs, CreateSecret(c)
  PROVE  SecretInv'
<1> DEFINE new == [there |-> TRUE, of |-> c, id |-> Copy(c).id, value |-> op[c].value,
                   finalizer |-> TRUE, deleting |-> FALSE]
           m == Copy(c).name
<1>1. /\ op[c].pc \in {"new", "renewed"} /\ m \in Names
      /\ UNCHANGED <<cr, tokens, issued, meddled, overlooked>>
  BY Typed DEF CreateSecret, At, Operator, Copy, Cr, budgets
<1>2. secrets' = [secrets EXCEPT ![m] = new]
  BY DEF CreateSecret
<1>3. secrets'[m] = new /\ \A n \in Names \ {m} : secrets'[n] = secrets[n]
  BY <1>1, <1>2, Typed
<1>4. new.there /\ new.of = c /\ new.id = Copy(c).id /\ new.value = op[c].value
  OBVIOUS
<1>5. \A d \in Crs \ {c} : op'[d] = op[d]
  BY OthersAreLeftAlone DEF Reconcile
<1>6. \/ op'[c].pc = "idle" /\ op'[c].id = NoId
      \/ op'[c].pc = "checked" /\ op'[c].copy = op[c].copy /\ op'[c].id = op[c].id
  BY ReturnEffect, GotoEffect DEF CreateSecret, Stages
<1>7. /\ Copy(c).id = cr[c].id /\ op[c].id = cr[c].id
      /\ ~meddled => m = cr[c].name
      /\ op[c].pc \in InHand /\ Busy(c)
  BY <1>1 DEF SecretInv, CopiesKeepUp, Busy, InHand
<1>8. Undisturbed(c) => \E t \in tokens : t.id = cr[c].id
  BY <1>7 DEF SecretInv, HandsFull
<1>9. /\ \A t \in tokens : t.id = cr[c].id => t.owner = c
      /\ \A t \in tokens : t.id = cr[c].id => t.value = op[c].value
  BY <1>7 DEF SecretInv, Owned, ValueInHand
<1>10. issued \in Nat /\ \A t \in tokens : t.id # NoId
  BY Typed DEF Token, Ids, NoId
<1>19. \A d \in Crs : /\ Undisturbed(d)' = Undisturbed(d)
                     /\ \A n \in Names : \A v \in OwnedBy(d, n)' :
                          v \in OwnedBy(d, n) \/ (d = c /\ n = m /\ v.id = cr[c].id)
  <2>1. \A n \in Names : Versions(n)' \subseteq Versions(n) \cup {secrets'[n]}
    <3>1. Publish(m)
      BY DEF CreateSecret
    <3> QED BY <1>1, <1>3, <3>1, PublishVersions
  <2>2. \A n \in Names \ {m} : Versions(n)' \subseteq Versions(n)
    BY <1>3, <2>1 DEF Versions
  <2>3. \A d \in Crs : Undisturbed(d)' = Undisturbed(d)
    BY <1>1 DEF Undisturbed
  <2>4. new.of = c /\ new.id = cr[c].id
    BY <1>4, <1>7
  <2> HIDE DEF new, m
  <2>5. ASSUME NEW d \in Crs, NEW n \in Names, NEW v \in OwnedBy(d, n)'
        PROVE  v \in OwnedBy(d, n) \/ (d = c /\ n = m /\ v.id = cr[c].id)
    <3>1. v \in Versions(n)' /\ v.there /\ v.of = d
      BY <2>5 DEF OwnedBy
    <3>2. v \in Versions(n) \/ (n = m /\ v = new)
      BY <1>3, <2>1, <2>2, <3>1
    <3> QED BY <2>4, <3>1, <3>2 DEF OwnedBy
  <2> QED BY <2>3, <2>5
<1> HIDE DEF new, m
<1>11. IssuedSoFar' /\ Single' /\ Owned'
  BY <1>1, <1>3, <1>4, <1>5, <1>6, <1>7, <1>10
     DEF SecretInv, IssuedSoFar, Single, Owned, NoId
<1>12. Tagged'
  BY <1>1, <1>3, <1>4, <1>7, <1>9 DEF SecretInv, Tagged
<1>13. CopiesKeepUp'
  BY <1>1, <1>5, <1>6 DEF SecretInv, CopiesKeepUp, Busy, Copy
<1>14. ValueInHand'
  BY <1>1, <1>5, <1>6 DEF SecretInv, ValueInHand, InHand
<1>15. SecretKnowsToken'
  <2> SUFFICES ASSUME NEW d \in Crs, NEW n \in Names, Undisturbed(d), NEW v \in OwnedBy(d, n)'
               PROVE  n = cr[d].name /\ v.id = cr[d].id
    BY <1>1, <1>19 DEF SecretKnowsToken
  <2>1. CASE v \in OwnedBy(d, n)
    BY <2>1 DEF SecretInv, SecretKnowsToken
  <2>2. CASE d = c /\ n = m /\ v.id = cr[c].id
    BY <1>7, <2>2 DEF Undisturbed
  <2> QED BY <1>19, <2>1, <2>2
<1>20. \A d \in Crs \ {c}, n \in Names : HasSecret(d, n)' => HasSecret(d, n)
  BY <1>19 DEF HasSecret
<1>16. HandsFull'
  BY <1>1, <1>5, <1>6, <1>19, <1>20 DEF SecretInv, HandsFull, InHand
<1>17. TokenBehindSecret'
  BY <1>1, <1>5, <1>8, <1>19, <1>20 DEF SecretInv, TokenBehindSecret, Busy, Copy
<1>18. SecretStaysTrue'
  BY <1>1, <1>3, <1>4, <1>7, <1>9 DEF SecretInv, SecretStaysTrue
<1> QED
  BY <1>11, <1>12, <1>13, <1>14, <1>15, <1>16, <1>17, <1>18 DEF SecretInv

(* The value that is read is kept under a new ID only when somebody has meddled, or the CR's
   secret was overlooked: else every version of it names the ID of the CR. *)
LEMMA UpdateSecretStep ==
  ASSUME TypeOK, SecretInv, NEW c \in Crs, UpdateSecret(c)
  PROVE  SecretInv'
<1> DEFINE m == Copy(c).name
           new == [there |-> TRUE, of |-> c, id |-> Copy(c).id, value |-> SecretOf(c).value,
                   finalizer |-> TRUE, deleting |-> Stored(c).deleting]
<1>1. /\ SecretOf(c).there /\ SecretOf(c).of = c /\ SecretOf(c).id # Copy(c).id
      /\ op[c].pc \in {"begun", "updated"}
      /\ m \in Names /\ UNCHANGED <<cr, tokens, issued, meddled, overlooked>>
      /\ secrets' = [secrets EXCEPT ![m] = new]
  BY ReadType DEF UpdateSecret, Outdated, Ensuring, Working, At, budgets
<1>2. Copy(c).id = cr[c].id
  BY <1>1 DEF SecretInv, CopiesKeepUp, Busy
<1>3. ~Undisturbed(c)
  <2>1. SecretOf(c) \in OwnedBy(c, m)
    BY <1>1, ReadsAVersion DEF OwnedBy
  <2> QED BY <1>1, <1>2, <2>1 DEF SecretInv, SecretKnowsToken
<1>4. op'[c].pc = "checked" /\ op'[c].copy = op[c].copy /\ op'[c].id = op[c].id
  BY GotoEffect DEF UpdateSecret, Stages
<1>5. \A d \in Crs \ {c} : op'[d] = op[d]
  BY OthersAreLeftAlone DEF Reconcile
<1>6. secrets'[m].of = c /\ secrets'[m].id = cr[c].id
      /\ \A n \in Names \ {m} : secrets'[n] = secrets[n]
  BY <1>1, <1>2, Typed
<1>13. \A d \in Crs : Undisturbed(d)' = Undisturbed(d)
  BY <1>1 DEF Undisturbed
<1>14. \A d \in Crs \ {c}, n \in Names : OwnedBy(d, n)' \subseteq OwnedBy(d, n)
  <2>1. \A n \in Names : Versions(n)' \subseteq Versions(n) \cup {secrets'[n]}
    <3>1. Publish(m)
      BY DEF UpdateSecret
    <3> QED BY <1>1, <1>6, <3>1, PublishVersions
  <2>2. \A n \in Names \ {m} : Versions(n)' \subseteq Versions(n)
    BY <1>6, <2>1 DEF Versions
  <2> HIDE DEF m
  <2> QED BY <1>6, <2>1, <2>2 DEF OwnedBy
<1> HIDE DEF m, new
<1>7. IssuedSoFar' /\ Single' /\ Owned'
  <2>1. \A n \in Names : secrets'[n].id <= issued
    BY <1>6 DEF SecretInv, IssuedSoFar
  <2>2. tokens' = tokens /\ cr' = cr /\ issued' = issued
    BY <1>1
  <2>3. \A d \in Crs : op'[d].id = op[d].id
    BY <1>4, <1>5
  <2> QED BY <2>1, <2>2, <2>3 DEF SecretInv, IssuedSoFar, Single, Owned
<1>8. Tagged'
  <2>1. tokens' = tokens
    BY <1>1
  <2> QED BY <1>6, <2>1 DEF SecretInv, Tagged, Owned
<1>9. CopiesKeepUp'
  BY <1>1, <1>4, <1>5 DEF SecretInv, CopiesKeepUp, Busy, Copy
<1>10. ValueInHand'
  BY <1>1, <1>4, <1>5 DEF SecretInv, ValueInHand, InHand
<1>11. \A d \in Crs \ {c}, n \in Names : HasSecret(d, n)' => HasSecret(d, n)
  BY <1>14 DEF HasSecret
<1>12. SecretKnowsToken'
  BY <1>1, <1>3, <1>13, <1>14 DEF SecretInv, SecretKnowsToken
<1>15. HandsFull'
  BY <1>1, <1>3, <1>5, <1>11, <1>13 DEF SecretInv, HandsFull
<1>16. TokenBehindSecret'
  BY <1>1, <1>3, <1>5, <1>11, <1>13 DEF SecretInv, TokenBehindSecret, Busy, Copy
<1>17. SecretStaysTrue'
  <2> SUFFICES ASSUME NEW n \in Names, NEW t \in tokens, Undisturbed(t.owner),
                      secrets'[n].there, secrets'[n].id = t.id
               PROVE  secrets'[n].value = t.value
    BY <1>1 DEF SecretStaysTrue, Undisturbed
  <2>1. n # m
    BY <1>3, <1>6 DEF SecretInv, Owned
  <2> QED BY <1>6, <2>1 DEF SecretInv, SecretStaysTrue, Undisturbed
<1> QED
  BY <1>7, <1>8, <1>9, <1>10, <1>12, <1>15, <1>16, <1>17 DEF SecretInv

(* A token goes from Humio when its CR is being deleted, or when somebody has meddled. *)
LEMMA DeleteTokenStep ==
  ASSUME TypeOK, SecretInv, NEW c \in Crs, DeleteToken(c)
  PROVE  SecretInv'
<1>1. /\ op[c].pc = "begun" /\ Copy(c).phase = "deleting"
      /\ tokens' = tokens \ Found(c)
      /\ UNCHANGED <<cr, issued, secrets, feed, meddled, overlooked>>
  BY DEF DeleteToken, Marked, At, budgets
<1>2. /\ op'[c].pc = "wiping" /\ op'[c].copy = op[c].copy /\ op'[c].id = op[c].id
  BY GotoEffect DEF DeleteToken, Stages
<1>3. \A d \in Crs \ {c} : op'[d] = op[d]
  BY OthersAreLeftAlone DEF Reconcile
<1>13. \A d \in Crs : /\ Undisturbed(d)' = Undisturbed(d)
                     /\ \A n \in Names : OwnedBy(d, n)' = OwnedBy(d, n)
  BY <1>1 DEF Undisturbed, OwnedBy, Versions
<1>4. Copy(c).id = cr[c].id /\ cr[c].phase # "live"
  BY <1>1 DEF SecretInv, CopiesKeepUp, Busy
<1>5. \A t \in Found(c) : t \in tokens /\ t.id = cr[c].id /\ t.owner = c
  BY <1>4 DEF Found, SecretInv, Owned
<1>6. IssuedSoFar' /\ Single' /\ Owned' /\ Tagged' /\ SecretStaysTrue'
  <2>1. tokens' \subseteq tokens
    BY <1>1
  <2>2. \A d \in Crs : op'[d].id = op[d].id
    BY <1>2, <1>3
  <2> QED BY <1>1, <2>1, <2>2 DEF SecretInv, IssuedSoFar, Single, Owned, Tagged,
                                  SecretStaysTrue
<1>7. CopiesKeepUp'
  BY <1>1, <1>2, <1>3 DEF SecretInv, CopiesKeepUp, Busy, Copy
<1>8. ValueInHand'
  BY <1>1, <1>2, <1>3 DEF SecretInv, ValueInHand, InHand
<1>9. SecretKnowsToken'
  BY <1>1, <1>13 DEF SecretInv, SecretKnowsToken
<1>10. \A d \in Crs \ {c}, t \in tokens : t.id = op[d].id \/ t.id = cr[d].id => t \in tokens'
  BY <1>1, <1>5 DEF SecretInv, Owned
<1>11. HandsFull'
  BY <1>1, <1>2, <1>3, <1>10, <1>13 DEF SecretInv, HandsFull, HasSecret, InHand
<1>12. TokenBehindSecret'
  BY <1>1, <1>2, <1>3, <1>4, <1>10, <1>13
     DEF SecretInv, TokenBehindSecret, HasSecret, Busy, Copy
<1> QED
  BY <1>6, <1>7, <1>8, <1>9, <1>11, <1>12 DEF SecretInv

(* A token that others remove counts as meddling. *)
LEMMA LoseTokenStep ==
  ASSUME TypeOK, SecretInv, NEW t \in tokens, LoseToken(t)
  PROVE  SecretInv'
<1>1. meddled'
  BY DEF LoseToken, Fault
<1>2. tokens' \subseteq tokens /\ UNCHANGED <<cr, issued, secrets, op>>
  BY DEF LoseToken
<1>3. IssuedSoFar' /\ Single' /\ Owned' /\ Tagged' /\ ValueInHand'
  BY <1>2 DEF SecretInv, IssuedSoFar, Single, Owned, Tagged, ValueInHand
<1>4. CopiesKeepUp'
  BY <1>1, <1>2 DEF SecretInv, CopiesKeepUp, Busy, Copy
<1>5. SecretKnowsToken' /\ HandsFull' /\ TokenBehindSecret' /\ SecretStaysTrue'
  BY <1>1 DEF SecretKnowsToken, HandsFull, TokenBehindSecret, SecretStaysTrue, Undisturbed
<1> QED
  BY <1>3, <1>4, <1>5 DEF SecretInv

(* Every step keeps what the secrets say true. *)
LEMMA SecretStep ==
  ASSUME TypeOK, SecretInv, [Next]_vars
  PROVE  SecretInv'
<1>1. ASSUME NEW c \in Crs, Reconcile(c) \/ ReconcileFails(c)
      PROVE  SecretInv'
  BY <1>1, QuietSteps, LosingSteps, CreateTokenStep, UpdateTokenStep, RotateTokenStep,
     SetIdStep, CreateSecretStep, UpdateSecretStep, DeleteTokenStep DEF Reconcile
<1>2. CASE Environment
  BY <1>2, EditSteps, LosingSteps, LoseTokenStep, CatchingUp DEF Environment
<1>3. CASE UNCHANGED vars
  <2>1. UNCHANGED <<cr, op, tokens, issued, secrets, meddled>>
    BY <1>3 DEF vars, budgets
  <2>3. UNCHANGED overlooked /\ \A n \in Names : Versions(n)' \subseteq Versions(n)
    BY <1>3 DEF vars, budgets, Versions
  <2>2. \A d \in Crs : SameCr(d) /\ Stays(d)
    BY <2>1 DEF SameCr, Stays
  <2> QED BY <2>1, <2>2, <2>3, SecretQuiet
<1> QED
  BY <1>1, <1>2, <1>3 DEF Next

(* Unless somebody removes tokens or renames secrets, or a token was rotated for a secret
   that the cache had yet to show, what a secret says of a live token is true, however many
   resources share a name, however late the cache is and whichever of the three writes of
   ensureTokenSecret is lost: a token is given a new value only when no secret names it. *)
THEOREM SecretsStayTrue == Spec => []SecretStaysTrue
<1>1. Spec => [](TypeOK /\ SecretInv)
  BY TypeInit, TypeStep, SecretInit, SecretStep, PTL DEF Spec
<1>2. SecretInv => SecretStaysTrue
  BY DEF SecretInv
<1> QED
  BY <1>1, <1>2, PTL

(***************************************************************************)
(* The finalizer is kept as Finalizer promises                             *)
(***************************************************************************)
\* A CR that is gone has no finalizer.
GoneIsBare == \A c \in Crs : cr[c].phase = "gone" => ~cr[c].finalizer

PromiseInv == TypeOK /\ FinalizerFirst /\ IssuedSoFar /\ GoneIsBare

\* A step that writes one CR's object moves that CR's stage, and no token's holder.
LEMMA CrWritten ==
  ASSUME TypeOK, GoneIsBare, NEW c \in Crs, NEW object, cr' = [cr EXCEPT ![c] = object],
         tokens' = tokens, object.id = cr[c].id, object.phase = "gone" => ~object.finalizer
  PROVE  /\ Progress' = [Progress EXCEPT ![c] = Stage(object)]
         /\ Holders' = Holders
         /\ GoneIsBare'
<1>1. cr'[c] = object /\ \A d \in Crs \ {c} : cr'[d] = cr[d]
  BY Typed
<1>2. Progress' = [Progress EXCEPT ![c] = Stage(object)]
  <2>1. Progress' = [d \in Crs |-> Stage(cr'[d])]
    BY DEF Progress, Stage
  <2>2. \A d \in Crs : Stage(cr'[d]) = IF d = c THEN Stage(object) ELSE Progress[d]
    BY <1>1 DEF Progress
  <2> QED BY <2>1, <2>2 DEF Progress
<1>3. \A d \in Crs : cr'[d].id = cr[d].id
  BY <1>1
<1>4. Holders' = Holders
  BY <1>3 DEF Holders
<1>5. GoneIsBare'
  BY <1>1 DEF GoneIsBare
<1> QED BY <1>2, <1>4, <1>5

LEMMA PromiseAddFinalizer ==
  ASSUME PromiseInv, NEW c \in Crs, AddFinalizer(c)
  PROVE  GoneIsBare' /\ [Promise!Next]_(Promise!vars)
<1> USE DEF PromiseInv
<1>1. CASE cr' = cr
  BY <1>1 DEF GoneIsBare, AddFinalizer, Promise!vars, Progress, Stage, Holders
<1>2. CASE cr' # cr
  <2> DEFINE object == [cr[c] EXCEPT !.finalizer = TRUE]
  <2>1. /\ cr' = [cr EXCEPT ![c] = object] /\ tokens' = tokens
        /\ cr[c].phase = "live" /\ ~cr[c].finalizer
    BY <1>2 DEF AddFinalizer, Fresh, Copy
  <2>2. cr[c] \in Cr
    BY Typed
  <2>3. object.phase = "live" /\ object.id = cr[c].id /\ Stage(object) = "guarded"
    BY <2>1, <2>2 DEF Cr, Stage
  <2> HIDE DEF object
  <2>4. Progress[c] = "new"
    BY <2>1 DEF Progress, Stage
  <2>5. Promise!Guard(c) /\ GoneIsBare'
    BY <2>1, <2>3, <2>4, CrWritten DEF Promise!Guard
  <2> QED BY <2>5 DEF Promise!Next
<1> QED BY <1>1, <1>2

\* A step that leaves the CRs where they are, and names no token anew.
LEMMA NamesNoToken ==
  ASSUME PromiseInv, Holders' \subseteq Holders,
         \A d \in Crs : cr'[d].phase = cr[d].phase /\ cr'[d].finalizer = cr[d].finalizer
  PROVE  GoneIsBare' /\ [Promise!Next]_(Promise!vars)
<1>1. Progress' = Progress
  BY DEF Progress, Stage
<1>2. Promise!Unmake(Holders \ Holders')
  BY <1>1 DEF Promise!Unmake
<1>3. Holders \ Holders' \in SUBSET Holders
  OBVIOUS
<1> QED BY <1>2, <1>3 DEF Promise!Next, PromiseInv, GoneIsBare

LEMMA PromiseSetId ==
  ASSUME PromiseInv, NEW c \in Crs, SetId(c)
  PROVE  GoneIsBare' /\ [Promise!Next]_(Promise!vars)
<1> USE DEF PromiseInv
<1>1. tokens' = tokens /\ \A d \in Crs \ {c} : cr'[d] = cr[d]
  BY OthersAreLeftAlone DEF SetId, Reconcile
<1>2. cr'[c].phase = cr[c].phase /\ cr'[c].finalizer = cr[c].finalizer
  BY SetIdEffect
<1>3. \A d \in Crs : cr'[d].phase = cr[d].phase /\ cr'[d].finalizer = cr[d].finalizer
  BY <1>1, <1>2
<1>4. CASE Holders' \subseteq Holders
  BY <1>3, <1>4, NamesNoToken
<1>5. CASE ~(Holders' \subseteq Holders)
  <2>1. Holders' = Holders \cup {c}
    BY <1>1, <1>5 DEF Holders
  <2>2. Copy(c).finalizer
    BY DEF SetId, At, FinalizerFirst, AtWork
  <2>3. cr' # cr
    BY <1>1, <1>5 DEF Holders
  <2>4. Fresh(c)
    BY <2>3, SetIdEffect
  <2>5. cr[c].finalizer /\ cr[c].phase \in {"live", "deleting"}
    BY <2>2, <2>4, Typed DEF Fresh, GoneIsBare, Cr
  <2>6. Progress' = Progress /\ Progress[c] \in {"guarded", "deleting"}
    BY <1>3, <2>5 DEF Progress, Stage
  <2>7. Promise!Make(c)
    BY <2>1, <2>6 DEF Promise!Make
  <2> QED BY <1>3, <2>7 DEF Promise!Next, GoneIsBare
<1> QED BY <1>4, <1>5

LEMMA PromiseReleaseCr ==
  ASSUME PromiseInv, NEW c \in Crs, ReleaseCr(c)
  PROVE  GoneIsBare' /\ [Promise!Next]_(Promise!vars)
<1> USE DEF PromiseInv
<1>1. CASE cr' = cr
  BY <1>1 DEF GoneIsBare, ReleaseCr, Promise!vars, Progress, Stage, Holders
<1>2. CASE cr' # cr
  <2> DEFINE object == [cr[c] EXCEPT !.phase = "gone", !.finalizer = FALSE]
  <2>1. /\ cr' = [cr EXCEPT ![c] = object] /\ tokens' = tokens
        /\ cr[c].phase = "deleting" /\ c \notin Holders
    BY <1>2 DEF ReleaseCr, Fresh, Marked, Found, Holders
  <2>2. cr[c] \in Cr
    BY Typed
  <2>3. object.id = cr[c].id /\ Stage(object) = "gone" /\ ~object.finalizer
    BY <2>2 DEF Cr, Stage
  <2> HIDE DEF object
  <2>4. Progress[c] = "deleting"
    BY <2>1 DEF Progress, Stage
  <2>5. Promise!Release(c) /\ GoneIsBare'
    BY <2>1, <2>3, <2>4, CrWritten DEF Promise!Release
  <2> QED BY <2>5 DEF Promise!Next
<1> QED BY <1>1, <1>2

LEMMA PromiseDeleteCr ==
  ASSUME PromiseInv, NEW c \in Crs, DeleteCr(c)
  PROVE  GoneIsBare' /\ [Promise!Next]_(Promise!vars)
<1> USE DEF PromiseInv
<1> DEFINE left == IF cr[c].finalizer THEN "deleting" ELSE "gone"
           object == [cr[c] EXCEPT !.phase = left]
<1>1. cr[c].phase = "live" /\ tokens' = tokens /\ cr' = [cr EXCEPT ![c] = object]
  BY DEF DeleteCr, Edit
<1>2. cr[c] \in Cr
  BY Typed
<1>3. object.phase = left /\ object.finalizer = cr[c].finalizer /\ object.id = cr[c].id
  BY <1>2 DEF Cr
<1> HIDE DEF object
<1>4. Stage(object) = left /\ (object.phase = "gone" => ~object.finalizer)
  BY <1>3 DEF Stage
<1>5. Progress[c] = IF cr[c].finalizer THEN "guarded" ELSE "new"
  BY <1>1 DEF Progress, Stage
<1>6. /\ Progress' = [Progress EXCEPT ![c] = left] /\ Holders' = Holders
      /\ GoneIsBare'
  <2> HIDE DEF left
  <2> QED BY <1>1, <1>3, <1>4, CrWritten
<1>7. left = IF Progress[c] = "new" THEN "gone" ELSE "deleting"
  BY <1>5
<1>8. Promise!Mark(c)
  BY <1>5, <1>6, <1>7 DEF Promise!Mark
<1> QED BY <1>6, <1>8 DEF Promise!Next

\* A token that is issued is of no CR's status yet.
LEMMA IssuedIsNew ==
  ASSUME PromiseInv, issued' = issued + 1, NEW c \in Crs
  PROVE  cr[c].id # issued' /\ cr[c].id <= issued
BY Typed DEF PromiseInv, IssuedSoFar, Cr, Ids, NoId

LEMMA PromiseRotateToken ==
  ASSUME PromiseInv, NEW c \in Crs, RotateToken(c)
  PROVE  GoneIsBare' /\ [Promise!Next]_(Promise!vars)
<1> USE DEF PromiseInv
<1>1. PICK t \in Found(c), id \in {issued', Copy(c).id} :
        tokens' = (tokens \ {t}) \cup {[t EXCEPT !.id = id, !.value = issued']}
  BY RotateTokenEffect
<1>2. t \in Token /\ t \in tokens /\ t.id = Copy(c).id
  BY Typed DEF Found
<1>3. [t EXCEPT !.id = id, !.value = issued'].id = id
  BY <1>2 DEF Token
<1>4. cr' = cr /\ issued' = issued + 1
  BY DEF RotateToken
<1>5. Holders' \subseteq Holders
  <2> SUFFICES ASSUME NEW d \in Crs, NEW u \in tokens', u.id = cr[d].id
               PROVE  \E v \in tokens : v.id = cr[d].id
    BY <1>4 DEF Holders
  <2>1. CASE u \in tokens
    BY <2>1
  <2>2. CASE u.id = id
    BY <1>2, <1>4, <2>2, IssuedIsNew
  <2> QED BY <1>1, <1>3, <2>1, <2>2
<1> QED BY <1>4, <1>5, NamesNoToken

(* Every step is one of Finalizer's, or changes nothing of what it is about. *)
LEMMA StepKeepsPromise ==
  ASSUME PromiseInv, [Next]_vars
  PROVE  GoneIsBare' /\ [Promise!Next]_(Promise!vars)
<1> USE DEF PromiseInv
<1>1. ASSUME NEW c \in Crs, Reconcile(c) \/ ReconcileFails(c)
      PROVE  GoneIsBare' /\ [Promise!Next]_(Promise!vars)
  <2>1. CASE AddFinalizer(c)
    BY <2>1, PromiseAddFinalizer
  <2>2. CASE SetId(c)
    BY <2>2, PromiseSetId
  <2>3. CASE ReleaseCr(c)
    BY <2>3, PromiseReleaseCr
  <2>4. CASE RotateToken(c)
    BY <2>4, PromiseRotateToken
  <2>5. CASE Ends(c)
    <3>1. \A d \in Crs : /\ cr'[d].phase = cr[d].phase /\ cr'[d].finalizer = cr[d].finalizer
                         /\ cr'[d].id = cr[d].id
      BY <1>1, <2>5, OthersAreLeftAlone DEF Ends
    <3>2. Holders' \subseteq Holders
      BY <2>5, <3>1 DEF Ends, Holders
    <3> QED BY <3>1, <3>2, NamesNoToken
  <2>6. CASE CreateToken(c)
    <3>1. /\ cr' = cr /\ issued' = issued + 1
          /\ tokens' = tokens \cup {[id |-> issued', value |-> issued', owner |-> c, perms |-> Copy(c).perms]}
      BY <2>6 DEF CreateToken
    <3>2. Holders' \subseteq Holders
      BY <3>1, IssuedIsNew DEF Holders
    <3> QED BY <3>1, <3>2, NamesNoToken
  <2>7. CASE UpdateToken(c)
    <3>1. PICK t \in Found(c) : tokens' = (tokens \ {t}) \cup {[t EXCEPT !.perms = Copy(c).perms]}
      BY <2>7 DEF UpdateToken
    <3>2. t \in tokens /\ [t EXCEPT !.perms = Copy(c).perms].id = t.id
      BY <3>1, Typed DEF Found, Token
    <3>3. cr' = cr /\ \A u \in tokens' : \E v \in tokens : u.id = v.id
      BY <2>7, <3>1, <3>2 DEF UpdateToken
    <3>4. Holders' \subseteq Holders
      BY <3>3 DEF Holders
    <3> QED BY <3>3, <3>4, NamesNoToken
  <2>8. CASE DeleteToken(c)
    <3>1. cr' = cr /\ tokens' \subseteq tokens
      BY <2>8 DEF DeleteToken
    <3> QED BY <3>1, NamesNoToken DEF Holders
  <2>9. CASE Begin(c) \/ CreateSecret(c) \/ UpdateSecret(c) \/ WipeSecret(c) \/ RemoveSecret(c)
    <3>1. tokens' = tokens /\ \A d \in Crs : /\ cr'[d].phase = cr[d].phase
                                             /\ cr'[d].finalizer = cr[d].finalizer /\ cr'[d].id = cr[d].id
      BY <2>9, Typed DEF Begin, CreateSecret, UpdateSecret, WipeSecret, RemoveSecret, SetState, Cr
    <3> QED BY <3>1, NamesNoToken DEF Holders
  <2> QED
    BY <1>1, <2>1, <2>2, <2>3, <2>4, <2>5, <2>6, <2>7, <2>8, <2>9, EndsOnly DEF Reconcile
<1>2. CASE Environment
  <2>1. ASSUME NEW c \in Crs, DeleteCr(c) PROVE GoneIsBare' /\ [Promise!Next]_(Promise!vars)
    BY <2>1, PromiseDeleteCr
  <2>2. CASE ~\E c \in Crs : DeleteCr(c)
    <3>1. tokens' \subseteq tokens /\ \A d \in Crs : /\ cr'[d].phase = cr[d].phase
                                                     /\ cr'[d].finalizer = cr[d].finalizer /\ cr'[d].id = cr[d].id
      BY <1>2, <2>2, Typed DEF Environment, CollectGarbage, LoseSecret, CacheCatchesUp, LoseToken,
         EditPermissions, EditSecretName, Edit, Cr
    <3> QED BY <3>1, NamesNoToken DEF Holders
  <2> QED BY <2>1, <2>2
<1>3. CASE UNCHANGED vars
  BY <1>3 DEF vars, GoneIsBare, Promise!vars, Progress, Stage, Holders
<1> QED BY <1>1, <1>2, <1>3 DEF Next

LEMMA InitKeepsPromise == Init => GoneIsBare /\ Promise!Init
<1> SUFFICES ASSUME Init PROVE GoneIsBare /\ Promise!Init
  OBVIOUS
<1>1. PICK p \in Permissions, named \in [Crs -> Names] :
        cr = [c \in Crs |-> [phase |-> "live", finalizer |-> FALSE, id |-> NoId,
                             state |-> "", name |-> named[c], perms |-> p]]
  BY DEF Init
<1>2. \A c \in Crs : cr[c].phase = "live" /\ ~cr[c].finalizer
  BY <1>1
<1>3. Progress = [c \in Crs |-> "new"]
  BY <1>2 DEF Progress, Stage
<1>4. Holders = {}
  BY InitEffect DEF Holders
<1> QED BY <1>2, <1>3, <1>4 DEF GoneIsBare, Promise!Init

(* The three controllers implement the finalizer, of the token that the status of a CR names: for
   any CRs, names and permissions, any number of failed calls, crashes, rotated IDs and tokens that
   others remove.  A CR gets an ID, and with it a token to answer for, only under its finalizer. *)
THEOREM TokensKeepPromise == Spec => KeepsPromise
<1>1. Spec => []PromiseInv
  <2>1. Init => PromiseInv
    BY TypeInit, FinalizerInit, SecretInit, InitKeepsPromise DEF PromiseInv, SecretInv
  <2>2. Spec => [](TypeOK /\ SecretInv)
    BY TypeInit, TypeStep, SecretInit, SecretStep, PTL DEF Spec
  <2>3. PromiseInv /\ (TypeOK /\ SecretInv) /\ (TypeOK /\ SecretInv)' /\ [Next]_vars => PromiseInv'
    BY FinalizerStep, StepKeepsPromise DEF PromiseInv, SecretInv
  <2> QED BY <2>1, <2>2, <2>3, PTL DEF Spec
<1>2. PromiseInv /\ [Next]_vars => [Promise!Next]_(Promise!vars)
  BY StepKeepsPromise
<1>3. Init => Promise!Init
  BY InitKeepsPromise
<1> QED BY <1>1, <1>2, <1>3, PTL DEF Spec, KeepsPromise, Promise!Spec

\* What was promised of a CR that is new, and of one that is gone.
BareAtBothEnds ==
  /\ Promise!TypeOK
  /\ Promise!NothingLeft
  /\ \A c \in Crs : Progress[c] = "new" => c \notin Holders

LEMMA PromiseInit == Promise!Init => BareAtBothEnds
BY DEF Promise!Init, BareAtBothEnds, Promise!TypeOK, Promise!NothingLeft

LEMMA PromiseStep == BareAtBothEnds /\ [Promise!Next]_(Promise!vars) => BareAtBothEnds'
<1> SUFFICES ASSUME BareAtBothEnds, [Promise!Next]_(Promise!vars) PROVE BareAtBothEnds'
  OBVIOUS
<1> USE DEF BareAtBothEnds, Promise!TypeOK, Promise!NothingLeft
<1>1. ASSUME NEW c \in Crs, Promise!Guard(c) PROVE BareAtBothEnds'
  BY <1>1 DEF Promise!Guard
<1>2. ASSUME NEW c \in Crs, Promise!Make(c) PROVE BareAtBothEnds'
  BY <1>2 DEF Promise!Make
<1>3. ASSUME NEW c \in Crs, Promise!Mark(c) PROVE BareAtBothEnds'
  BY <1>3 DEF Promise!Mark
<1>4. ASSUME NEW c \in Crs, Promise!Release(c) PROVE BareAtBothEnds'
  BY <1>4 DEF Promise!Release
<1>5. ASSUME NEW S \in SUBSET Holders, Promise!Unmake(S) PROVE BareAtBothEnds'
  BY <1>5 DEF Promise!Unmake
<1>6. CASE UNCHANGED Promise!vars
  BY <1>6 DEF Promise!vars
<1> QED BY <1>1, <1>2, <1>3, <1>4, <1>5, <1>6 DEF Promise!Next

(* What any system that implements the finalizer may rely on, here of the token controllers: no
   live token is the one that the status of a CR that is gone has named. *)
THEOREM TokensLeaveNothing == Spec => []Promise!NothingLeft
<1>1. BareAtBothEnds => Promise!NothingLeft
  BY DEF BareAtBothEnds
<1> QED BY <1>1, TokensKeepPromise, PromiseInit, PromiseStep, PTL DEF KeepsPromise, Promise!Spec
=============================================================================
