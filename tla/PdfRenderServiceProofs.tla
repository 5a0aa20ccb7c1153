----------------------- MODULE PdfRenderServiceProofs -----------------------
(***************************************************************************)
(* What holds of PdfRenderService for every set of pod templates and other *)
(* settings, with and without cert-manager, and for any number of edits    *)
(* and failures.                                                           *)
(***************************************************************************)
EXTENDS PdfRenderService, TLAPS

(***************************************************************************)
(* Types                                                                   *)
(***************************************************************************)
LEMMA StageType ==
  ASSUME TypeOK, NEW s \in Stages, Goto(s)
  PROVE  op' \in Op
BY DEF TypeOK, Op, Goto

LEMMA FinishType ==
  ASSUME TypeOK, NEW s \in States, Finish(s)
  PROVE  op' \in Op
BY DEF TypeOK, Op, Finish, Stages

LEMMA CountersType ==
  ASSUME TypeOK, NoFault
  PROVE  faults' \in 0..MaxFaults /\ edits' \in 0..MaxEdits
BY DEF TypeOK, NoFault

LEMMA FaultType ==
  ASSUME TypeOK, NEW f, Fault(f)
  PROVE  faults' \in 0..MaxFaults /\ edits' \in 0..MaxEdits
<1>1. faults' = faults + 1 /\ faults < MaxFaults /\ faults \in 0..MaxFaults /\ MaxFaults \in Nat
  BY PdfAssumption DEF TypeOK, Fault
<1>2. edits' \in 0..MaxEdits
  BY DEF TypeOK, Fault
<1> QED BY <1>1, <1>2

LEMMA EditType ==
  ASSUME TypeOK, Edit
  PROVE  faults' \in 0..MaxFaults /\ edits' \in 0..MaxEdits
<1>1. edits' = edits + 1 /\ edits < MaxEdits /\ edits \in 0..MaxEdits /\ MaxEdits \in Nat
  BY PdfAssumption DEF TypeOK, Edit
<1>2. faults' \in 0..MaxFaults
  BY DEF TypeOK, Edit
<1> QED BY <1>1, <1>2

(* What a reconcile asks the deployment for is within the bounds. *)
LEMMA EffectiveType ==
  ASSUME NEW s \in PdfSpec, NEW pdf \in BOOLEAN
  PROVE  /\ Effective(s, pdf) \in Replicas
         /\ TLSOn(s) \in BOOLEAN
<1>1. s.replicas \in Replicas /\ 0 \in Replicas
  BY PdfAssumption DEF PdfSpec, Replicas
<1> QED BY <1>1 DEF Effective, TLSOn

(* In the initial states every variable has its type. *)
LEMMA InitType == Init => TypeOK
<1> SUFFICES ASSUME Init PROVE TypeOK
  OBVIOUS
<1>1. gen \in Generations
  <2>1. gen = 1
    BY DEF Init
  <2> QED BY <2>1 DEF Generations
<1>2. op \in Op
  BY <1>1 DEF Init, Op, Stages, States
<1>3. status \in [state : States, observed : Nat]
  BY DEF Init, States
<1>4. faults \in 0..MaxFaults /\ edits \in 0..MaxEdits
  <2>1. faults = 0 /\ edits = 0
    BY DEF Init
  <2> QED BY <2>1, PdfAssumption
<1> QED BY <1>1, <1>2, <1>3, <1>4 DEF Init, TypeOK

(* Every step keeps the types. *)
LEMMA NextType == TypeOK /\ [Next]_vars => TypeOK'
<1> SUFFICES ASSUME TypeOK, [Next]_vars PROVE TypeOK'
  OBVIOUS
<1>0. /\ op.spec \in PdfSpec /\ op.pdf \in BOOLEAN
      /\ op.spec.extra \in Extras /\ op.spec.template \in Templates
  BY DEF TypeOK, Op, PdfSpec
<1>1. CASE Begin
  <2>1. op' \in Op
    BY <1>1 DEF Begin, TypeOK, Op, Stages, States
  <2> QED BY <1>1, <2>1, CountersType DEF Begin, TypeOK
<1>2. CASE SynchronizeTLS
  <2>1. op' \in Op
    BY <1>2, FinishType DEF SynchronizeTLS, States
  <2>2. spec' \in PdfSpec
    BY <1>2 DEF SynchronizeTLS, TypeOK, PdfSpec
  <2>3. gen' \in Generations
    <3>1. gen \in Nat \ {0}
      BY DEF TypeOK, Generations
    <3>2. gen' = gen + 1 \/ gen' = gen
      BY <1>2 DEF SynchronizeTLS
    <3> QED BY <3>1, <3>2 DEF Generations
  <2> QED BY <1>2, <2>1, <2>2, <2>3, CountersType DEF SynchronizeTLS, TypeOK
<1>3. CASE EnsureTLSResource
  <2>1. tls' \subseteq Parts
    <3>1. PICK n \in 1..Len(MakingOrder) : tls' = tls \cup {MakingOrder[n]}
      BY <1>3 DEF EnsureTLSResource
    <3>2. Len(MakingOrder) = 4
      BY DEF MakingOrder
    <3>3. n = 1 \/ n = 2 \/ n = 3 \/ n = 4
      BY <3>1, <3>2
    <3>4. MakingOrder[n] \in {"ca", "issuer", "passphrase", "cert"}
      BY <3>3 DEF MakingOrder
    <3> QED BY <3>1, <3>4 DEF TypeOK, Parts
  <2> QED BY <1>3, <2>1, CountersType DEF EnsureTLSResource, TypeOK
<1>4. CASE ValidateTLS
  <2>1. op' \in Op
    BY <1>4, FinishType, StageType DEF ValidateTLS, States, Stages
  <2> QED BY <1>4, <2>1, CountersType DEF ValidateTLS, TypeOK
<1>5. CASE CleanupTLSResource
  <2>1. tls' \subseteq Parts
    BY <1>5 DEF CleanupTLSResource, TypeOK
  <2> QED BY <1>5, <2>1, CountersType DEF CleanupTLSResource, TypeOK
<1>6. CASE CleanupDone
  <2>1. op' \in Op
    BY <1>6, StageType DEF CleanupDone, Stages
  <2> QED BY <1>6, <2>1, CountersType DEF CleanupDone, TypeOK
<1>7. CASE ReconcileDeployment
  <2>1. op' \in Op
    BY <1>7, StageType DEF ReconcileDeployment, Stages
  <2>2. dep' \in Deployment
    BY <1>0, <1>7, EffectiveType DEF ReconcileDeployment, TypeOK, Deployment
  <2> QED BY <1>7, <2>1, <2>2, CountersType DEF ReconcileDeployment, TypeOK
<1>8. CASE ReconcileService
  <2>1. op' \in Op
    BY <1>8 DEF ReconcileService, TypeOK, Op, Stages
  <2>2. svc' \in Extras
    BY <1>0, <1>8 DEF ReconcileService
  <2> QED BY <1>8, <2>1, <2>2, CountersType DEF ReconcileService, TypeOK
<1>9. CASE ReconcileHPA
  <2>1. op' \in Op
    BY <1>9, FinishType DEF ReconcileHPA, States
  <2>2. hpa' \in Extras \cup {"none"}
    BY <1>0, <1>9 DEF ReconcileHPA
  <2> QED BY <1>9, <2>1, <2>2, CountersType DEF ReconcileHPA, TypeOK
<1>10. CASE PublishStatus
  <2>1. op' \in Op
    BY <1>10, StageType DEF PublishStatus, Stages
  <2>2. status' \in [state : States, observed : Nat]
    BY <1>10 DEF PublishStatus, TypeOK, Op, Generations
  <2> QED BY <1>10, <2>1, <2>2, CountersType DEF PublishStatus, TypeOK
<1>11. CASE CallFails
  <2>1. op' \in Op
    BY <1>11, FinishType DEF CallFails, States
  <2> QED BY <1>11, <2>1, FaultType DEF CallFails, TypeOK
<1>12. CASE Stop
  <2>1. op' \in Op
    BY <1>12, StageType DEF Stop, Stages
  <2> QED BY <1>12, <2>1, FaultType DEF Stop, TypeOK
<1>13. CASE DeploymentCatchesUp
  <2>1. dep' \in Deployment
    BY <1>13 DEF DeploymentCatchesUp, TypeOK, Deployment
  <2> QED BY <1>13, <2>1, CountersType DEF DeploymentCatchesUp, TypeOK
<1>14. CASE PodIsLost
  <2>1. dep.ready - 1 \in Replicas
    BY <1>14, PdfAssumption DEF PodIsLost, TypeOK, Deployment, Replicas
  <2>2. dep' \in Deployment
    BY <1>14, <2>1 DEF PodIsLost, TypeOK, Deployment
  <2> QED BY <1>14, <2>2, FaultType DEF PodIsLost, TypeOK
<1>15. CASE Autoscale
  <2>1. PICK n \in 1..MaxReplicas : dep' = [dep EXCEPT !.replicas = n, !.observed = FALSE]
    BY <1>15 DEF Autoscale
  <2>2. n \in Replicas
    BY PdfAssumption DEF Replicas
  <2>3. dep' \in Deployment
    BY <2>1, <2>2 DEF TypeOK, Deployment
  <2> QED BY <1>15, <2>3, CountersType DEF Autoscale, TypeOK
<1>16. CASE IssueCertificate
  <2>1. tls' \subseteq Parts
    BY <1>16 DEF IssueCertificate, TypeOK, Parts
  <2> QED BY <1>16, <2>1, CountersType DEF IssueCertificate, TypeOK
<1>17. CASE EditSpec
  <2>1. gen' \in Generations
    BY <1>17 DEF EditSpec, TypeOK, Generations
  <2> QED BY <1>17, <2>1, EditType DEF EditSpec, TypeOK
<1>18. CASE EditCluster
  BY <1>18, EditType DEF EditCluster, TypeOK
<1>19. CASE UNCHANGED vars
  BY <1>19 DEF vars, TypeOK
<1> QED BY <1>1, <1>2, <1>3, <1>4, <1>5, <1>6, <1>7, <1>8, <1>9, <1>10, <1>11, <1>12, <1>13,
           <1>14, <1>15, <1>16, <1>17, <1>18, <1>19 DEF Next, Reconcile

(* Every variable keeps its type (the state that humiopdfrenderservice_controller.go:237 to
   571 reads and writes). *)
THEOREM PdfTypeCorrect == Spec => []TypeOK
BY InitType, NextType, PTL DEF Spec

(***************************************************************************)
(* A certificate before the pods that use it                               *)
(***************************************************************************)
\* Between ValidateTLS and the deployment the secret stays where it was seen.
SecretSeen == At("deploy") /\ TLSOn(op.spec) => "secret" \in tls

\* On the way that leads to the clean-up TLS is off.
CleanupIsOff == At("cleanup") => ~TLSOn(op.spec)

SecretInv == SecretSeen /\ CleanupIsOff

(* Nothing that the controller cleans up is the secret. *)
LEMMA SecretStays ==
  ASSUME CleanupTLSResource, "secret" \in tls
  PROVE  "secret" \in tls'
<1>1. PICK n \in 1..Len(CleaningOrder) : tls' = tls \ {CleaningOrder[n]}
  BY DEF CleanupTLSResource
<1>2. Len(CleaningOrder) = 3
  BY DEF CleaningOrder
<1>3. n = 1 \/ n = 2 \/ n = 3
  BY <1>1, <1>2
<1>4. CleaningOrder[n] # "secret"
  BY <1>3 DEF CleaningOrder
<1> QED BY <1>1, <1>4

(* The secret that was seen stays. *)
LEMMA SecretStep == TypeOK /\ SecretInv /\ [Next]_vars => SecretInv'
<1> SUFFICES ASSUME TypeOK, SecretInv, [Next]_vars PROVE SecretInv'
  OBVIOUS
<1> USE DEF SecretInv, SecretSeen, CleanupIsOff, At, TLSOn
<1>0. op \in Op
  BY DEF TypeOK
<1>1. CASE Begin
  BY <1>0, <1>1 DEF Begin, Op
<1>2. CASE ValidateTLS
  BY <1>0, <1>2 DEF ValidateTLS, Goto, Finish, Op
<1>3. CASE CleanupTLSResource
  BY <1>3, SecretStays DEF CleanupTLSResource
<1>4. CASE CleanupDone
  BY <1>0, <1>4 DEF CleanupDone, Goto, Op
<1>5. CASE SynchronizeTLS \/ ReconcileDeployment \/ ReconcileService \/ ReconcileHPA
           \/ PublishStatus \/ CallFails \/ Stop
  BY <1>0, <1>5 DEF SynchronizeTLS, ReconcileDeployment, ReconcileService, ReconcileHPA,
                    PublishStatus, CallFails, Stop, Goto, Finish, Op
<1>6. CASE EnsureTLSResource \/ IssueCertificate
  BY <1>6 DEF EnsureTLSResource, IssueCertificate
<1>7. CASE DeploymentCatchesUp \/ PodIsLost \/ Autoscale \/ EditSpec \/ EditCluster
           \/ UNCHANGED vars
  BY <1>7 DEF DeploymentCatchesUp, PodIsLost, Autoscale, EditSpec, EditCluster, vars
<1> QED BY <1>1, <1>2, <1>3, <1>4, <1>5, <1>6, <1>7 DEF Next, Reconcile

(* A deployment starts to serve TLS in ReconcileDeployment only. *)
LEMMA CertificateStep ==
  TypeOK /\ SecretInv /\ [Next]_vars => [~dep.tls /\ dep'.tls => "secret" \in tls]_vars
<1> SUFFICES ASSUME TypeOK, SecretInv, [Next]_vars, ~dep.tls, dep'.tls
             PROVE  "secret" \in tls
  OBVIOUS
<1>0. dep \in Deployment
  BY DEF TypeOK
<1>1. CASE ReconcileDeployment
  BY <1>0, <1>1 DEF ReconcileDeployment, SecretInv, SecretSeen, Deployment
<1>2. CASE DeploymentCatchesUp \/ PodIsLost \/ Autoscale
  BY <1>0, <1>2 DEF DeploymentCatchesUp, PodIsLost, Autoscale, Deployment
<1>3. CASE Begin \/ SynchronizeTLS \/ EnsureTLSResource \/ ValidateTLS \/ CleanupTLSResource
           \/ CleanupDone
  BY <1>3 DEF Begin, SynchronizeTLS, EnsureTLSResource, ValidateTLS, CleanupTLSResource,
              CleanupDone
<1>4. CASE ReconcileService \/ ReconcileHPA \/ PublishStatus \/ CallFails \/ Stop
           \/ IssueCertificate \/ EditSpec \/ EditCluster \/ UNCHANGED vars
  BY <1>4 DEF ReconcileService, ReconcileHPA, PublishStatus, CallFails, Stop, IssueCertificate,
              EditSpec, EditCluster, vars
<1> QED BY <1>1, <1>2, <1>3, <1>4 DEF Next, Reconcile

(* Pods serve TLS only when their certificate is there (validateTLSConfiguration at
   humiopdfrenderservice_controller.go:1914 comes before the deployment, and the clean-up at
   :2121 does not touch the secret). *)
THEOREM CertificatesComeFirst == Spec => CertificateFirst
<1>1. Init => SecretInv
  <2> SUFFICES ASSUME Init PROVE SecretInv
    OBVIOUS
  <2>1. op.pc = "idle"
    BY DEF Init
  <2> QED BY <2>1 DEF SecretInv, SecretSeen, CleanupIsOff, At
<1>2. TypeOK /\ SecretInv /\ [Next]_vars => SecretInv'
  BY SecretStep
<1>3. TypeOK /\ SecretInv /\ [Next]_vars => [~dep.tls /\ dep'.tls => "secret" \in tls]_vars
  BY CertificateStep
<1> QED BY <1>1, <1>2, <1>3, PdfTypeCorrect, PTL DEF Spec, CertificateFirst

(***************************************************************************)
(* What Running says                                                       *)
(***************************************************************************)
\* A reconcile that read the current generation read the current spec.
ReadIsOfItsGeneration ==
  ~At("idle") => op.gen =< gen /\ (op.gen = gen => op.spec = spec)

DeploymentIsMade == dep.there /\ dep.template = op.spec.template /\ dep.tls = TLSOn(op.spec)

\* What has been made stays made until the reconcile is over.
MadeSoFar ==
  /\ At("service") => DeploymentIsMade
  /\ At("hpa") => DeploymentIsMade /\ svc = op.spec.extra
  /\ At("publish") /\ op.final = "Running" =>
       \/ DeploymentIsMade /\ svc = op.spec.extra
       \/ status = [state |-> "Running", observed |-> op.gen]

RunningInv == ReadIsOfItsGeneration /\ MadeSoFar

(* What a reconcile read stays what is there, until someone edits it. *)
LEMMA ReadStep == TypeOK /\ ReadIsOfItsGeneration /\ [Next]_vars => ReadIsOfItsGeneration'
<1> SUFFICES ASSUME TypeOK, ReadIsOfItsGeneration, [Next]_vars PROVE ReadIsOfItsGeneration'
  OBVIOUS
<1>0. op \in Op /\ gen \in Nat \ {0} /\ op.gen \in Nat \ {0}
  BY DEF TypeOK, Op, Generations
<1>1. CASE Begin
  <2>1. gen' = gen /\ spec' = spec /\ op'.gen = gen /\ op'.spec = spec
    BY <1>1 DEF Begin
  <2> QED BY <2>1, <1>0 DEF ReadIsOfItsGeneration
<1>2. CASE SynchronizeTLS
  <2>1. op'.gen = op.gen /\ op'.spec = op.spec /\ ~At("idle")
    BY <1>0, <1>2 DEF SynchronizeTLS, Finish, Op, At
  <2>2. CASE gen = op.gen
    <3>1. gen' = gen + 1
      BY <1>2, <2>2 DEF SynchronizeTLS
    <3> QED BY <1>0, <2>1, <2>2, <3>1 DEF ReadIsOfItsGeneration
  <2>3. CASE gen # op.gen
    BY <1>0, <1>2, <2>1, <2>3 DEF SynchronizeTLS, ReadIsOfItsGeneration
  <2> QED BY <2>2, <2>3
<1>3. CASE EditSpec
  <2>1. gen' = gen + 1 /\ op' = op
    BY <1>3 DEF EditSpec
  <2> QED BY <1>0, <2>1 DEF ReadIsOfItsGeneration, At
<1>4. CASE UNCHANGED <<spec, gen>> /\ op'.gen = op.gen /\ op'.spec = op.spec
           /\ (At("idle") => At("idle")')
  BY <1>4 DEF ReadIsOfItsGeneration
<1>5. CASE ValidateTLS \/ CleanupDone \/ ReconcileDeployment \/ ReconcileService \/ ReconcileHPA
  BY <1>0, <1>4, <1>5 DEF ValidateTLS, CleanupDone, ReconcileDeployment, ReconcileService,
                          ReconcileHPA, Goto, Finish, Op, At
<1>6. CASE PublishStatus \/ CallFails \/ Stop
  BY <1>0, <1>4, <1>6 DEF PublishStatus, CallFails, Stop, Goto, Finish, Op, At
<1>7. CASE EnsureTLSResource \/ CleanupTLSResource \/ DeploymentCatchesUp \/ PodIsLost \/ Autoscale
           \/ IssueCertificate \/ EditCluster \/ UNCHANGED vars
  BY <1>4, <1>7 DEF EnsureTLSResource, CleanupTLSResource, DeploymentCatchesUp, PodIsLost,
                    Autoscale, IssueCertificate, EditCluster, vars, At
<1> QED BY <1>1, <1>2, <1>3, <1>5, <1>6, <1>7 DEF Next, Reconcile

(* What a reconcile has made stays made. *)
LEMMA MadeStep == TypeOK /\ MadeSoFar /\ [Next]_vars => MadeSoFar'
<1> SUFFICES ASSUME TypeOK, MadeSoFar, [Next]_vars PROVE MadeSoFar'
  OBVIOUS
<1>0. op \in Op /\ dep \in Deployment /\ status \in [state : States, observed : Nat]
  BY DEF TypeOK
<1> USE DEF MadeSoFar, DeploymentIsMade, At, TLSOn
<1>1. CASE Begin
  <2>1. CASE op'.pc # "publish"
    BY <1>1, <2>1 DEF Begin
  <2>2. CASE op'.pc = "publish"
    BY <1>1, <2>2 DEF Begin, AlreadyRunning
  <2> QED BY <2>1, <2>2
<1>2. CASE SynchronizeTLS
  BY <1>0, <1>2 DEF SynchronizeTLS, Finish, Op
<1>3. CASE ValidateTLS \/ CleanupDone
  BY <1>0, <1>3 DEF ValidateTLS, CleanupDone, Goto, Finish, Op
<1>4. CASE ReconcileDeployment
  <2>1. op'.pc = "service" /\ op'.spec = op.spec
    BY <1>0, <1>4 DEF ReconcileDeployment, Goto, Op
  <2>2. dep'.there /\ dep'.template = op.spec.template /\ dep'.tls = TLSOn(op.spec)
    BY <1>0, <1>4 DEF ReconcileDeployment, Deployment
  <2> QED BY <2>1, <2>2
<1>5. CASE ReconcileService
  BY <1>0, <1>5 DEF ReconcileService, Op
<1>6. CASE ReconcileHPA
  BY <1>0, <1>6 DEF ReconcileHPA, Finish, Op
<1>7. CASE PublishStatus \/ CallFails \/ Stop
  BY <1>0, <1>7 DEF PublishStatus, CallFails, Stop, Goto, Finish, Op
<1>8. CASE DeploymentCatchesUp \/ PodIsLost \/ Autoscale
  <2>1. /\ dep'.there = dep.there /\ dep'.template = dep.template /\ dep'.tls = dep.tls
        /\ UNCHANGED <<op, svc, status>>
    BY <1>0, <1>8 DEF DeploymentCatchesUp, PodIsLost, Autoscale, Deployment
  <2> QED BY <2>1
<1>9. CASE EnsureTLSResource \/ CleanupTLSResource \/ IssueCertificate \/ EditSpec \/ EditCluster
           \/ UNCHANGED vars
  BY <1>9 DEF EnsureTLSResource, CleanupTLSResource, IssueCertificate, EditSpec, EditCluster, vars
<1> QED BY <1>1, <1>2, <1>3, <1>4, <1>5, <1>6, <1>7, <1>8, <1>9 DEF Next, Reconcile

RunningStep ==
  /\ status' # status /\ status'.state = "Running"
  /\ gen = op.gen
  => /\ dep.there /\ dep.template = spec.template /\ dep.tls = TLSOn(spec)
     /\ svc = spec.extra

(* Only PublishStatus writes the state. *)
LEMMA RunningStepHolds == TypeOK /\ RunningInv /\ [Next]_vars => [RunningStep]_vars
<1> SUFFICES ASSUME TypeOK, RunningInv, [Next]_vars,
                    status' # status, status'.state = "Running", gen = op.gen
             PROVE  /\ dep.there /\ dep.template = spec.template /\ dep.tls = TLSOn(spec)
                    /\ svc = spec.extra
  BY DEF RunningStep
<1>1. PublishStatus
  BY DEF Next, Reconcile, Begin, SynchronizeTLS, EnsureTLSResource, ValidateTLS,
         CleanupTLSResource, CleanupDone, ReconcileDeployment, ReconcileService, ReconcileHPA,
         CallFails, Stop, DeploymentCatchesUp, PodIsLost, Autoscale, IssueCertificate, EditSpec,
         EditCluster, vars
<1>2. status' = [state |-> "Running", observed |-> op.gen] /\ op.final = "Running" /\ At("publish")
  BY <1>1 DEF PublishStatus
<1>3. DeploymentIsMade /\ svc = op.spec.extra
  BY <1>2 DEF RunningInv, MadeSoFar
<1>4. op.spec = spec
  BY <1>2 DEF RunningInv, ReadIsOfItsGeneration, At
<1> QED BY <1>3, <1>4 DEF DeploymentIsMade

(* A newly published Running tells the truth about the current spec unless the spec was
   edited during the reconcile (Reconcile and updateStatus at
   humiopdfrenderservice_controller.go:237 and 2291). *)
THEOREM RunningTellsTheTruth == Spec => RunningIsTrue
<1>1. Init => RunningInv
  <2> SUFFICES ASSUME Init PROVE RunningInv
    OBVIOUS
  <2>1. op.pc = "idle"
    BY DEF Init
  <2> QED BY <2>1 DEF RunningInv, ReadIsOfItsGeneration, MadeSoFar, At
<1>2. TypeOK /\ RunningInv /\ [Next]_vars => RunningInv'
  BY ReadStep, MadeStep DEF RunningInv
<1>3. TypeOK /\ RunningInv /\ [Next]_vars => [RunningStep]_vars
  BY RunningStepHolds
<1>4. [][RunningStep]_vars => RunningIsTrue
  BY PTL DEF RunningStep, RunningIsTrue
<1> QED BY <1>1, <1>2, <1>3, <1>4, PdfTypeCorrect, PTL DEF Spec
=============================================================================
