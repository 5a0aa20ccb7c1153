-------------------------- MODULE PdfRenderService --------------------------
(***************************************************************************)
(* The controller of HumioPdfRenderService: it copies the TLS settings of  *)
(* a cluster, makes the resources that TLS takes, a deployment, a service  *)
(* and an autoscaler, decides on a state, and writes that state when it    *)
(* leaves, whichever way.  The replicas are none while no HumioCluster of  *)
(* the namespace renders PDFs.                                             *)
(*                                                                         *)
(* One action is one call that changes something, with the reads that lead *)
(* to it.  The pod template is one value, and so is all that no comparison *)
(* of hashes covers: the limits of the autoscaler, the type of the service *)
(* and the annotations.                                                    *)
(***************************************************************************)
EXTENDS Integers, Sequences

CONSTANTS
  Templates,    \* values of the pod template of the spec
  Extras,       \* values of what is not in the pod template
  MaxReplicas,  \* bound on spec.replicas, and of the autoscaler
  Scalers,      \* may the spec ask for an autoscaler: a subset of BOOLEAN
  CertManager,  \* is cert-manager there?
  FaultKinds, MaxFaults,  \* which failures may happen, and a bound on how many
  MaxEdits      \* bound on changes by users

ASSUME PdfAssumption ==
  /\ "none" \notin Extras
  /\ MaxReplicas \in Nat /\ MaxFaults \in Nat /\ MaxEdits \in Nat
  /\ Scalers \subseteq BOOLEAN /\ CertManager \in BOOLEAN

VARIABLES
  spec, gen,   \* the spec of the HumioPdfRenderService, and its generation
  status,      \* its state and observedGeneration
  cluster,     \* does the HumioCluster render PDFs, and does it use TLS?
  tls,         \* the resources that TLS takes
  dep,         \* the deployment and its status
  svc, hpa,    \* what the service and the autoscaler were made from
  op,          \* where the operator is, with what it has read
  faults, edits

vars == <<spec, gen, status, cluster, tls, dep, svc, hpa, op, faults, edits>>

States == {"", "Running", "Configuring", "ConfigError", "ScaledDown"}
Replicas == 0..MaxReplicas
PdfSpec == [replicas : Replicas, scaler : Scalers, template : Templates, extra : Extras,
         tls : {"unset", "on", "off"}]
Generations == Nat \ {0}
Deployment == [there : BOOLEAN, replicas : Replicas, template : Templates, tls : BOOLEAN,
               ready : Replicas, observed : BOOLEAN]
Parts == {"ca", "issuer", "passphrase", "cert", "secret"}
Stages == {"idle", "sync", "tls", "cleanup", "deploy", "service", "hpa", "publish"}
Op == [pc : Stages, spec : PdfSpec, gen : Generations, pdf : BOOLEAN, waiting : BOOLEAN,
       final : States]

(* Every variable has its type. *)
TypeOK ==
  /\ spec \in PdfSpec /\ gen \in Generations
  /\ status \in [state : States, observed : Nat]
  /\ cluster \in [pdf : BOOLEAN, tls : BOOLEAN]
  /\ tls \subseteq Parts
  /\ dep \in Deployment
  /\ svc \in Extras \cup {"none"} /\ hpa \in Extras \cup {"none"}
  /\ op \in Op
  /\ faults \in 0..MaxFaults /\ edits \in 0..MaxEdits

(***************************************************************************)
(* What follows from a spec                                                *)
(***************************************************************************)
TLSOn(s) == s.tls = "on" \/ (s.tls = "unset" /\ CertManager)
Effective(s, pdf) == IF pdf THEN s.replicas ELSE 0
Scaled(s, pdf) == s.scaler /\ pdf
Synchronizes == spec.tls = "unset" /\ cluster.pdf /\ cluster.tls

At(stage) == op.pc = stage
Goto(stage) == op' = [op EXCEPT !.pc = stage]
Finish(state) == op' = [op EXCEPT !.pc = "publish", !.final = state]

Fault(f) ==
  /\ f \in FaultKinds
  /\ faults < MaxFaults
  /\ faults' = faults + 1
  /\ UNCHANGED edits
NoFault == UNCHANGED <<faults, edits>>

Init ==
  /\ spec \in PdfSpec /\ gen = 1
  /\ status = [state |-> "", observed |-> 0]
  /\ cluster \in [pdf : BOOLEAN, tls : BOOLEAN]
  /\ tls = {}
  /\ dep \in {d \in Deployment : d.template = spec.template /\ d.replicas = 0 /\ d.ready = 0
                                 /\ ~d.there /\ ~d.tls /\ ~d.observed}
  /\ svc = "none" /\ hpa = "none"
  /\ op = [pc |-> "idle", spec |-> spec, gen |-> 1, pdf |-> FALSE, waiting |-> FALSE, final |-> ""]
  /\ faults = 0 /\ edits = 0

(***************************************************************************)
(* Reconcile                                                               *)
(***************************************************************************)
\* A service that runs as it should is left alone: then only the state is published.
AlreadyRunning ==
  LET replicas == Effective(spec, cluster.pdf) IN
  /\ status = [state |-> "Running", observed |-> gen]
  /\ dep.there /\ dep.ready >= replicas
  /\ dep.template = spec.template /\ dep.tls = TLSOn(spec)
  /\ (hpa # "none") = Scaled(spec, cluster.pdf)
  /\ Scaled(spec, cluster.pdf) \/ dep.replicas = replicas
  /\ replicas = 0 => dep.replicas = 0

Begin ==
  /\ At("idle")
  /\ op' = [pc |-> IF Synchronizes THEN "sync"
                   ELSE IF AlreadyRunning THEN "publish"
                   ELSE IF TLSOn(spec) THEN "tls" ELSE "cleanup",
            spec |-> spec, gen |-> gen, pdf |-> cluster.pdf, waiting |-> FALSE, final |-> "Running"]
  /\ UNCHANGED <<spec, gen, status, cluster, tls, dep, svc, hpa>> /\ NoFault

\* The update is refused if the resource has changed.  The reconcile is over either way.
SynchronizeTLS ==
  /\ At("sync")
  /\ IF gen = op.gen
     THEN spec' = [spec EXCEPT !.tls = "on"] /\ gen' = gen + 1 /\ Finish("")
     ELSE UNCHANGED <<spec, gen>> /\ Finish("ConfigError")
  /\ UNCHANGED <<status, cluster, tls, dep, svc, hpa>> /\ NoFault

\* What cert-manager needs is made in this order.
MakingOrder == <<"ca", "issuer", "passphrase", "cert">>
Made(n) == \A i \in 1..n : MakingOrder[i] \in tls

EnsureTLSResource ==
  /\ At("tls") /\ CertManager
  /\ \E n \in 1..Len(MakingOrder) :
       /\ Made(n - 1) /\ ~Made(n)
       /\ tls' = tls \cup {MakingOrder[n]}
  /\ UNCHANGED <<spec, gen, status, cluster, dep, svc, hpa, op>> /\ NoFault

\* validateTLSConfiguration: cert-manager is given some time.
ValidateTLS ==
  /\ At("tls")
  /\ CertManager => Made(Len(MakingOrder))
  /\ \/ "secret" \in tls /\ Goto("deploy")
     \/ "secret" \notin tls /\ CertManager /\ Finish("Configuring")
     \/ "secret" \notin tls /\ Finish("ConfigError")
  /\ UNCHANGED <<spec, gen, status, cluster, tls, dep, svc, hpa>> /\ NoFault

\* What is cleaned up when TLS is off, in this order.  The secrets of the CA and of the
\* certificate have not the labels they are looked for by.
CleaningOrder == <<"cert", "issuer", "passphrase">>
Cleaned(n) == \A i \in 1..n : CleaningOrder[i] \notin tls

CleanupTLSResource ==
  /\ At("cleanup")
  /\ \E n \in 1..Len(CleaningOrder) :
       /\ Cleaned(n - 1) /\ ~Cleaned(n)
       /\ tls' = tls \ {CleaningOrder[n]}
  /\ UNCHANGED <<spec, gen, status, cluster, dep, svc, hpa, op>> /\ NoFault

CleanupDone ==
  /\ At("cleanup")
  /\ Cleaned(Len(CleaningOrder))
  /\ Goto("deploy")
  /\ UNCHANGED <<spec, gen, status, cluster, tls, dep, svc, hpa>> /\ NoFault

\* Mutant: a pod template that differs in its TLS volumes counts as the same.
ReconcileDeployment_IgnoresTLS ==
  /\ At("deploy")
  /\ LET replicas == IF ~dep.there \/ ~op.spec.scaler THEN Effective(op.spec, op.pdf) ELSE dep.replicas
         same == dep.there /\ dep.replicas = replicas /\ dep.template = op.spec.template
     IN dep' = IF same THEN dep
               ELSE [dep EXCEPT !.there = TRUE, !.replicas = replicas, !.observed = FALSE,
                                !.template = op.spec.template, !.tls = TLSOn(op.spec)]
  /\ Goto("service")
  /\ UNCHANGED <<spec, gen, status, cluster, tls, svc, hpa>> /\ NoFault

\* Mutant: the replicas are those of the spec, whether a cluster renders PDFs or not.
ReconcileDeployment_AlwaysUp ==
  /\ At("deploy")
  /\ LET replicas == IF ~dep.there \/ ~op.spec.scaler THEN op.spec.replicas ELSE dep.replicas
     IN dep' = [dep EXCEPT !.there = TRUE, !.replicas = replicas, !.observed = FALSE,
                           !.template = op.spec.template, !.tls = TLSOn(op.spec)]
  /\ Goto("service")
  /\ UNCHANGED <<spec, gen, status, cluster, tls, svc, hpa>> /\ NoFault

\* With an autoscaler in the spec the replicas of a deployment that is there are left alone.
ReconcileDeployment ==
  /\ At("deploy")
  /\ LET replicas == IF ~dep.there \/ ~op.spec.scaler THEN Effective(op.spec, op.pdf) ELSE dep.replicas
         same == /\ dep.there /\ dep.replicas = replicas
                 /\ dep.template = op.spec.template /\ dep.tls = TLSOn(op.spec)
     IN dep' = IF same THEN dep
               ELSE [dep EXCEPT !.there = TRUE, !.replicas = replicas, !.observed = FALSE,
                                !.template = op.spec.template, !.tls = TLSOn(op.spec)]
  /\ Goto("service")
  /\ UNCHANGED <<spec, gen, status, cluster, tls, svc, hpa>> /\ NoFault

\* The deployment is read again before the service is looked at.
ReconcileService ==
  /\ At("service")
  /\ svc' = op.spec.extra
  /\ op' = [op EXCEPT !.pc = "hpa",
              !.waiting = dep.ready < Effective(op.spec, op.pdf) \/ ~dep.observed]
  /\ UNCHANGED <<spec, gen, status, cluster, tls, dep, hpa>> /\ NoFault

ReconcileHPA ==
  /\ At("hpa")
  /\ hpa' = IF Scaled(op.spec, op.pdf) THEN op.spec.extra ELSE "none"
  /\ Finish(IF Effective(op.spec, op.pdf) = 0 THEN "ScaledDown"
            ELSE IF op.waiting THEN "Configuring" ELSE "Running")
  /\ UNCHANGED <<spec, gen, status, cluster, tls, dep, svc>> /\ NoFault

\* updateStatus: the generation is the one of the resource as it is now.
PublishStatus ==
  /\ At("publish")
  /\ status' = [state |-> op.final, observed |-> gen]
  /\ Goto("idle")
  /\ UNCHANGED <<spec, gen, cluster, tls, dep, svc, hpa>> /\ NoFault

\* Any call fails: that is a ConfigError.
CallFails ==
  /\ op.pc \notin {"idle", "publish"}
  /\ Fault("call")
  /\ Finish("ConfigError")
  /\ UNCHANGED <<spec, gen, status, cluster, tls, dep, svc, hpa>>

\* The write of the status fails, which nobody is told, or the operator dies.
Stop ==
  /\ ~At("idle")
  /\ Fault("stop")
  /\ Goto("idle")
  /\ UNCHANGED <<spec, gen, status, cluster, tls, dep, svc, hpa>>

(***************************************************************************)
(* Kubernetes, cert-manager and the users                                  *)
(***************************************************************************)
DeploymentCatchesUp ==
  /\ dep.there /\ (dep.ready # dep.replicas \/ ~dep.observed)
  /\ dep' = [dep EXCEPT !.ready = dep.replicas, !.observed = TRUE]
  /\ UNCHANGED <<spec, gen, status, cluster, tls, svc, hpa, op>> /\ NoFault

PodIsLost ==
  /\ Fault("pod_lost")
  /\ dep.ready > 0
  /\ dep' = [dep EXCEPT !.ready = @ - 1]
  /\ UNCHANGED <<spec, gen, status, cluster, tls, svc, hpa, op>>

\* An autoscaler does nothing for a deployment of no replicas.
Autoscale ==
  /\ hpa # "none" /\ dep.there /\ dep.replicas > 0
  /\ \E n \in 1..MaxReplicas :
       n # dep.replicas /\ dep' = [dep EXCEPT !.replicas = n, !.observed = FALSE]
  /\ UNCHANGED <<spec, gen, status, cluster, tls, svc, hpa, op>> /\ NoFault

\* By cert-manager, or by the user where there is none.
IssueCertificate ==
  /\ CertManager => {"cert", "issuer"} \subseteq tls
  /\ "secret" \notin tls
  /\ tls' = tls \cup {"secret"}
  /\ UNCHANGED <<spec, gen, status, cluster, dep, svc, hpa, op>> /\ NoFault

Edit == edits < MaxEdits /\ edits' = edits + 1 /\ UNCHANGED faults

EditSpec ==
  /\ Edit
  /\ spec' \in PdfSpec \ {spec}
  /\ gen' = gen + 1
  /\ UNCHANGED <<status, cluster, tls, dep, svc, hpa, op>>

EditCluster ==
  /\ Edit
  /\ cluster' \in [pdf : BOOLEAN, tls : BOOLEAN] \ {cluster}
  /\ UNCHANGED <<spec, gen, status, tls, dep, svc, hpa, op>>

Reconcile ==
  \/ Begin \/ SynchronizeTLS \/ EnsureTLSResource \/ ValidateTLS \/ CleanupTLSResource
  \/ CleanupDone \/ ReconcileDeployment \/ ReconcileService \/ ReconcileHPA \/ PublishStatus

Next ==
  \/ Reconcile \/ CallFails \/ Stop
  \/ DeploymentCatchesUp \/ PodIsLost \/ Autoscale \/ IssueCertificate
  \/ EditSpec \/ EditCluster

\* What the operator owns, the clusters and the secrets are watched, and what has not
\* finished is requeued, so that there is always another reconcile.
Fairness == WF_vars(Reconcile) /\ WF_vars(DeploymentCatchesUp) /\ WF_vars(IssueCertificate)

Spec == Init /\ [][Next]_vars /\ Fairness

(***************************************************************************)
(* Properties                                                              *)
(***************************************************************************)
(* Pods that serve TLS are made only when there is a certificate for them, which is looked
   for several calls, and perhaps several reconciles, after it was asked for. *)
CertificateFirst == [][~dep.tls /\ dep'.tls => "secret" \in tls]_vars

(* A state Running that is newly published, with nobody editing meanwhile, says of the
   current spec that its pods and its service are there. *)
RunningIsTrue == [][
  /\ status' # status /\ status'.state = "Running"
  /\ gen = op.gen
  => /\ dep.there /\ dep.template = spec.template /\ dep.tls = TLSOn(spec)
     /\ svc = spec.extra]_vars

(* When nobody edits any more, and whatever failed before, the deployment, the service and
   the autoscaler become what the spec and the clusters ask for, and the status says so;
   how many replicas there are is up to the autoscaler where the spec has one.  (A service
   that was scaled to none by a reconcile that did not get to its status, after one that ran
   during the edit had taken the generation for observed, stays Running.) *)
Settles == <>[](
  LET replicas == Effective(spec, cluster.pdf) IN
  /\ dep.there /\ dep.template = spec.template /\ dep.tls = TLSOn(spec)
  /\ svc # "none"
  /\ (hpa # "none") = Scaled(spec, cluster.pdf)
  /\ ~spec.scaler =>
       /\ dep.replicas = replicas
       /\ status.observed = gen
       /\ status.state \in IF replicas = 0 THEN {"ScaledDown", "Running"} ELSE {"Running"})
=============================================================================
