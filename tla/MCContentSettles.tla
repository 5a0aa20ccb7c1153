-------------------------- MODULE MCContentSettles --------------------------
(***************************************************************************)
(* What the resources of things in Humio come to in the end. A behaviour is *)
(* one of Packages, the host of this module, or of one other part, whose   *)
(* variables v1, v2, ... stand for, in the order of its vars; all others   *)
(* rest meanwhile, so that the states of the parts add up and do not multiply. *)
(***************************************************************************)
EXTENDS Packages, MCValues

CONSTANT Parts  \* the parts that a run has

VARIABLES
  part,  \* which of them a behaviour is about; never changes
  v1, v2, v3, v4, v5, v6, v7, v8, v9

others == <<v1, v2, v3, v4, v5, v6, v7, v8, v9>>
all == <<part, vars, others>>

Is(p) == part = p

\* The last variables, which a part has no use for.
Free1 == v9 = 0
Free2 == v8 = 0 /\ Free1
Free9 == v1 = 0 /\ v2 = 0 /\ v3 = 0 /\ v4 = 0 /\ v5 = 0 /\ v6 = 0 /\ v7 = 0 /\ Free2

Fetched == INSTANCE Packages WITH
  hp <- v1, registry <- v2, views <- v3, installed <- v4, op <- v5, faults <- v6, edits <- v7,
  Views <- OneTwo, Versions <- {1, 2}, Policy <- "overwrite", ByRef <- FALSE,
  FaultKinds <- {"call", "stop"}, MaxFaults <- 1,
  EditKinds <- {"package", "delete", "registry", "view"}, MaxEdits <- 1
FetchedStep(A) == Is("registry") /\ A /\ UNCHANGED <<part, vars, v8, v9>>

Entities == INSTANCE EntityController WITH
  kind <- v1, cr <- v2, objects <- v3, ids <- v4, work <- v5, faults <- v6, edits <- v7,
  Crs <- {"a"}, Kinds <- Settling, Names <- {"n"}, Places <- {"p", "q"}, Specs <- {"s", "t"},
  Invalid <- {}, MaxIds <- 0, FaultKinds <- {"cluster", "humio", "crash", "loss"}, MaxFaults <- 1,
  Edits <- {"spec", "place", "allow", "delete"}, MaxEdits <- 2
EntitiesStep(A) == Is("entities") /\ A /\ UNCHANGED <<part, vars, v8, v9>>

Namesakes == INSTANCE EntityController WITH
  kind <- v1, cr <- v2, objects <- v3, ids <- v4, work <- v5, faults <- v6, edits <- v7,
  Crs <- {"a", "b"}, Kinds <- {HumioUser, HumioAlert, HumioView}, Names <- {"n"}, Places <- {"p"},
  Specs <- {"s"}, Invalid <- {}, MaxIds <- 0, FaultKinds <- {"cluster", "crash", "loss"},
  MaxFaults <- 2, Edits <- {"delete"}, MaxEdits <- 1
NamesakesStep(A) == Is("namesakes") /\ A /\ UNCHANGED <<part, vars, v8, v9>>

Searches == INSTANCE ScheduledSearch WITH
  hss <- v1, cluster <- v2, known <- v3, humio <- v4, op <- v5, faults <- v6, edits <- v7,
  AlphaSpecs <- SomeAlpha, BetaSpecs <- SomeBeta, Validates <- TRUE,
  FaultKinds <- {"call", "stop"}, MaxFaults <- 1, MaxEdits <- 2
SearchesStep(A) == Is("searches") /\ A /\ UNCHANGED <<part, vars, v8, v9>>

Collections == INSTANCE Telemetry WITH
  wanted <- v1, shown <- v2, ht <- v3, op <- v4, cop <- v5, since <- v6, faults <- v7,
  edits <- v8, Types <- DataTypes, Valid <- ValidTypes, Known <- KnownTypes, Configs <- Apart,
  Horizon <- 2, FaultKinds <- {"stop"}, MaxFaults <- 1, MaxEdits <- 1
CollectionsStep(A) == Is("telemetry") /\ A /\ UNCHANGED <<part, vars, v9>>

Webhooks == INSTANCE WebhookSetup WITH
  files <- v1, generated <- v2, service <- v3, vwc <- v4, crd <- v5, proc <- v6, faults <- v7,
  edits <- v8, FaultKinds <- {"call", "restart", "replace"}, MaxFaults <- 1, MaxEdits <- 1
WebhooksStep(A) == Is("webhooks") /\ A /\ UNCHANGED <<part, vars, v9>>

Assignments == INSTANCE RoleAssignments WITH
  cr <- v1, spec <- v2, role <- v3, groups <- v4, assigned <- v5, proc <- v6, edits <- v7,
  faults <- v8, Roles <- {"a", "b"}, OtherRoles <- {}, Groups <- {1, 2}, Views <- {1, 2},
  ViewRoles <- TRUE, Present <- {1, 2}, SpecsOf <- Sharing, MaxEdits <- 2, MaxFaults <- 1
AssignmentsStep(A) == Is("roles") /\ A /\ UNCHANGED <<part, vars, v9>>

SystemRoles == INSTANCE RoleAssignments WITH
  cr <- v1, spec <- v2, role <- v3, groups <- v4, assigned <- v5, proc <- v6, edits <- v7,
  faults <- v8, Roles <- {"a", "b"}, OtherRoles <- {}, Groups <- {1, 2}, Views <- {0},
  ViewRoles <- FALSE, Present <- {1, 2}, SpecsOf <- Whole, MaxEdits <- 1, MaxFaults <- 1
SystemRolesStep(A) == Is("system roles") /\ A /\ UNCHANGED <<part, vars, v9>>

Retention == INSTANCE RepositoryRetention WITH
  cr <- v1, spec <- v2, exists <- v3, repo <- v4, data <- v5, proc <- v6, edits <- v7,
  faults <- v8, Top <- 2, Specs <- SomeLimits, MaxEdits <- 1, MaxFaults <- 1
RetentionStep(A) == Is("retention") /\ A /\ UNCHANGED <<part, vars, v9>>

Connections == INSTANCE SearchConnections WITH
  spec <- v1, deleted <- v2, secrets <- v3, exists <- v4, view <- v5, proc <- v6, edits <- v7,
  faults <- v8, Ids <- {"here", "there"}, KindsOf <- OneEach, Tags <- {0}, KeyOf <- TokenKeys,
  Secrets <- Rotated, MaxEdits <- 1, MaxFaults <- 1
ConnectionsStep(A) == Is("connections") /\ A /\ UNCHANGED <<part, vars, v9>>

Ingest == INSTANCE IngestTokens WITH
  cr <- v1, spec <- v2, repos <- v3, tokens <- v4, made <- v5, secrets <- v6, proc <- v7,
  edits <- v8, faults <- v9, CRs <- {"a"}, Repos <- {"r", "q"}, RepoGoes <- FALSE,
  Specs <- AskedTokens, MaxTokens <- 5, MaxEdits <- 2, MaxFaults <- 1
IngestStep(A) == Is("ingest") /\ A /\ UNCHANGED <<part, vars>>

ASSUME PartsAssumption ==
  /\ Fetched!PackagesAssumption
  /\ Entities!EntityAssumption
  /\ Namesakes!EntityAssumption
  /\ Searches!SearchAssumption
  /\ Collections!TelemetryAssumption
  /\ Webhooks!WebhookAssumption
  /\ Assignments!RoleAssumption
  /\ SystemRoles!RoleAssumption
  /\ Retention!RetentionAssumption
  /\ Connections!ConnectionAssumption
  /\ Ingest!IngestAssumption

\* The package rests where it starts when the behaviour is about another part.
MCInit ==
  /\ part \in Parts
  /\ Init
  /\ Is("packages") \/ (hp.version = 1 /\ hp.targets = Views)
  /\ \/ Is("packages") /\ Free9
     \/ Is("registry") /\ Fetched!Init /\ Free2
     \/ Is("entities") /\ Entities!Init /\ Free2
     \/ Is("namesakes") /\ Namesakes!Init /\ Free2
     \/ Is("searches") /\ Searches!Init /\ Free2
     \/ Is("telemetry") /\ Collections!Init /\ Free1
     \/ Is("webhooks") /\ Webhooks!Init /\ Free1
     \/ Is("roles") /\ Assignments!Init /\ Free1
     \/ Is("system roles") /\ SystemRoles!Init /\ Free1
     \/ Is("retention") /\ Retention!Init /\ Free1
     \/ Is("connections") /\ Connections!Init /\ Free1
     \/ Is("ingest") /\ Ingest!Init

MCNext ==
  \/ Is("packages") /\ Next /\ UNCHANGED <<part, others>>
  \/ FetchedStep(Fetched!Next)
  \/ EntitiesStep(Entities!Next)
  \/ NamesakesStep(Namesakes!Next)
  \/ SearchesStep(Searches!Next)
  \/ CollectionsStep(Collections!Next)
  \/ WebhooksStep(Webhooks!Next)
  \/ AssignmentsStep(Assignments!Next)
  \/ SystemRolesStep(SystemRoles!Next)
  \/ RetentionStep(Retention!Next)
  \/ ConnectionsStep(Connections!Next)
  \/ IngestStep(Ingest!Next)

\* A reconcile that runs goes on, and its queue hands out every resource again and again.
MCFairness ==
  /\ WF_all(\/ FetchedStep(Fetched!Reconcile)
            \/ EntitiesStep(Entities!Reconcile) \/ NamesakesStep(Namesakes!Reconcile)
            \/ SearchesStep(Searches!Reconcile) \/ CollectionsStep(Collections!TelemetryStep)
            \/ WebhooksStep(Webhooks!Run)
            \/ AssignmentsStep(Assignments!Work) \/ SystemRolesStep(SystemRoles!Work)
            \/ RetentionStep(Retention!Operator)
            \/ ConnectionsStep(Connections!Reconcile \/ Connections!Work)
            \/ IngestStep(Ingest!Work))
  /\ WF_all(\/ FetchedStep(Fetched!ReconcileRegistry) \/ SearchesStep(Searches!PublishVersion)
            \/ CollectionsStep(Collections!ClusterStep))
  /\ WF_all(CollectionsStep(Collections!Tick))
  /\ \A s \in Ingest!SecretNames : WF_all(IngestStep(Ingest!CollectSecret(s)))
  /\ \A g \in 1..2 : WF_all(AssignmentsStep(Assignments!GroupComes(g)) \/ SystemRolesStep(SystemRoles!GroupComes(g)))
  /\ SF_all(\/ EntitiesStep(Entities!Begin("a")) \/ NamesakesStep(Namesakes!Begin("a"))
            \/ AssignmentsStep(Assignments!Reconcile("a") \/ Assignments!ReconcileDeleted("a"))
            \/ SystemRolesStep(SystemRoles!Reconcile("a") \/ SystemRoles!ReconcileDeleted("a"))
            \/ IngestStep(Ingest!Reconcile("a") \/ Ingest!ReconcileDeleted("a"))
            \/ CollectionsStep(Collections!UpdateRead))
  /\ SF_all(\/ NamesakesStep(Namesakes!Begin("b"))
            \/ AssignmentsStep(Assignments!Reconcile("b") \/ Assignments!ReconcileDeleted("b"))
            \/ SystemRolesStep(SystemRoles!Reconcile("b") \/ SystemRoles!ReconcileDeleted("b")))

MCSpec == MCInit /\ [][MCNext]_all /\ MCFairness

(***************************************************************************)
(* Properties                                                              *)
(***************************************************************************)
(* In the end Humio has what the resources say, whatever call failed, wherever the operator died,
   and whoever edited a resource meanwhile: packages whose archive can be fetched are installed,
   entities exist under the name and in the place asked for unless they are being deleted and may
   not be, searches are what is written in either version, telemetry is collected or turned off as
   the cluster says, webhooks have the certificate of the server that runs, roles have their
   permissions and places, repositories the limits they may have, views the connections they need
   with no update that never ends, and ingest tokens their secrets. *)
EntitiesSettle == <>[](
  /\ Is("registry") => Fetched!Installs /\ Fetched!Settled
  /\ Is("entities") => Entities!AllSettled
  /\ Is("namesakes") => Namesakes!NamesakesSettled
  /\ Is("searches") => Searches!Settled
  /\ Is("telemetry") => Collections!Settled
  /\ Is("webhooks") => Webhooks!Works
  /\ Is("roles") => Assignments!Settled
  /\ Is("system roles") => SystemRoles!Settled
  /\ Is("retention") => Retention!Settled
  /\ Is("connections") => Connections!Settled /\ Connections!AtRest
  /\ Is("ingest") => Ingest!Settled /\ Ingest!Gone)
=============================================================================
