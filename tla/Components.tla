----------------------------- MODULE Components -----------------------------
(***************************************************************************)
(* The components that do not meet, side by side. A behaviour is one of    *)
(* ScheduledSearch or of one other component; the variables that it has no *)
(* use for rest meanwhile, so that the states of the parts add up and do   *)
(* not multiply.                                                           *)
(***************************************************************************)
EXTENDS ScheduledSearch

CONSTANTS
  Parts,                      \* the components at hand
  EditsIn, FaultsIn, HurtsIn, \* per part, how many of each may happen
  Nodes, VolumePods, NodeCount, MaxClaims, OnNodeDelete, TLS, LocalVolumes, CacheLag,
  Hurts,                                                              \* VolumeClaims
  Licenses, Outages, MaxTokens,                                       \* AdminToken
  PoolSize, PodNames, FirstPool, CacheLags, PodsStay, CertsGo, CAGoes,   \* NodeCertificates
  Pools, Main, Editable, PodsWait,                                    \* SupportingObjects
  Resources, NameOf, ClusterOf, Clusters, Ext, Watcher, Slash, SecretGoes,   \* HumioClients
  AccountPods, Managed, AccountGoes,                                  \* ServiceAccounts
  Roles, OtherRoles, Groups, Views, ViewRoles, Present, SpecsOf(_),   \* RoleAssignments
  Top, RepoSpecs,                                                     \* RepositoryRetention
  Ids, KindsOf, Tags, KeyOf, Secrets,                                 \* SearchConnections
  CRs, Repos, RepoGoes, TokenSpecs, MaxMade,                          \* IngestTokens
  Types, ValidData, Known, TelemetrySpecs, Horizon, SendFaults,      \* Telemetry
  SetupFaults                                                         \* WebhookSetup

VARIABLES
  part,  \* which of them a behaviour is about; never changes
  node, claim, pod, unseen, podStatus, hurts, wanted, license, shown, state, user, works, made,
  secret, seen, away, tls, hosts, ca, issuer, certs, secrets, pods, plain, proc, spec, services,
  maps, perms, budgets, ingresses, authority, token, slots, worked, annotations, account,
  revision, cr, role, groups, assigned, exists, repo, data, deleted, view, repos, tokens, ht,
  cop, since, files, generated, service, vwc, crd

all == <<
  part, vars, node, claim, pod, unseen, podStatus, hurts, wanted, license, shown, state, user,
  works, made, secret, seen, away, tls, hosts, ca, issuer, certs, secrets, pods, plain, proc,
  spec, services, maps, perms, budgets, ingresses, authority, token, slots, worked, annotations,
  account, revision, cr, role, groups, assigned, exists, repo, data, deleted, view, repos,
  tokens, ht, cop, since, files, generated, service, vwc, crd>>

Volumes == INSTANCE VolumeClaims WITH
  Names <- VolumePods, Local <- LocalVolumes,
  MaxHurts <- HurtsIn["claims"], MaxFaults <- FaultsIn["claims"]

Admin == INSTANCE AdminToken WITH
  MaxEdits <- EditsIn["admin"], MaxFaults <- FaultsIn["admin"]

Certs == INSTANCE NodeCertificates WITH
  Nodes <- PoolSize, Names <- PodNames, PodsWait <- PodsStay, MaxEdits <- EditsIn["certs"],
  MaxFaults <- FaultsIn["certs"], MaxHurts <- HurtsIn["certs"]

Objects == INSTANCE SupportingObjects WITH
  MaxEdits <- EditsIn["objects"], MaxFaults <- FaultsIn["objects"], MaxHurts <- HurtsIn["objects"]

Clients == INSTANCE HumioClients WITH
  MaxEdits <- EditsIn["clients"], MaxFaults <- FaultsIn["clients"]

Accounts == INSTANCE ServiceAccounts WITH
  Pods <- AccountPods,
  MaxEdits <- EditsIn["accounts"], MaxFaults <- FaultsIn["accounts"],
  MaxHurts <- HurtsIn["accounts"]

Assignments == INSTANCE RoleAssignments WITH
  MaxEdits <- EditsIn["roles"], MaxFaults <- FaultsIn["roles"]

Retention == INSTANCE RepositoryRetention WITH
  Specs <- RepoSpecs, MaxEdits <- EditsIn["retention"], MaxFaults <- FaultsIn["retention"]

Connections == INSTANCE SearchConnections WITH
  MaxEdits <- EditsIn["connections"], MaxFaults <- FaultsIn["connections"]

Ingest == INSTANCE IngestTokens WITH
  Specs <- TokenSpecs, MaxTokens <- MaxMade, MaxEdits <- EditsIn["ingest"],
  MaxFaults <- FaultsIn["ingest"]

Collections == INSTANCE Telemetry WITH
  Configs <- TelemetrySpecs, Valid <- ValidData, FaultKinds <- SendFaults,
  MaxEdits <- EditsIn["telemetry"], MaxFaults <- FaultsIn["telemetry"]

Webhooks == INSTANCE WebhookSetup WITH
  FaultKinds <- SetupFaults, MaxEdits <- EditsIn["webhooks"], MaxFaults <- FaultsIn["webhooks"]

ASSUME PartsAssumption ==
  /\ Volumes!ClaimsAssumption
  /\ Admin!AdminTokenAssumption
  /\ Certs!NodesAssumption
  /\ Objects!PoolsAssumption
  /\ Clients!ClustersAssumption
  /\ Accounts!PodsAssumption
  /\ Assignments!RoleAssumption
  /\ Retention!RetentionAssumption
  /\ Connections!ConnectionAssumption
  /\ Ingest!IngestAssumption
  /\ Collections!TelemetryAssumption
  /\ Webhooks!WebhookAssumption

Is(p) == part = p

\* What these parts have rests in the behaviours of the others.  A part that begins with "late",
\* "lost" or "system" is a second instance of a component, with other constants (MCComponents).
Of(parts, v) == part \notin parts => UNCHANGED v

Rest ==
  /\ Of({"searches"}, <<hss, cluster, known, humio>>)
  /\ Of({"searches", "claims", "late claims", "admin", "telemetry"}, op)
  /\ Of({"searches", "admin", "certs", "lost certs", "objects", "clients", "accounts",
         "roles", "system roles", "retention", "connections", "ingest", "telemetry",
         "webhooks"}, edits)
  /\ Of({"claims", "late claims"}, <<node, claim, pod, unseen, podStatus>>)
  /\ Of({"claims", "late claims", "certs", "lost certs", "objects", "accounts"}, hurts)
  /\ Of({"admin", "telemetry"}, <<wanted, shown>>)
  /\ Of({"admin"}, <<license, user, works, away>>)
  /\ Of({"admin", "clients"}, <<state, secret>>)
  /\ Of({"admin", "certs", "lost certs", "ingest"}, made)
  /\ Of({"admin", "certs", "lost certs"}, seen)
  /\ Of({"certs", "lost certs", "clients"}, tls)
  /\ Of({"certs", "lost certs"}, <<hosts, ca, issuer, certs, plain>>)
  /\ Of({"certs", "lost certs", "connections", "ingest"}, secrets)
  /\ Of({"certs", "lost certs", "objects", "accounts"}, pods)
  /\ Of({"certs", "lost certs", "objects", "clients", "accounts", "roles", "system roles",
         "retention", "connections", "ingest", "webhooks"}, proc)
  /\ Of({"objects", "roles", "system roles", "retention", "connections", "ingest"}, spec)
  /\ Of({"objects"}, <<services, maps, perms, budgets, ingresses>>)
  /\ Of({"clients"}, <<authority, token, slots, worked>>)
  /\ Of({"accounts"}, <<annotations, account, revision>>)
  /\ Of({"roles", "system roles", "retention", "ingest"}, cr)
  /\ Of({"roles", "system roles"}, <<role, groups, assigned>>)
  /\ Of({"retention", "connections"}, exists)
  /\ Of({"retention"}, <<repo, data>>)
  /\ Of({"connections"}, <<deleted, view>>)
  /\ Of({"ingest"}, <<repos, tokens>>)
  /\ Of({"telemetry"}, <<ht, cop, since>>)
  /\ Of({"webhooks"}, <<files, generated, service, vwc, crd>>)

Blank ==
  /\ part \notin {"searches", "claims", "late claims", "admin", "telemetry"} => op = 0
  /\ part \notin {"searches", "admin", "certs", "lost certs", "objects", "clients", "accounts",
                  "roles", "system roles", "retention", "connections", "ingest", "telemetry",
                  "webhooks"} => edits = 0
  /\ part \notin {"claims", "late claims"} => node = 0 /\ claim = 0 /\ pod = 0 /\ unseen = 0 /\ podStatus = 0
  /\ part \notin {"claims", "late claims", "certs", "lost certs", "objects", "accounts"} => hurts = 0
  /\ part \notin {"admin", "telemetry"} => wanted = 0 /\ shown = 0
  /\ part \notin {"admin"} => license = 0 /\ user = 0 /\ works = 0 /\ away = 0
  /\ part \notin {"admin", "clients"} => state = 0 /\ secret = 0
  /\ part \notin {"admin", "certs", "lost certs", "ingest"} => made = 0
  /\ part \notin {"admin", "certs", "lost certs"} => seen = 0
  /\ part \notin {"certs", "lost certs", "clients"} => tls = 0
  /\ part \notin {"certs", "lost certs"} => hosts = 0 /\ ca = 0 /\ issuer = 0 /\ certs = 0 /\ plain = 0
  /\ part \notin {"certs", "lost certs", "connections", "ingest"} => secrets = 0
  /\ part \notin {"certs", "lost certs", "objects", "accounts"} => pods = 0
  /\ part \notin {"certs", "lost certs", "objects", "clients", "accounts", "roles", "system roles",
                  "retention", "connections", "ingest", "webhooks"} => proc = 0
  /\ part \notin {"objects", "roles", "system roles", "retention", "connections", "ingest"} => spec = 0
  /\ part \notin {"objects"} => services = 0 /\ maps = 0 /\ perms = 0 /\ budgets = 0 /\ ingresses = 0
  /\ part \notin {"clients"} => authority = 0 /\ token = 0 /\ slots = 0 /\ worked = 0
  /\ part \notin {"accounts"} => annotations = 0 /\ account = 0 /\ revision = 0
  /\ part \notin {"roles", "system roles", "retention", "ingest"} => cr = 0
  /\ part \notin {"roles", "system roles"} => role = 0 /\ groups = 0 /\ assigned = 0
  /\ part \notin {"retention", "connections"} => exists = 0
  /\ part \notin {"retention"} => repo = 0 /\ data = 0
  /\ part \notin {"connections"} => deleted = 0 /\ view = 0
  /\ part \notin {"ingest"} => repos = 0 /\ tokens = 0
  /\ part \notin {"telemetry"} => ht = 0 /\ cop = 0 /\ since = 0
  /\ part \notin {"webhooks"} => files = 0 /\ generated = 0 /\ service = 0 /\ vwc = 0 /\ crd = 0

\* What the searches have, when the behaviour is about another part.
NoSearches == hss = NoResource /\ humio = NoSearch /\ cluster = "new" /\ known = ""

PartsInit ==
  /\ part \in Parts
  /\ ~Is("searches") => NoSearches
  /\ \/ Is("searches") /\ Init
     \/ Is("claims") /\ Volumes!Init
     \/ Is("admin") /\ Admin!Init
     \/ Is("certs") /\ Certs!Init
     \/ Is("objects") /\ Objects!Init
     \/ Is("clients") /\ Clients!Init
     \/ Is("accounts") /\ Accounts!Init
     \/ Is("roles") /\ Assignments!Init
     \/ Is("retention") /\ Retention!Init
     \/ Is("connections") /\ Connections!Init
     \/ Is("ingest") /\ Ingest!Init
     \/ Is("telemetry") /\ Collections!Init
     \/ Is("webhooks") /\ Webhooks!Init
  /\ Blank

Step(p, A) == Is(p) /\ A /\ UNCHANGED part /\ Rest

PartsNext ==
  \/ Step("searches", Next)
  \/ Step("claims", Volumes!Next)
  \/ Step("admin", Admin!Next)
  \/ Step("certs", Certs!Next)
  \/ Step("objects", Objects!Next)
  \/ Step("clients", Clients!Next)
  \/ Step("accounts", Accounts!Next)
  \/ Step("roles", Assignments!Next)
  \/ Step("retention", Retention!Next)
  \/ Step("connections", Connections!Next)
  \/ Step("ingest", Ingest!Next)
  \/ Step("telemetry", Collections!Next)
  \/ Step("webhooks", Webhooks!Next)

PartsSpec == PartsInit /\ [][PartsNext]_all

(***************************************************************************)
(* Properties                                                              *)
(***************************************************************************)
(* Every variable of the component at hand has its type. *)
Typed ==
  /\ Is("searches") => TypeOK
  /\ Is("claims") => Volumes!TypeOK
  /\ Is("admin") => Admin!TypeOK
  /\ Is("certs") => Certs!TypeOK
  /\ Is("objects") => Objects!TypeOK
  /\ Is("clients") => Clients!TypeOK
  /\ Is("accounts") => Accounts!TypeOK
  /\ Is("roles") => Assignments!TypeOK
  /\ Is("retention") => Retention!TypeOK
  /\ Is("connections") => Connections!TypeOK
  /\ Is("ingest") => Ingest!TypeOK
  /\ Is("telemetry") => Collections!TypeOK
  /\ Is("webhooks") => Webhooks!TypeOK

(* Two pods of a pool never have one claim, whatever the operator remembers. *)
NoSharedClaim == Is("claims") => Volumes!NoSharedClaim

(* The clean-up takes the claim of no pod that lives on a node that is up. *)
LiveKept == [][Is("claims") => Volumes!LiveKept]_all

(* The operator replaces the admin token in the secret only when the one there does not work. *)
TokenKept == [][Is("admin") => Admin!TokenKept]_all

(* The clean-up of certificates takes none that a pod of the pool uses. *)
ServingKept == [][Is("certs") => Certs!ServingKept]_all

(* No config map goes that a pod which is to be there reads. *)
MapsKept == [][Is("objects") => Objects!MapsKept]_all

(* A resource is never worked on with the client of another cluster. *)
OwnClient == Is("clients") => Clients!OwnClient

(* A role keeps the places that the old spec and the new one both ask for while it is changed. *)
NotInterrupted == [][Is("roles") => Assignments!NotInterrupted]_all

(* Data goes only with the consent of the resource that was read. *)
NothingLost == [][Is("retention") => Retention!NothingLost]_all

(* A connection goes only when those that replace it are there. *)
AddedFirst == [][Is("connections") => Connections!AddedFirst]_all

(* The operator never replaces an ingest token that senders use. *)
TokensKept == [][Is("ingest") => Ingest!TokensKept]_all
=============================================================================
