# The humio-operator in TLA+

The operator runs LogScale (Humio) clusters on Kubernetes. It has some twenty-five
controllers, each a `Reconcile` function that compares a custom resource (CR) with what
there is in Kubernetes or in Humio and changes the latter, a call at a time, until they
agree. A reconcile may end after any call and is run again from the start. Most of what
can go wrong lies in that: what a call wrote must be enough for the next reconcile,
possibly in another process, to go on from; and what a call reads may be old, or about to
be changed by a user, by Kubernetes, by Humio or by another controller.

Source paths below are relative to the repository, and to `src/internal/controller/`
where they have no directory.

## 1. Inventory

| Component | State it keeps | Operations | What is hard | Correct when | Module |
|---|---|---|---|---|---|
| HumioCluster: pods of the node pools (`humiocluster_controller.go`, `_pods.go`, `_pod_lifecycle.go`, `_status.go`) | spec; `status.state`, `status.nodePoolStatus`; pods with revision and hash annotations, read through a cache; the node pool managers built when a reconcile begins | compare, mark, raise the revision, pin a zone, wait, delete, create, wait for new pods; status writes | a rollout takes many reconciles, each decided from an old list; several steps write one status; a crash between a revision and its pods; pools compete | budget and zone are kept, versions do not mix, one pool at a time, no surplus pods, it comes to rest | `NodePoolRollout` |
| Service accounts and their annotations | service accounts; the revision in the status | make, annotate, raise the revision | two objects written one after the other | new annotations reach all pods | `ServiceAccounts`, `NodePoolRollout` |
| Downscaling and eviction (feature flag) | node count, pods, labels, `status.evictedNodeIds`; the node in Humio | evict, label, check, record, delete, unregister | five facts about one node written by separate calls, lagging status | no data is lost, nodes go one by one, none is forgotten | `Eviction` |
| Persistent volumes (`humiocluster_persistent_volumes.go`) | claims, pods, Kubernetes nodes, `status.podStatus` | give a claim to a new pod, find and delete orphaned ones | which claim is free, or lost, is concluded from several lists | no claim is shared, none in use is deleted, pods come up again | `VolumeClaims` |
| Admin token and license (`humiocluster_permission_tokens.go`) | license, token in a secret, user "admin" in Humio | install, show; try, rotate, write | a rotation whose result is lost; outages | the secret comes to hold the token that works, one that works is kept | `AdminToken` |
| TLS (`humiocluster_tls.go`) | authority, issuer, certificates and their secrets | make, wait, update, clean up | TLS toggled while pods serve; certificates found by pods and pods by certificates | pods have their certificate, none in use goes, nothing stays without use | `NodeCertificates` |
| Services, config maps, budgets, ingresses | the objects, pods that mount files | make, update, clean up | clean-up by a spec read earlier | they follow the spec, no file in use goes | `SupportingObjects` |
| HumioBootstrapToken (`humiobootstraptoken_controller.go`) | the secret with token and hash, a one-time pod, the status; hash of the cluster's pods | make the secret, run the pod and its command, write | the command runs again after a crash; two controllers and one cache | token and hash are a pair, the pair a pod was started with stays | `BootstrapToken` |
| System, organization and view tokens (`common_tokens.go`) | CR with the ID of a token, the token, a secret with its value | create, update, ensure the secret, rotate, finalize | the value is told once; CRs share secrets; the cache of secrets lags | a secret holds the value of the token it names, the token goes before its CR | `PermissionTokens` |
| Ingest tokens | the same without rotation | create, set parser, write secret, finalize | repository gone, secret taken by another | senders keep their token | `IngestTokens` |
| Entity controllers: repositories, views, parsers, users, groups, roles, alerts, actions, searches, IP filters, feature flags | one object in Humio per CR, finalizer, state | look up, create, update, delete, report | edits and deletions while a call is under way, lost IDs, hidden errors, two CRs for one object | nothing is left behind, each comes to exist | `Finalizer`, `EntityKinds`, `EntityController` |
| Permission roles and their groups (`src/internal/humio/client.go`) | roles, permissions, assignments | made of many calls | a list of all roles read once | a place both specs ask for is never interrupted | `RoleAssignments` |
| Repositories: retention and data | limits, automatic search, data | attribute by attribute | limits lowered by others or by data | nothing is deleted without consent | `RepositoryRetention` |
| Multi cluster search views: connections | connections, tokens, tags | add, remove, write anew | tokens that cannot be read back | new connections come before old ones go | `SearchConnections` |
| Scheduled searches in two API versions; conversion and validation | the stored resource, the version of the cluster, the search | convert, validate, choose the calls, update | the version changes between two calls; formatting of times | writing back the old version keeps what is searched | `ScheduledSearch` |
| Webhook operator (`webhook_controller.go`, `src/internal/helpers/webhook.go`) | certificate files, service, configuration, definition | make a certificate, tell the API server | three objects, two files, restarts | served and trusted certificates agree in the end | `WebhookSetup` |
| Packages and registries | what is installed in which view, registry, status | check, install, confirm, retry, uninstall | some of several views fail | nothing is left when a resource is gone | `Packages` |
| PDF render service | deployment, service, autoscaler, TLS resources, status | copy TLS, clean up, build, scale, deferred status | replicas have two owners; the generation of a deferred write | Running is true, it settles | `PdfRenderService` |
| Telemetry | telemetry CR made by the cluster controller, both statuses | sync, collect, export | two controllers write one CR | every type of data comes, as often as asked | `Telemetry` |
| External clusters and the client cache (`src/internal/helpers/clusterinterface.go`, `client.go`) | a table of clients, configurations read object by object | build, look up, replace | objects change between reads; names collide | a client is of its own cluster | `HumioClients` |
| Process start, API types, generated code | none | wiring | | | not modelled |

They interact in four ways: through CRs one controller writes and another watches
(telemetry, the bootstrap token's status), through secrets (tokens, certificates), through
the table of clients, and through Humio. Those interactions are inside the module of the
part that depends on them: the hash of the bootstrap token is followed into the pods of the
cluster in `BootstrapToken`, both controllers of telemetry are in `Telemetry`, package and
registry in `Packages`, eviction and pod creation in `Eviction`, search and conversion in
`ScheduledSearch`.

No controller sets `MaxConcurrentReconciles`: each has one worker, so two resources of one
kind are handled in turns, and controllers of different kinds interleave.

## 2. Modules

One action of a module is one call that writes, with the reads and the decisions that lead to
it; a crash, a failed call or a step of somebody else may come between any two. A variable
`op`, `proc`, `work` or `pc` is where the worker is with what it has read; everything else is
in an API server, in Humio or on disk. `faults`, `edits` and `hurts` (what others break) bound
what may go wrong, and nothing else. Definitions keep the names of the functions they stand
for; `map` in `PROJECT.json` names the lines.

### NodePoolRollout

| Variable | In the code |
|---|---|
| `spec`, `saStale` | `HumioCluster.spec` per pool; whether the service account still lacks the annotations it asks for |
| `state`, `status` | `status.state`, `status.nodePoolStatus` |
| `pods`, `cache` | the pods in the API server, and the informer's copy of them |
| `pc`, `pi` | where in `Reconcile` the one worker is, and the pool its loop is at |
| `mem` | the `HumioNodePool` managers, a snapshot of spec and status |
| `doomed`, `requeue`, `left`, `expect` | locals of the loops that delete and create pods |
| `chosen`, `lost` | history: what the budget and the zone are judged by |

`Begin` builds the managers; for each pool `Verdict` decides what
`ensureMismatchedPodsAreDeleted` does, then one pod at a time is deleted; then follow the
service account, volumes, creation, the wait for pods, and the license (`Finish`).
`updateStatus` with nothing but a message returns an empty result, so the reconcile goes on
after it; every other write of the status ends the reconcile.

Simplified: the HumioCluster is read without lag, its status having one writer. A template is
four fields the comparison treats differently and whether it is valid; the bootstrap hash is
part of `cfg`. A difference in managed fields alone is a warning. A pod stuck on a lost volume
is deleted like an evicted one. Failures of supporting objects, license and admin token are
the one fault `config`. Pods named by ordinal, attaching volumes and certificates, and the
patch of managed fields are left out; claims and certificates are in modules of their own.

### PermissionTokens

`cr` (CRs: deletion, finalizer, `status.humioId`, state, `tokenSecretName`, permissions),
`tokens` and `issued` (Humio), `secrets` (the API server), `feed` (per secret the older versions that the
informer's cache has yet to leave behind, the first being the one it shows) and `lags`, `op` (one reconcile per
CR), and two histories: `meddled` (a token was removed by others, or a secret renamed) and `overlooked` (per CR:
its token was rotated because the cache had yet to show its secret). `GetSecret` reads the cache (`SecretOf`),
which gets every version in order and however late (`Publish`, `CacheCatchesUp`); creations and updates go to the
API server (`Stored`), so a creation fails when the secret is there although the cache has none, and an
update when it is gone although the cache has it. A CR is written with the version that was read and
fails when a user wrote it meanwhile; a secret is written without one, so the last write wins. The CR
itself is read without lag: with an old one every write of it fails on its version, and what is left of such a
reconcile is a token in Humio that no status names, as after a crash there.
The result of `rotateToken` may keep the ID or change it, so `RotateToken` does either.
`finalize` updates a secret it has not read, whoever's it is: `WipeSecret`. Which permissions and
filters are valid is a failure that may happen. `Promise` is a refinement mapping to `Finalizer` (below): a
CR's stage is its deletion and its finalizer, and it has an object while the token that its status names is in
Humio.

### Entities: Finalizer, EntityKinds, EntityController

`Finalizer` is the abstract specification: per CR a stage (`new`, `guarded`, `deleting`, `gone`),
and the CRs for which there is an object; a guarded CR goes only without one. The entity controllers and
those of permission tokens implement it.
`EntityController` is the handler of all entity controllers with a record of what differs from
kind to kind (`EntityKinds`: found by name or by a recorded ID, what can be edited, whether lookups
hide errors, whether a flag), the deferred report, edits, deletions, objects removed by others,
conflicts. `Promise` is its refinement mapping. What an update consists of is one call here;
roles, retention, connections, ingest tokens and searches have modules for that.

### Eviction

`count`, `pod`, `labelled` and `unseen` (labels the cache lacks), `node` (what Humio knows),
`evicted` (`status.evictedNodeIds`), `op`, `lagging` (chosen at the start from the constant `Lags`: whether
cache and status may be late). `processDownscaling` call by call, with
`ensurePodsExist`; pods start and end, nodes give away data, statuses come late. A pod and its
node are one element.

### PdfRenderService

`spec`, `gen`, `status`, `cluster`, `tls` (its resources), `dep`, `svc`, `hpa`, `op`. `Reconcile` with
`SynchronizeTLS`, the shortcut for a running service, clean-up, `ReconcileDeployment`, service,
autoscaler and the deferred write of the status with the generation there is then. Templates are
values; one cluster.

### BootstrapToken

`spec`, `hbt`, `secret` and `seen` (cache), `pod` (the one-time pod), `core` (a pod of the cluster,
with the hash it is marked with and the one it was started with), `op`. Both controllers.
References to secrets do not change in a resource.

### Packages

`hp`, `registry`, `views`, `installed`, `op`. The views are checked in one action, and installed in one
by one. The six protocols are a registry that answers or does not.

### ScheduledSearch and WebhookSetup

`hss` (as stored, v1beta1), `cluster` and `known` (its version, and what the status says of it),
`humio`, `op`; `ConvertTo` and `ConvertFrom` are the conversion with units and seconds, `Admitted` the
webhook. `files` (certificate and key), `service`, `vwc`, `crd`, `proc`: the start of the webhook
operator and what it tells the API server.

### Telemetry

`wanted` and `shown` (cluster), `ht` (the HumioTelemetry), `op` and `cop` (the two reconciles), `since` (how long ago
each type of data arrived). Time is relative and what is `Horizon` ago is always due.

### RoleAssignments, RepositoryRetention, SearchConnections, IngestTokens

What one update of an entity consists of, call by call. Roles: `role`, `groups`, `assigned`; retention:
`repo` and how far `data` reaches as each limit measures it; connections: `view`, `secrets`, with tags
that carry the hash of a token; ingest tokens: `repos`, `tokens`, `secrets`.

### VolumeClaims, AdminToken, NodeCertificates, SupportingObjects, ServiceAccounts

Parts of a HumioCluster that have their own objects. Claims: `node`, `claim`, `pod`, `unseen`,
`podStatus`. Admin: `wanted`, `license`, `shown`, `state`, `user`, `works`, `made`, `secret`, `seen`,
`away`. Certificates: `tls`, `hosts`, `ca`, `issuer`, `certs`, `seen`, `secrets`, `pods`, `plain` (pods
without TLS). Objects: `services`, `maps`, `perms`, `budgets`, `ingresses`, `pods` with the files they
started with. Accounts: `annotations`, `account`, `revision`, `pods`.

### HumioClients

`tls`, `authority`, `token`, `secret` (what a configuration is read from), `slots` (the table),
`proc` (one reconcile per resource), `worked`, `state` (of the external cluster).

### Instances

`Components` puts thirteen parts side by side: `ScheduledSearch`, which it extends, and an instance of each of the
modules from `WebhookSetup` on above, over variables that carry the modules' names for them. `part` says which
component a behaviour is about; it never changes and all that this component has no variable of rests, so states
add up and do not multiply. This is many small systems in one, not a composition; what interacts is inside one module.
`ComponentsProofs` is about it with any constants.

`MCNodePoolRollout`, `MCPermissionTokens`, `MCEviction`, `MCEntityController`, `MCPdfRenderService`, `MCTelemetry`
give values to the constants. A behaviour of `MCPermissionTokens` has two of these: a cache that falls behind, a
failure, an edit; names and permissions may be exchanged, so the first CR has the first of each. A behaviour of `MCEviction` has lags and one failure and edit, or no lags and more
of both. `MCComponents` gives values to those of `Components`, and adds second instances of three components with
others. `MCClusterSettles` and `MCContentSettles` check that components settle: each extends one module (its host) and
instantiates the others over variables `v1`, `v2`, ... in the order of their `vars`, with a `part` as above; fairness
of one part's action may stand beside another's in one conjunct, since only one is ever enabled.
`MCValues` has the values they share.

## 3. Runs

| Run | Properties | Distinct states | What it shows |
|---|---|---|---|
| `rolling` | `TypeOK`, `PodsNotAhead`, `NewPodsAsSaved`, `NoSurplus`, `RollingBudget`, `PinnedZone`, `SettledIsUniform` | 234 000 | a zone-aware rolling restart with a lagging cache and one failure anywhere keeps its budget and zone and ends only when the pods are alike |
| `converging` | `Converges` | 280 000 | after the last edit and failure a best-effort rolling upgrade comes to rest with what the users asked for |
| `pools` | `OnePoolInMaintenance`, `UpgradeReplacesAll`, `Converges` | 386 000 | two pools that replace all their pods take turns, never mix versions and both get there |
| `lifecycle` | `ManagersFresh`, `RevisionMonotone` | 61 000 | from a new cluster, with pools that come and go, no entry is written from a stale copy and no revision is lost |
| `tokens` | `SecretStaysTrue`, `KeepsPromise`, `Settles` | 400 000 | two CRs that may share a secret read from a cache, with two of: the cache falls behind, a failure, an edit. A secret names no token with another's value, unless it was overlooked, and every CR comes to rest; the token controllers implement `Finalizer` |
| `entities` | `KeepsPromise` | 864 000 | the entity controllers implement `Finalizer` |
| `downscaling` | `OneByOne`, `DeletedHoldNothing`, `ScalesDown` | 186 000 | no data is lost, one node at a time, and the pool gets to its size |
| `pdf_service` | `RunningIsTrue`, `Settles` | 1 368 000 | the state is true when it says Running, and the service settles |
| `cluster_settles` | `PairsMatch`, `RootTokenWorks`, `ClusterSettles` | 430 000 | bootstrap token; and eight more parts of a cluster come to what their resource asks for |
| `content_settles` | `NothingIsLeft`, `EntitiesSettle` | 349 000 | packages; and eleven more parts come to what their resources say |
| `components` | `Typed`, `TouchKeepsEvents`, `NoSharedClaim`, `LiveKept`, `TokenKept`, `ServingKept`, `MapsKept`, `OwnClient`, `NotInterrupted`, `NothingLost`, `AddedFirst`, `TokensKept`, `SecondKept` | 1 819 000 | what thirteen components may never do on the way, three of them with other constants as well (`SecondKept`) |
| `telemetry_shared` | `EveryTypeComes` | violated | see below |

### Where code and documentation disagree

Shown by a run, which states what the type of the resource says of the data types:

- **telemetry_shared** (`humiotelemetry_controller.go:241`). When a collection was last made is the
  latest time of any of its data types: a daily collection that shares one with a frequent
  collection is never due, and its other types are never collected.

Met while modelling, and kept out of the properties by a condition or a constant that is
named beside each property, so that what holds in spite of them can be checked:

- *Pods.* A failed volume check writes the state `Pending`; a difference found then is not marked as
  `Restarting`, and the wait for other pods applies only in `Restarting` and `Upgrading`, so ready pods of a
  `RollingUpdate` pool go without a wait for their replacements (`humiocluster_controller.go:2116`), and of no zone
  in particular. A change of what `environmentVariablesSource` refers to pins no zone: neither revision nor
  hash differs, so pods go in the order of names (`humiocluster_pods.go:1032`). Annotations of a
  service account that cannot be applied write the cluster's state into an idle pool, beside the one
  that is restarting (`humiocluster_controller.go:257`). A crash between the annotations and the revision
  restarts nothing (`:256`), nor does an account that was lost and made anew (`:1233`). A
  template that is edited once its revision was saved, and before a pod has it, gets no revision of its own while
  the pool is `Upgrading` or `Restarting` (`:2038`): pods of one revision may then differ, and only their hashes
  tell (`NewPodsAsSaved` says what does hold). A cache that lags, or a pod that is lost in an upgrade of
  `ReplaceAllOnUpdate`, starts new pods beside old ones. So does a pod that fails: only the failing pods are
  then compared with what is wanted (`:1974`), so the old pods beside it are not seen; when a configuration error
  interrupts a restart whose image was edited, the `Upgrading` that follows sees them no more. No budget holds for pods that differ by the URL of an image
  source or by a latest image, nor when the number of nodes is edited during a reconcile.
- *Permission tokens.* A token removed from Humio is made anew while its secret keeps the old value
  (`common_tokens.go:63`). A reconcile whose cache has yet to show a secret that was just created rotates
  a token that works (`humiosystemtoken_controller.go:367`); the creation that follows fails because the secret is there
  (`common_tokens.go:108`), the new value is lost, and the secret keeps the old one under the ID of the
  live token. Nothing failed, and nothing repairs it: later reconciles find the ID they expect, or write
  it beside the old value. So `SecretStaysTrue`
  leaves out tokens to which that has happened, and `Settles` their value. A CR deleted between the creation of its token and the write of the ID
  leaves the token in Humio (`humiosystemtoken_controller.go:110`).
- *Entities.* Lookups of repositories, views, groups and flags say "not found" of any error, which
  ends the protection by the finalizer (`humiorepository_controller.go:97`,
  `humiofeatureflag_controller.go:105`). An action that is not valid has its `ConfigError` overwritten
  (`humioaction_controller.go:156`). An IP filter whose ID was not recorded can never be deleted
  (`humioipfilter_controller.go:171`). Two CRs for one object can keep a deletion from ending.
- *Downscaling.* The wait for an eviction to show looks at one list of nodes
  (`humiocluster_controller.go:2574`), so with a late status a second node may be evicted; when others
  delete a pod under eviction its node stays registered (`:2291`).
- *PDF service.* An empty state after the TLS settings were copied
  (`humiopdfrenderservice_controller.go:294`); an edit during a reconcile that ends in Running is missed
  by the shortcut (`:2308`); replicas left to an autoscaler that was removed or cannot scale none (`:714`,
  `:870`).
- *Bootstrap token.* The status names a secret of its own making whatever the spec refers to
  (`humiobootstraptoken_controller.go:135`), a secret with other keys is overwritten (`:400`), one for an
  external cluster is never served (`:102`). With a lagging cache the pair may be replaced after a pod
  was started with it; it comes to rest all the same.
- *Packages.* A retry with conflict policy "error" refuses what the first try installed
  (`src/internal/registries/package.go:138`); `ConfigError` stays after its cause
  (`humiopackage_controller.go:142`); a partial installation is not uninstalled (`:277`).
- *Scheduled searches.* A search by the time of ingest does not survive v1alpha1
  (`src/api/v1alpha1/humioscheduledsearch_types.go:169`) and is sent by the older calls (`humioscheduledsearch_controller.go:335`);
  `maxWaitTimeSeconds` with event time is updated for ever, and an interval of zero is accepted
  (`src/api/v1beta1/humioscheduledsearch_types.go:75`, `:82`).
- *Telemetry.* A failed export counts as made (`humiotelemetry_controller.go:141`); the cluster's status
  shows the first collection only (`humiocluster_controller.go:3328`).
- *Webhook operator.* A certificate beside an empty key stops every later start
  (`src/internal/helpers/webhook.go:71`); three failures to write the definition are the last tries
  (`webhook_controller.go:395`).
- *Roles, repositories, connections* (`src/internal/humio/client.go`). Places given by another role count
  as given (`:3028`); a group that is missing holds back the groups after it (`:3063`); a limit that may not
  be lowered holds back what comes after it (`:718`); a connection is updated by the kind it had
  (`:1296`). Tags of connections are replaced, so such a view is written for ever
  (`humiomulticlustersearchview_controller.go:325`), and `SecretKeyRef.Key` is not read (`:229`).
- *Ingest tokens.* A resource whose repository is gone cannot be deleted
  (`humioingesttoken_controller.go:100`); two resources of one secret take it from each other (`:252`).
- *Claims.* The node of a claim is remembered by the name of a pod that another pod's claim may meet
  (`humiocluster_controller.go:1300`, `humiocluster_pods.go:977`); local volumes of a lost node fail every list
  (`humiocluster_persistent_volumes.go:148`); an error skips the wait for new pods
  (`humiocluster_controller.go:2216`).
- *Admin token.* Any error of the call that tries a token replaces it
  (`humiocluster_permission_tokens.go:81`).
- *TLS* (`humiocluster_controller.go`). TLS back on before the old certificates are gone mixes two
  authorities (`:1713`); a lost certificate is made anew under another name (`:1136`); those of a second
  pool are never removed, or are removed while in use (`:1847`, `:1849`); the cluster's certificate never gets
  new hostnames (`:1108`).
- *Objects* (`humiocluster_controller.go`). Files go while pods of `OnDelete` mount them (`:2854`); running
  pods never see new contents (`:683`); budgets and ports are never updated (`:3061`,
  `humiocluster_services.go:157`); pools that left the spec are not cleaned up after (`:2883`).
- *Clients.* The cluster is read twice for one configuration
  (`src/internal/helpers/clusterinterface.go:204`); an external cluster without its secret keeps its state
  (`humioexternalcluster_controller.go:91`); a URL without a slash makes a new transport each time
  (`src/internal/humio/client.go:356`).

### Bounds

- **Pods, zones, counts.** Three names for pools of two nodes leave room for one pod that is being
  deleted while its replacement starts, and for a surplus pod, which is what `NoSurplus` looks for.
  Two zones with two pods make a zone that must be left and one to go to. With 25 percent of two nodes
  `rolling` is also where `maxUnavailable` rounds down to zero and has to become one. `downscaling` has
  four nodes in two zones, so that two may go and the second choice depends on the first.
- **Resources.** Two where they can meet (pools, secrets, objects, roles, tables), one elsewhere.
- **Values.** Two of each kind that a comparison tells apart: templates, licenses, hostnames, times with
  two units, limits 0 to 2. `MaxIssued`, `MaxTokens` and `Ids` are as many as the edits and failures can use.
  `MaxLags` is how often a cache of secrets falls behind; how far is not bounded. `MaxOverlooked` is one: the properties
  make no difference between a token that was rotated in vain once and more often.
- **Edits and failures.** One or two of each, at any moment. The reconcile that follows a failure starts
  over with no memory of it. What may fail is in `FaultKinds`, what others may break in `Hurts`. `rolling`
  leaves out failed creations, after which a surplus pod can stay; `converging` leaves out
  failed volumes, which leave a pool in `Pending`.
- **Harnesses.** `MCClusterSettles`, `MCContentSettles` and `MCComponents` give each part the constants
  for its question: `LiveKept` has a cache that is current, as `NoSharedClaim` needs it, and `SecondKept` checks
  it with one that lags, `ServingKept` with certificates that others delete, and `NotInterrupted` for roles
  that are not of views; settling claims have no failed calls and one node that always is up; `AdminToken` settles through
  outages and keeps its token without; `ServingKept` is about the first pool; certificates settle with a
  cache that catches up between reconciles and as many names as they need; `OwnClient` has resources of one
  name, settling clients names of their own; service accounts are kept, or may be lost and then only the
  restart is required; telemetry settles with collections that share no type; ingest tokens settle while their
  repository is there. `entities` has kinds whose lookups hide no errors, IP filters of different names and
  places nobody edits; `NamesakesSettled` is about two CRs of one object neither of which is being deleted.
- **Deadlock** is checked in the runs of the rollout, of tokens and of the PDF service; the other systems
  stop when all resources are gone or everything is as asked.

### Fairness

The worker of a controller is weakly fair: controller-runtime runs a reconcile again after an
error, after the `RequeueAfter` it returned, after a watch event, and at last after its periodic resync (ten
hours by default in v0.19.0, which also recovers panics). It is fairness of the whole handler, never of one of
its branches. Where one worker serves two resources the start of each is strongly fair: the queue is first come,
first served, but between two starts the worker is busy. `UpdateRead`, the write of the telemetry CR with a
fresh copy, is strongly fair: its conflicts come from the other controller, which cannot win each time.
Kubernetes is assumed to schedule, start and end pods, restart failing containers, issue certificates and
collect garbage, caches to catch up, Humio to come back and time to pass. With `OnDelete` the users replace the
pods. Edits and failures are
never fair, they only may happen.

## 4. Proofs

The theorems hold for every number of pools, pods, resources, specs, failures and edits. They assume what the
`ASSUME`s of the modules say of the constants, and what each theorem adds.

| Module | Theorem | Says | Assuming |
|---|---|---|---|
| `NodePoolRolloutProofs` | `TypeCorrect` | `[]TypeOK` | |
| | `ManagersStayFresh` | `[]ManagersFresh` | |
| | `RevisionsGrow` | `RevisionMonotone` | |
| | `PodsStayBehind` | `[]PodsNotAhead` | no pool is scaled to zero |
| | `OnePoolAtATime` | `[]OnePoolInMaintenance` | no failed service account or volume, valid templates |
| | `NewPodsMatchTheStatus` | `NewPodsAsSaved` | |
| | `PodsWithinNodes` | `[]NoSurplus` | a cache that lags excludes failed creations; finitely many counts |
| | `SettlesUniform` | `SettledIsUniform` | no failed service account, and as above |
| | `ZoneByZone` | `PinnedZone` | hashes tell templates apart, no pool is scaled to zero, no failed volume |
| | `ReplacedAllAtOnce` | `UpgradeReplacesAll` | no lagging cache, no failed or foreign deletion, no pod that fails for good |
| | `RollsWithinBudget` | `RollingBudget` | no lagging cache, images that are not looked up, one URL, one count (`OnlyRolling`) |
| `PermissionTokensProofs` | `TypeCorrect`, `TokensGoFirst`, `SecretsStayTrue` | `[]TypeOK`, `TokenGoesFirst`, `[]SecretStaysTrue` | |
| | `TokensKeepPromise` | `KeepsPromise`, the refinement of `Finalizer` | |
| | `TokensLeaveNothing` | `[]NothingLeft` of `Finalizer` | |
| `EntityControllerProofs` | `EntityTypeCorrect` | `[]TypeOK` | |
| | `ImplementsFinalizer` | `KeepsPromise`, the refinement of `Finalizer` | `Sound`: found by name, no hidden errors, places are not edited |
| | `NothingIsLeft` | `[]NothingLeftBehind` | `Sound` |
| `EvictionProofs` | `EvictionTypeCorrect`, `NoDataIsLost` | `[]TypeOK`, `DeletedHoldNothing` | |
| | `DeadNodesAreRemembered` | `[]NodesRemembered` | only the operator deletes pods |
| | `NodesGoOneByOne` | `[]OneByOne` | the property itself is about a status and a cache that are not late |
| `PdfRenderServiceProofs` | `PdfTypeCorrect`, `CertificatesComeFirst`, `RunningTellsTheTruth` | `[]TypeOK`, `CertificateFirst`, `RunningIsTrue` | |
| `BootstrapTokenProofs` | `BootstrapTypeCorrect`, `PairsAlwaysMatch` | `[]TypeOK`, `[]PairsMatch` | |
| | `RootTokenKeepsWorking` | `[]RootTokenWorks` | no lagging cache, no edits |
| `PackagesProofs` | `PackagesTypeCorrect` | `[]TypeOK` | |
| | `InstalledTellsTheTruth` | `InstalledIsTrue` | views stay |
| | `UninstallIsComplete` | `NothingIsLeft` | views stay, no call fails |
| `ComponentsProofs` | `SearchTypeCorrect` | `[]TypeOK` | |
| | `OldVersionIsSafe` | `TouchKeepsEvents` | sensible writes |
| | `SentIsWritten` | `SentAsIs` | sensible writes, the webhook validates |
| | `EveryCallHasItsClient`, `ClientsAreApart` | `[]OwnClient` of `HumioClients` and of `Components` | |
| | `EveryPodHasItsClaim`, `ClaimsAreNeverShared` | `[]NoSharedClaim` of `VolumeClaims` and of `Components` | no lagging cache |
| | `DataOutlivesItsPods`, `LiveClaimsStay` | `LiveKept` of `VolumeClaims` and of `Components` | no TLS |
| | `NoPodLosesItsCertificate`, `CertificatesStay` | `ServingKept` of `NodeCertificates` and of `Components` | the pool is the first; its certificates have other names than the cluster's |
| | `MountedMapsStay`, `MapsStay` | `MapsKept` of `SupportingObjects` and of `Components` | pods do not wait for users, pools stay in the spec |
| | `TokenOfAllIsKept`, `TokenStays` | `TokenKept` of `AdminToken` and of `Components` | no lagging cache, no outages |
| | `SendersGoOn`, `IngestTokensStay` | `TokensKept` of `IngestTokens` and of `Components` | |
| | `GroupsKeepTheirRoles`, `RolesStay` | `NotInterrupted` of `RoleAssignments` and of `Components` | no view roles, or no roles of others |
| | `SearchesFindAllClusters`, `ConnectionsStay` | `AddedFirst` of `SearchConnections` and of `Components` | |
| | `DataIsKeptUnlessAllowed`, `DataStays` | `NothingLost` of `RepositoryRetention` and of `Components` | |
| | `PartsTyped` | `[]Typed`: the `TypeOK` of all thirteen components | |

`ComponentsProofs` is about `ScheduledSearch` and the instances in `Components`, over constants that stand for any:
nothing is taken from the values `MCComponents` gives them. A name in the table's second place says of `Components`,
whose runs check it, what the first says of the component by itself.
Its hypotheses, and most of the others, leave out what the code is known to do wrong (section 3): without
them TLC finds a counterexample in which, for instance, a cache that lags lets two pods share a claim or replaces a
token that works; names of pods that come again (TLS) take the claim of a live node; another pool's clean-up takes
certificates in use; a pool that waits, is scaled to zero or leaves the spec loses its files; a role of others hides
a role from a group; a volume that fails unpins the zone, and a pool that is scaled to zero and back starts over its
revisions while its old pods still stop; a pod that fails for good (`"bad"`) hides the others from the comparison in
`UpgradeReplacesAll`. One hypothesis is there only for the proof: the cache of `RollsWithinBudget` when there is a
single edit, as in the run; with two edits a late list breaks the budget.

The arguments:

- **Rollout.** `ManagersFresh` is inductive with `TypeOK`: whoever writes an entry returns, except for the
  message that is not an entry and for the removal of an unused one. `RevisionMonotone` follows: every
  write takes its revision from the managers, which are as the status is. `PodsNotAhead` is not inductive, since a
  pod may be created from a manager read before its entry was removed; without pools of zero nodes no
  entry is, so the managers are exact (`MemExact`, `PodsBehind`). `OnePoolInMaintenance` needs that only
  `nodePoolAllowsMaintenanceOperations` leads to a write of a state other than `Running`; the three writes
  that do not ask it are the ones the assumptions exclude.
- **Rollout, what new pods get.** `NewPodsAsSaved` needs that the revision and hash a reconcile made pods with are
  those its last write left in the status (`Examined`, `HashSaved`, `MemKept`). `SettledIsUniform`
  needs that only the comparison of pods ends a replacement, that the list it goes by lacks no pod (`AllListed`),
  and that what the list says of a pod that is still there is true (`ListedSame`). A pool that is scaled to zero and
  back may lose its entry, and with it its revision, in the middle of a replacement: `NamedInv` says that an entry
  without revision has no hash and that every pod has a revision, so the entry is given one (`SaveRevision`, the other
  step that may say `Running`: `LeavesReplacement`) only when no live pod is there (`NoRevisionNoPods`).
- **Rollout, how many pods.** `Room`: until a pod is made, there is a node for it. A list misses at most the
  pods this reconcile waits for (`AllListed`, `NewAwaited`), which a failed creation would end too early.
- **Rollout, which pods go.** `ZoneOfChosen`: all that is chosen is in the zone of the status, since no pool is
  `Pending`, which only a failed volume makes it (`NotPending`). `UpgradeReplacesAll`: an upgrade of all at once is
  decided with its strategy (`StrategyKept`, `RequeuesForAll`), and from then on every pod of the old image is
  being deleted (`DoomedAlive`, `NoOldImage`). `RollingBudget`: a reconcile that found the pool complete and ready
  has lost none yet (`FullAgain`), and then as many as it chose (`WithinBudget`).
- **Permission tokens.** `FinalizerFirst`: a CR has an ID, or a reconcile has one in hand, only with the
  finalizer on it, so only `ReleaseCr` lets it go. `SecretInv`: IDs and values are of the past
  (`IssuedSoFar`); an ID belongs to one token of one CR (`Single`, `Owned`, `Tagged`). The next three are about all
  versions of a secret that the cache may still show (`Versions`), for any CR that nobody meddled with and whose
  secret was not overlooked (`Undisturbed`): each version of its secret has the name and ID the CR says
  (`SecretKnowsToken`), so an old one leads to no update; while a value is in hand there is none
  (`HandsFull`); once there is one, its token stays until the CR is deleted (`TokenBehindSecret`), which is
  what a removal by others breaks. A NotFound is then right whenever the cache is not behind (`ReadsAVersion`); a
  write adds only the version it leaves to those that may be read (`PublishVersions`).
  For the refinement (`PromiseInv`): a CR that is gone has no finalizer (`GoneIsBare`) and so no stage but that one, an
  ID is new when it is issued (`IssuedIsNew`), and a token that goes from Humio is a step of `Finalizer` whoever
  removes it. `TokensLeaveNothing`
  is what follows from the refinement and the abstract specification alone.
- **Entities.** `FInv`: an object is owned by a CR with a finalizer, a CR being deleted has none pending
  without it, and the copy a reconcile works on has the finalizer, the name and the place of the CR
  (`OwnersGuarded`, `DeletingGuarded`, `CopyHolds`). Every step that is not one of `Finalizer`'s keeps stages
  and objects (`QuietStep`), the others map to its actions one by one.
- **Eviction.** `Reading`: what the operator has read of a node that is to go stays true until it deletes
  it. `NodesRemembered` is inductive by itself as long as others delete no pods. `OneInTurn`: whoever
  is about to evict has seen that nobody is evicted, and Humio's answer was not late.
- **PDF service.** `SecretInv`: nothing that is cleaned up is the secret pods are made with. `RunningInv`:
  what a reconcile read is of the generation it will write, and what it made so far is as it read.
- **Bootstrap token.** `PairInv`: what is about to be written is a pair. `RootInv`: the cache is current, the secret
  is the resource's, and a pair is written only where none is.
- **Packages.** `SoFarInstalled` and `SoFarGone`: the views done so far are done, `HasFinalizer` that the resource
  waits for it.
- **Searches.** The round trip of seconds over units is the identity (`SecondsRoundTrip`); `NewEnough`: a
  search by the time of ingest was let in when the cluster was known to be new, which it stays.
- **Clients.** `SlotsVerify`: a client of the table verifies as the configuration it was made from says, whoever's.
- **Claims.** `SharingInv`: with a current list, the claims of all pods are among those that were found in use
  (`ClaimsInUse`). `LivingInv`: a pod, and what the status remembers of one, is on the node its claim is bound to
  (`PodsOnNode`, `StatusOnNode`), so an entry whose node is gone is of no claim of a node that is there.
- **Certificates, files.** `CertsInv`: a reconcile always has hostnames, so an update is never a removal, and the
  clean-up takes only what no pod serves with. `ObjectsInv`: a reconcile that found pods which do not match waits
  before its clean-up, since some pool then has no pod; otherwise pods mount what the spec that was read asks for
  (`MatchedBy`, `ReconcileKnows`).
- **Components side by side.** A behaviour of `Components` that is about one part is a behaviour of that part
  (`VolumesAlone`, ...): what the others have rests, and its first state and steps are the part's own.
- **Types.** Seven of the thirteen type invariants are inductive only with what the worker has in hand at each
  stage (`VolumesWork`, `CertsWork`, `ObjectsWork`, `CallersInv`, ...). Two need more than shapes. A pod is created
  only while pods are missing, and the pods of a pool, with TLS and without, are no more than its size
  (`PodsFit`), so that counts stay in their range; and each reconcile that makes calls has a client of the
  table whose configuration was read as a whole (`CallersInv`).
- **Admin token.** `AdminInv`: the token in the secret does not work when it is about to be replaced.
- **Ingest tokens, roles.** `IngestInv`: a token is about to be removed only when its resource was deleted, which it
  stays. `RolesInv`: what is to be taken from groups is not in the spec that was read.
- **Connections.** `ConnectionsInv`: while connections are added, what was read or added is there; while they are
  removed, all that is asked for is.
- **Retention.** `RetentionInv`: data is within the limits of the repository, which are those that were read until
  the step that changes them (`DataWithin`, `ReadWithin`).

`InstalledIsTrue`, `SentAsIs`, `CertificateFirst`, `NodesRemembered`, `NothingLeftBehind`, `TokenGoesFirst`,
`NothingLeft` of `Finalizer`, and `TypeOK` of the modules from `PermissionTokens` to `Packages` above are proved and
in no run.

Only model-checked: **liveness** (`Converges`, `Settles`, `ScalesDown`, `ClusterSettles`, `EntitiesSettle`), which the
prover has no rules for, and `SecondKept`, which says three properties once more of other constants, those that the
theorems about them allow too. Every other property that a run checks is proved, under the hypotheses of the table.
Of `Telemetry`, `WebhookSetup` and `ServiceAccounts` only the types are proved; what they promise is liveness. Induction
over data and recursive operators are beyond the installed provers; the modules have none.

## 5. Hazards

`PROJECT.json` lists forty, each at its line with the properties that would catch it. A note says where a property
leaves out the case in which the code is known to go wrong (section 3). One of the list's notes is about a condition
the runs do not reach: whether pods may be replaced one by one is decided from the last pod of the list that
differs (`humiocluster_pod_lifecycle.go:42`), and templates of a run differ in one field at a time.

Smaller observations, of no property: which zone has most pods is decided by the order of a map in a tie, although
a comment says the first; `its unexpected so we requeue` in `humiopackageregistry_controller.go` drops read
errors; a configuration error of telemetry is written with a new time in each reconcile, which starts the next; the
annotation with the original spec of a converted search is read by nobody; entries of the table of clients are never
removed; surplus claims and, after a rename in the spec of an ingest token, its old secret stay (both are TODOs in
the code).

## 6. Not modelled, and what is left

- **Generated code** (`src/internal/api/humiographql/humiographql.go`, deep copies: 34 000 of the 73 000 lines) has no logic
  of its own, and test suites and mocks (`client_mock.go`, `suite/common.go`: 4 200 lines) stand for the
  system rather than being it. What remains is for its larger part the building of Kubernetes objects field by field,
  logging and error wrapping, which the modules stand for with one value. The map names the lines that
  decide something; that is a small share of all lines, and of the lines written by hand a larger one.
- **Process start** (`src/cmd/`): flags and wiring.
- **Pods by ordinal, managed fields, attaching volumes and certificates** in `NodePoolRollout`; the retry on
  conflict inside `updateStatus`, and its option builder; the roles of the init container, which are made when
  missing and never compared; user-given authorities and keystore passphrases; the protocols of the six kinds of
  registry; single requests of a telemetry export; secrets that actions refer to.
- **One pool** in the modules of claims and certificates, one cluster in that of PDF services.
- **Overflow** of times and limits: numbers are small in every run.

Left in the plan: the hypothesis that is there only
for the proof (section 4); the rollout composed with claims; the option builder of the status as an operator against a
reference.
