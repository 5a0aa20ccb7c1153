------------------------------ MODULE MCValues ------------------------------
(***************************************************************************)
(* The small instances that the runs of several parts side by side share.  *)
(***************************************************************************)
EXTENDS Integers, EntityKinds

\* RoleAssignments: the first role asks for no place that the second asks for.
Sharing(r) ==
  IF r = "a" THEN [perms : 1..2, places : {{<<1, 1>>}, {<<1, 1>>, <<2, 2>>}}]
  ELSE [perms : {1}, places : {{<<1, 2>>}, {<<2, 1>>}}]

\* System roles: a group may have both.
Whole(r) ==
  [perms : IF r = "a" THEN 1..2 ELSE {1}, places : {{<<1, 0>>}, {<<1, 0>>, <<2, 0>>}, {}}]

\* RepositoryRetention: limits are there or not, lower or higher.
Wants(description, time, storage) ==
  [description |-> description, search |-> 0, ingest |-> 0, storage |-> storage, time |-> time]
SomeLimits == {[want |-> Wants(1, t, s), allow |-> a] : t \in {0, 1, 2}, s \in {0, 1}, a \in BOOLEAN}

\* SearchConnections: a local and a remote one, whose secret has one token or another, or none.
OneEach == [here |-> {"Local"}, there |-> {"Remote"}]
TokenKeys == [here |-> "token", there |-> "token"]
Rotated == {[token |-> n, other |-> n] : n \in 0..2}

\* IngestTokens: a token with or without a secret.
AskedTokens == [repo : {"r", "q"}, parser : 0..1, secret : {"s", "no secret"}]

\* HumioClients: a cluster that the operator manages and one that it does not.
Callers == {"watcher", "repo"}
Called == [r \in Callers |-> IF r = "repo" THEN "managed" ELSE "ext"]
OneName == [r \in Callers |-> "name"]
OwnNames == [r \in Callers |-> r]

\* EntityController: one of each kind that comes to rest.
Settling ==
  {HumioUser, HumioParser, HumioAlert, HumioAction, HumioAggregateAlert, HumioGroup,
   HumioRepository, HumioView, HumioFeatureFlag}

\* Components: how many edits, failures and mishaps each part has.
SomeEdits ==
  [admin |-> 3, certs |-> 1, objects |-> 2, clients |-> 2, accounts |-> 2, roles |-> 2,
   retention |-> 1, connections |-> 2, ingest |-> 3, telemetry |-> 1, webhooks |-> 1]
SomeFaults ==
  [claims |-> 1, admin |-> 2, certs |-> 0, objects |-> 1, clients |-> 1, accounts |-> 1,
   roles |-> 1, retention |-> 1, connections |-> 1, ingest |-> 1, telemetry |-> 1, webhooks |-> 1]
SomeHurts == [claims |-> 1, certs |-> 1, objects |-> 1, accounts |-> 1]

\* Packages.
OneTwo == 1..2

\* ScheduledSearch: times that other units stand for as well, and some that no larger unit does.
T(n, unit) == [n |-> n, unit |-> unit]
EventFor(interval, offset) ==
  [type |-> "Event", interval |-> interval, offset |-> {offset}, wait |-> 0, backfill |-> {1}]
IngestFor(interval, wait) ==
  [type |-> "Ingest", interval |-> interval, offset |-> {}, wait |-> wait, backfill |-> {}]
SomeAlpha ==
  {[start |-> T(2, "w"), end |-> T(0, "now"), backfill |-> 0],
   [start |-> T(90, "m"), end |-> T(3600, "s"), backfill |-> 1]}
SomeBeta == {EventFor(5400, 3600), EventFor(86401, 0), EventFor(61, 59), IngestFor(3600, 30)}

\* Telemetry: collections that have no data type in common, one that cannot be valid.
DataTypes == {"license", "cluster_info", "user_info", "usage_stats"}
ValidTypes == DataTypes \ {"usage_stats"}
KnownTypes == {"license", "cluster_info"}
Every(interval, types) == [interval |-> interval, include |-> types]
Apart == {{Every(1, {"license"}), Every(2, {"cluster_info"})}, {Every(2, {"license", "cluster_info"})},
          {Every(1, {"usage_stats"})}}
=============================================================================
