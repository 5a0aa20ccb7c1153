SPECIFICATION MCSpec
CONSTANTS
  AlphaSpecs <- SomeAlpha
  BetaSpecs <- SomeBeta
  Validates = TRUE
  FaultKinds = {"call", "stop"}
  MaxFaults = 1
  MaxEdits = 3
  Parts = {"searches", "claims", "late claims", "admin", "certs", "lost certs", "objects",
           "clients", "accounts", "roles", "system roles", "retention", "connections", "ingest",
           "telemetry", "webhooks"}
  EditsIn <- SomeEdits
  FaultsIn <- SomeFaults
  HurtsIn <- SomeHurts
  Nodes = {"n1", "n2"}
  VolumePods = {"p", "q"}
  NodeCount = 2
  MaxClaims = 3
  OnNodeDelete = TRUE
  TLS = FALSE
  LocalVolumes = FALSE
  CacheLag = FALSE
  Hurts = {"delete node", "delete pod"}
  Licenses = {"l", "m"}
  Outages = FALSE
  MaxTokens = 6
  PoolSize = 2
  PodNames = {"a", "b", "c"}
  FirstPool = TRUE
  CacheLags = TRUE
  PodsStay = TRUE
  CertsGo = FALSE
  CAGoes = FALSE
  Pools = {"main", "extra"}
  Main = "main"
  Editable = {"kafka", "perms"}
  PodsWait = FALSE
  Resources <- Callers
  NameOf <- OneName
  ClusterOf <- Called
  Clusters = {"ext", "managed"}
  Ext = "ext"
  Watcher = "watcher"
  Slash = TRUE
  SecretGoes = TRUE
  AccountPods = {"a", "b", "c"}
  Managed = TRUE
  AccountGoes = TRUE
  Roles = {"a", "b"}
  OtherRoles = {}
  Groups = {1, 2}
  Views = {1, 2}
  ViewRoles = TRUE
  Present = {1, 2}
  SpecsOf <- Sharing
  Top = 2
  RepoSpecs <- SomeLimits
  Ids = {"here", "there"}
  KindsOf <- OneEach
  Tags = {0}
  KeyOf <- TokenKeys
  Secrets <- Rotated
  CRs = {"a"}
  Repos = {"r", "q"}
  RepoGoes = TRUE
  TokenSpecs <- AskedTokens
  MaxMade = 5
  Types <- DataTypes
  ValidData <- ValidTypes
  Known <- KnownTypes
  TelemetrySpecs <- Apart
  Horizon = 2
  SendFaults = {"send", "stop"}
  SetupFaults = {"call", "restart", "replace"}
INVARIANTS Typed NoSharedClaim OwnClient
PROPERTY TouchKeepsEvents
PROPERTY LiveKept
PROPERTY TokenKept
PROPERTY ServingKept
PROPERTY MapsKept
PROPERTY NotInterrupted
PROPERTY NothingLost
PROPERTY AddedFirst
PROPERTY TokensKept
PROPERTY SecondKept
CHECK_DEADLOCK FALSE
