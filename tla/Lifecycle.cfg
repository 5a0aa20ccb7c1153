SPECIFICATION Spec
CONSTANTS
  PoolCount = 1
  MaxPods = 2
  Zones = {za}
  NoZone = nozone
  Templates <- AllEdits
  Counts = {0, 1}
  Strategies = {"OnDelete", "RollingUpdateBestEffort"}
  LatestImages = {}
  PatchPairs = {}
  MaxUnavailable = 1
  UnavailableIsPercent = FALSE
  ZoneAware = TRUE
  MinReady = FALSE
  CacheLag = TRUE
  FaultKinds = {"bad", "crash", "evicted", "unready", "delete_by_others", "delete", "create", "volume", "account", "config"}
  MaxFaults = 1
  MaxEdits = 1
  Settled = FALSE
INVARIANT ManagersFresh
PROPERTY RevisionMonotone
