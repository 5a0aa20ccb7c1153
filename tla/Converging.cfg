SPECIFICATION FairSpec
CONSTANTS
  PoolCount = 1
  MaxPods = 3
  Zones = {za, zb}
  NoZone = nozone
  Templates <- ImageEdits
  Counts = {2}
  Strategies = {"RollingUpdateBestEffort"}
  LatestImages = {}
  PatchPairs <- PatchUpgrades
  MaxUnavailable = 1
  UnavailableIsPercent = FALSE
  ZoneAware = TRUE
  MinReady = FALSE
  CacheLag = FALSE
  FaultKinds = {"bad", "crash", "unready", "evicted", "delete_by_others", "create", "delete", "account", "config"}
  MaxFaults = 1
  MaxEdits = 1
  Settled = TRUE
PROPERTY Converges
