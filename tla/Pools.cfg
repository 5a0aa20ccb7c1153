SPECIFICATION FairSpec
CONSTANTS
  PoolCount = 2
  MaxPods = 2
  Zones = {za}
  NoZone = nozone
  Templates <- ImageEdits
  Counts = {2}
  Strategies = {"ReplaceAllOnUpdate"}
  LatestImages = {}
  PatchPairs = {}
  MaxUnavailable = 1
  UnavailableIsPercent = FALSE
  ZoneAware = FALSE
  MinReady = FALSE
  CacheLag = FALSE
  FaultKinds = {"crash"}
  MaxFaults = 1
  MaxEdits = 2
  Settled = TRUE
INVARIANT OnePoolInMaintenance
PROPERTY UpgradeReplacesAll
PROPERTY Converges
