SPECIFICATION Spec
CONSTANTS
  PoolCount = 1
  MaxPods = 3
  Zones = {za, zb}
  NoZone = nozone
  Templates <- ConfigEdits
  Counts = {2}
  Strategies = {"RollingUpdate"}
  LatestImages = {}
  PatchPairs = {}
  MaxUnavailable = 25
  UnavailableIsPercent = TRUE
  ZoneAware = TRUE
  MinReady = TRUE
  CacheLag = TRUE
  FaultKinds = {"bad", "crash", "evicted", "unready", "delete_by_others", "delete"}
  MaxFaults = 1
  MaxEdits = 1
  Settled = TRUE
INVARIANT TypeOK
INVARIANT PodsNotAhead
INVARIANT NoSurplus
PROPERTY NewPodsAsSaved
PROPERTY RollingBudget
PROPERTY PinnedZone
PROPERTY SettledIsUniform
