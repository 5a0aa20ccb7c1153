SPECIFICATION MCSpec
CONSTANTS
  Ids = {1, 2, 3, 4, 5, 6, 7}
  Specs <- SpecType
  Lag = FALSE
  FaultKinds = {"call", "stop", "pod_lost"}
  MaxFaults = 2
  MaxEdits = 0
  Parts = {"root token", "late token", "claims", "admin", "certs", "objects", "clients",
           "accounts", "kept accounts"}
INVARIANTS PairsMatch RootTokenWorks
PROPERTY ClusterSettles
CHECK_DEADLOCK FALSE
