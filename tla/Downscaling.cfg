SPECIFICATION MCSpec
CONSTANTS
  p1 = p1
  p2 = p2
  p3 = p3
  p4 = p4
  za = za
  zb = zb
  Pods <- FourPods
  Zone <- FourZones
  Counts = {1, 2, 3}
  Lags = {TRUE, FALSE}
  FaultKinds = {"abort", "delete_by_others"}
  MaxFaults = 2
  MaxEdits = 2
INVARIANT OneByOne
PROPERTY DeletedHoldNothing
PROPERTY ScalesDown
CHECK_DEADLOCK FALSE
