SPECIFICATION MCSpec
CONSTANTS
  ta = ta
  tb = tb
  ea = ea
  Scalers = {TRUE, FALSE}
  Templates = {ta, tb}
  Extras = {ea}
  CertManager = TRUE
  MaxReplicas = 2
  FaultKinds = {"call", "stop", "pod_lost"}
  MaxFaults = 1
  MaxEdits = 1
PROPERTY RunningIsTrue
PROPERTY Settles
