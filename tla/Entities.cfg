SPECIFICATION MCSpec
CONSTANTS
  Crs = {"a", "b"}
  Kinds <- Seeing
  Names = {"n", "m"}
  Places = {"p", "q"}
  Specs = {"s", "t"}
  Invalid = {"t"}
  MaxIds = 2
  FaultKinds = {"cluster", "humio", "crash"}
  MaxFaults = 1
  Edits = {"spec", "place", "delete"}
  MaxEdits = 2
PROPERTY KeepsPromise
CHECK_DEADLOCK FALSE
