SPECIFICATION MCSpec
CONSTANTS
  Views <- OneTwo
  Versions = {1}
  Policy = "overwrite"
  ByRef = TRUE
  FaultKinds = {"stop"}
  MaxFaults = 1
  EditKinds = {"package", "delete"}
  MaxEdits = 3
  Parts = {"packages", "registry", "entities", "namesakes", "searches", "telemetry", "webhooks",
           "roles", "system roles", "retention", "connections", "ingest"}
PROPERTY NothingIsLeft
PROPERTY EntitiesSettle
CHECK_DEADLOCK FALSE
