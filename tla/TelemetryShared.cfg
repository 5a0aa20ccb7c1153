SPECIFICATION Spec
CONSTANTS
  Types <- DataTypes
  Valid <- ValidTypes
  Known <- KnownTypes
  Configs <- Shared
  Horizon = 2
  FaultKinds = {}
  MaxFaults = 0
  MaxEdits = 0
PROPERTY EveryTypeComes
