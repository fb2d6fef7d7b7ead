SPECIFICATION Spec
CONSTANTS
  LogicalFlows <- TableFlows
  GroupNames = {"a", "b"}
  MeterNames = {"m"}
  Zones = {}
  BaseKey = "base"
  NoName = NoName
  MAX_EXT_TABLE_ID = 2
  TUN_METADATA_NUM_OPTS = 1
  MaxNbCfg = 0
  Loads <- TableLoads
INVARIANTS
  SwitchInSync
  FlowsReachTheirGroup
PROPERTIES
  GroupTableSpec
