SPECIFICATION FairSpec
CONSTANTS
  LogicalFlows <- OneFlow
  GroupNames = {}
  MeterNames = {}
  Zones = {1}
  BaseKey = "base"
  NoName = NoName
  MAX_EXT_TABLE_ID = 2
  TUN_METADATA_NUM_OPTS = 2
  MaxNbCfg = 2
  Loads <- AckLoads
INVARIANTS
  FlushConfirmed
  GeneveOptionIsReal
PROPERTIES
  UpToDateIsTrue
  NbCfgAcked
  FlushDone
  Negotiated
