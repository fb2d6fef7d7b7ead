SPECIFICATION FairSpec
CONSTANTS
  Switches = {1, 2}
  Ports = {1, 2, 3}
  Chassis = {c1, c2}
  None = None
  MaxDatapathKey = 5
  KeyWidth = 3
  MaxPortKey = 4
  MaxQueueId = 2
  TotalIpv4s = 7
  ExcludedIps = {4, 5, 6}
  MAC_ADDR_SPACE = 5
  Loads <- AllLoads
INVARIANTS
  ClashOnlyByMove
  QueuesDistinct
  MacsUnique
PROPERTIES
  AddressesSettle
  SouthboundFollows
CHECK_DEADLOCK FALSE
