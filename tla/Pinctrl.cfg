SPECIFICATION FairSpec
CONSTANTS
  Ports = {p1}
  i1 = i1
  i2 = i2
  Ips = {i1, i2}
  Bridges = {b1, b2}
  Vifs = {v1}
  RaPorts = {r1}
  None = None
  Freed = Freed
  BUFFER_QUEUE_DEPTH = 3
  MaxPutBindings = 1
  MaxBuffered = 1
  MaxBackoff = 2
  MaxRecv = 2
  Loads <- AllLoads
INVARIANTS
  TypeOK
  PacketsInOrder
PROPERTIES
  PacketsSettle
  BridgeFollowed
  Announced
  Exits
CHECK_DEADLOCK FALSE
