SPECIFICATION FairSpec
CONSTANTS
  Chassis = {1, 2, 3}
  Gateways = {1, 2}
  Priority <- EqualPriority
  vif = vif
  child = child
  gw = gw
  Lport <- ThreePorts
  None = None
  Keep = Keep
  Loads <- AllLoads
INVARIANTS
  TypeOK
  ActiveUnique
PROPERTIES
  GatewaySettles
  LportSettles
  FirstGatewayWins
