SPECIFICATION Spec
CONSTANTS
  Northds = {"a", "b"}
  Chassis = {"c1", "c2"}
  None = None
  InitialChassis = {"c1"}
  Loads <- AllLoads
INVARIANTS
  SbCfgTrue
