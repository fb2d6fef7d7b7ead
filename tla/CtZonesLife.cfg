SPECIFICATION MCLifeSpec
CONSTANTS
  Users <- RouterKeys
  MAX_CT_ZONES = 2
  NoTxn = NoTxn
  MaxChanges = 2
  MaxReconnects = 1
  MaxCrashes = 0
INVARIANTS
  UniqueZones
  BitmapExact
  NoForeignConnections
