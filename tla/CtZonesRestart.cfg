SPECIFICATION MCFairSpec
CONSTANTS
  Users <- TwoPorts
  MAX_CT_ZONES = 2
  NoTxn = NoTxn
  MaxChanges = 2
  MaxReconnects = 1
  MaxCrashes = 1
INVARIANTS
  UniqueUnlessAstray
  RecordedUnlessAstray
PROPERTIES
  EventuallyRecorded
