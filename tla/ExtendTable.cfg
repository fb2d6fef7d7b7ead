SPECIFICATION Spec
CONSTANTS
  g1 = g1
  g2 = g2
  g3 = g3
  g4 = g4
  Names <- MCNames
  MAX_EXT_TABLE_ID = 3
INVARIANTS
  TypeOK
  OneIdPerName
  BitmapExact
PROPERTIES
  IdKeepsName
