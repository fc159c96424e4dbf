SPECIFICATION Spec
CONSTANTS
  NarrowW = 3
  IntW = 4
  LongW = 6
  Programs <- MCPrograms
CHECK_DEADLOCK FALSE
INVARIANT TypeOK
INVARIANT SimplifierSettles
PROPERTY TiersKeepValues
PROPERTY CKeepsValues
