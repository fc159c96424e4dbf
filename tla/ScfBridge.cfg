CONSTANTS
  t = t
  f = f
  True = t
  Poison = Poison
  Unset = Unset
  Value <- MCValue
  Compute <- MCCompute
  Programs <- MCPrograms
SPECIFICATION Spec
INVARIANT TypeOK
INVARIANT ReadsAreAssigned
PROPERTY ImplementsScfLoop
PROPERTY KeepsUpWithScfLoop
CHECK_DEADLOCK FALSE
