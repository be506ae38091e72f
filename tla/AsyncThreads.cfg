CONSTANTS
  x = x
  y = y
  z = z
  t1 = t1
  t2 = t2
  t3 = t3
  Results = {x, y, z}
  Workers = {t1, t2, t3}
  Connections = 2
  MaxRetries = 1
SPECIFICATION FairSpec
INVARIANTS EachOnce LeftOnlyIfAllDied SavedIsTracked
PROPERTY RunEnds
CHECK_DEADLOCK FALSE
