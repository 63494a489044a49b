\* One tick and no mishap: a refused window is enough.
CONSTANTS
  t1 = t1
  t2 = t2
  Ticks = {t1}
  Kinds <- TwoKinds
  Start = 1
  StartRange = 3
  Limit = 2
  Keep = 3
  MaxBlock = 4
  MaxMishaps = 0
SPECIFICATION Spec
INVARIANTS CaughtUpMeansComplete
CHECK_DEADLOCK FALSE
