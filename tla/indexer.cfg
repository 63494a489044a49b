\* Two ticks at once, two kinds, windows of three against a provider that serves two.
CONSTANTS
  t1 = t1
  t2 = t2
  Ticks = {t1, t2}
  Kinds <- TwoKinds
  Start = 1
  StartRange = 3
  Limit = 2
  Keep = 3
  MaxBlock = 4
  MaxMishaps = 1
SPECIFICATION FairSpec
INVARIANTS CompleteBelowCursor CopiesAreExplained
PROPERTIES CatchesUp
CHECK_DEADLOCK FALSE
