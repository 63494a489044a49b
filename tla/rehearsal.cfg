\* Two treasuries instead of three; one mishap; two activations refused, so that a
\* prove-order that is locked out leaves an order behind and comes back to leave another.
CONSTANTS
  N = 2
  MaxSafes = 4
  MaxMishaps = 1
  MaxRefused = 2
SPECIFICATION FairSpec
INVARIANTS SealedSetIsWhole UnbackedIsExplained
PROPERTIES Resumes
CHECK_DEADLOCK FALSE
