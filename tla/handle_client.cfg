\* One reader, since readers share nothing; pauses of 1, 2, 2 in a budget of 6.
CONSTANTS
  Clients = {a}
  Anyone = anyone
  InitialDelay = 1
  MaxDelay = 2
  Multiplier = 2
  Timeout = 6
  MaxSlow = 1
  MaxMishaps = 2
SPECIFICATION FairSpec
INVARIANTS RefusalIsTrue BudgetIsSpent
PROPERTIES GrantedIsServed
CHECK_DEADLOCK FALSE
