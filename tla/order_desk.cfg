\* Two tabs of one owner; a page may retry once; the second hour is reached.
CONSTANTS
  p1 = p1
  p2 = p2
  alice = alice
  Pages = {p1, p2}
  Wallets = {alice}
  WalletOf <- SameWallet
  MaxRuns = 2
  MaxTime = 1
  Window = 1
SPECIFICATION Spec
INVARIANTS NoncesAreSequential DoneUnlessRaced OrphansAreExplained
CHECK_DEADLOCK FALSE
