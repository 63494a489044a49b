SPECIFICATION Spec
CONSTANTS
  Word = 4096
  Scale = 2
  EpochFloorK = 3
  ResidualFloorK = 2
  Books <- MCBooks
  Prices = {2, 3}
  BatchSizes = {1, 2, 16}
  Surplus = {0, 1, 3}
INVARIANTS
  MatchesReference
  SharesAreWithinWhole
  DebtIsDust
  OutcomeIsCovered
  LimitsHold
\* An epoch ends: reconciled, or published with a floor missed.
CHECK_DEADLOCK FALSE
