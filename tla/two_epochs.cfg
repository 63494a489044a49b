\* Two epochs side by side, an order naming each.
CONSTANTS
  Intents = {1, 2}
  e1 = e1  e2 = e2  m1 = m1  m2 = m2
  Epochs = {e1, e2}
  Modules = {m1, m2}
  NoEpoch = NoEpoch
  ModuleOf <- MCModuleOf
  EpochOf <- MCTwoEpochOf
  MaxCandidates = 2
  Lifetime = 1
  EpochFloorK = 1
  ResidualFloorK = 1
  NoOutcome = NoOutcome
  MaxStaleness = 0
  SettlementTimeout = 0
  BatchSizes = {1}
  GuardianMay = {"Halt"}
SPECIFICATION Spec
INVARIANTS ConsumedIsSealed
PROPERTIES KeepsPromise
