\* One epoch, three orders of two treasuries, the contract's own floors.
CONSTANTS
  Intents = {1, 2, 3}
  e1 = e1  e2 = e2  m1 = m1  m2 = m2
  Epochs = {e1}
  Modules = {m1, m2}
  NoEpoch = NoEpoch
  ModuleOf <- MCModuleOf
  EpochOf <- MCOneEpochOf
  MaxCandidates = 3
  Lifetime = 1
  EpochFloorK = 3
  ResidualFloorK = 2
  NoOutcome = NoOutcome
  MaxStaleness = 1
  SettlementTimeout = 1
  BatchSizes <- MCBatchSizes
  GuardianMay = {"Pause", "Halt"}
SPECIFICATION Spec
INVARIANTS TypeOK SealedKeepsEscrow EscrowFollowsStatus ProcessedIsPrefix EpochViewsAgree
PROPERTIES HaltFreezes PauseTakesNoNewValue
