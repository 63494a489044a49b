\* No guardian, and venues that always answer.
CONSTANTS
  Intents = {1, 2}
  e1 = e1  e2 = e2  m1 = m1  m2 = m2
  Epochs = {e1}
  Modules = {m1, m2}
  NoEpoch = NoEpoch
  ModuleOf <- MCModuleOf
  EpochOf <- MCOneEpochOf
  MaxCandidates = 2
  Lifetime = 1
  EpochFloorK = 2
  ResidualFloorK = 1
  NoOutcome = NoOutcome
  MaxStaleness = 1
  SettlementTimeout = 1
  BatchSizes = {2}
  GuardianMay = {}
SPECIFICATION FairVenueSpec
PROPERTY FloorMissIsRecoverable
