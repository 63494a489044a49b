\* One epoch of two orders that may use both routes: a floor of two orders for
\* the epoch and of one contributor for a route.  Every guardian action that can
\* get in the way, and no fairness of the venues, the owners or the guardian.
CONSTANTS
  Intents = {1, 2}
  e1 = e1  e2 = e2  m1 = m1  m2 = m2
  Epochs = {e1}
  Modules = {m1, m2}
  NoEpoch = NoEpoch
  ModuleOf <- MCModuleOf
  EpochOf <- MCOneEpochOf
  MaxCandidates = 2
  Lifetime = 2
  EpochFloorK = 2
  ResidualFloorK = 1
  NoOutcome = NoOutcome
  MaxStaleness = 2
  SettlementTimeout = 1
  BatchSizes <- MCBatchSizes
  GuardianMay = {"Pause", "Halt", "Clear", "Settle"}
SPECIFICATION FairSpec
INVARIANTS DisclosureNeedsCompany
PROPERTIES VenueSpendsHeldEscrow SwapEndsOnce SealedIsPublished VerifiedIsResolved SettledIsProcessed OrdersAreDecided
