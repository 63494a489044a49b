\* Room for an interrupted deployment and a whole one, or for two attempts of
\* the adapters; one foreign transaction at any moment.
CONSTANTS
  MaxNonce = 32
  MaxMishaps = 1
  MaxTime = 1
  Delay = 1
  NoCode = NoCode
  NoManifest = NoManifest
  NoScript = NoScript
SPECIFICATION FairSpec
INVARIANTS ManifestIsCoherent AdaptersMatchManifest PassedIsWhole
PROPERTIES WaitsEnd
CHECK_DEADLOCK FALSE
