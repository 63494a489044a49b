\* Two pages on one Safe, two transactions from them, one from elsewhere.  Two
\* visits: either both pages are opened, or one is and comes back online.
CONSTANTS
  Pages = {p1, p2}
  MaxOutside = 1
  MaxSends = 2
  MaxVisits = 2
  NoScan = NoScan
SPECIFICATION FairSpec
INVARIANTS SettledScanIsCurrent FailureIsExplained
PROPERTIES DeploymentIsSeen
CHECK_DEADLOCK FALSE
