--------------------------- MODULE DocumentedClaims --------------------------
(***************************************************************************)
(* Claims the repository makes of its contracts and the contracts do not   *)
(* keep.  Each is stated as it is written there; a run shows a behaviour   *)
(* of the code that breaks it.                                             *)
(***************************************************************************)
EXTENDS NetworkLiveness

\* ShrudSettlementEngine.sol on an epoch that misses its floor: "The epoch
\* becomes recoverable and every participant gets their confidential escrow
\* back".
FloorMissIsRecoverable ==
  \A e \in Epochs :
    (committed[e] /\ ~outcome[e].epochFloor) ~> epochStatus[e] = "Recoverable"

==============================================================================
