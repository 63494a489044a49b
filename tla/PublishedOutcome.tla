--------------------------- MODULE PublishedOutcome --------------------------
(***************************************************************************)
(* What the handles of a published epoch decrypt to, as far as the rest of *)
(* the network can tell outcomes apart (ShrudClearingEngine._computeFloors,*)
(* ShrudIntentBook.EpochPublishedHandles).                                 *)
(***************************************************************************)
EXTENDS Integers

CONSTANTS
  EpochFloorK,      \* EPOCH_FLOOR_K, 3 in the contract
  ResidualFloorK    \* RESIDUAL_FLOOR_K, 2 in the contract

ASSUME FloorAssumption ==
  /\ EpochFloorK \in Nat \ {0}
  /\ ResidualFloorK \in Nat \ {0}

\* What the published values say of one route: nobody contributed and no venue
\* is needed (a residual of direction NONE included), too few did, or enough.
Route == {"Zero", "Short", "Met"}

RouteOf(contributors) ==
  IF contributors = 0 THEN "Zero"
  ELSE IF contributors < ResidualFloorK THEN "Short" ELSE "Met"

\* The floors of n candidates.  An order has one action, so no candidate is
\* counted for both routes, and one that contributes to a route is effective.
Outcome(n) ==
  {[epochFloor |-> c[1] >= EpochFloorK,
    residual   |-> RouteOf(c[2]),
    supply     |-> RouteOf(c[3])] :
     c \in {k \in (0 .. n) \X (0 .. n) \X (0 .. n) : k[2] + k[3] <= k[1]}}

Published == [epochFloor : BOOLEAN, residual : Route, supply : Route]
==============================================================================
