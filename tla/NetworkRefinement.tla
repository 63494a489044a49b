--------------------------- MODULE NetworkRefinement -------------------------
(***************************************************************************)
(* The contracts together implement ClearingPromise: the mapping reads the *)
(* public life of an order from the book, its custody from the vault, and  *)
(* the end of the two routes from the settlement engine.                   *)
(***************************************************************************)
EXTENDS NetworkSafety

FateOf(i) ==
  CASE status[i] = "None" -> "Idle"
    [] status[i] = "Submitted" -> "Offered"
    [] status[i] = "Authorised" -> IF consumedBy[i] = NoEpoch THEN "Locked" ELSE "Sealed"
    [] status[i] = "Processed" -> "Cleared"
    [] status[i] = "Expired" -> "Lapsed"
    [] status[i] = "Cancelled" -> "Withdrawn"

CustodyOf(i) ==
  CASE escrow[i] = "Empty" -> "Safe"
    [] escrow[i] = "Held" -> "Vault"
    [] escrow[i] \in {"Refunded", "Exited"} -> "Returned"

SwapEnd(e) ==
  CASE swapStatus[e] \in {"None", "Verified"} -> "Pending"
    [] swapStatus[e] = "Recoverable" -> "Recovered"
    [] swapStatus[e] \in {"Executed", "NoPublicResidual", "Reconciled"} ->
         IF outcome[e].residual = "Zero" THEN "NoVenue" ELSE "Venue"

SupplyEnd(e) ==
  CASE supplyStatus[e] \in {"None", "Verified"} -> "Pending"
    [] supplyStatus[e] = "NoPublicResidual" -> "NoVenue"
    [] supplyStatus[e] \in {"Executed", "Reconciled"} -> "Venue"

Promise == INSTANCE ClearingPromise WITH
  Orders <- Intents,
  Home <- EpochOf,
  fate <- [i \in Intents |-> FateOf(i)],
  custody <- [i \in Intents |-> CustodyOf(i)],
  sealed <- [e \in Epochs |-> Members(e)],
  swap <- [e \in Epochs |-> SwapEnd(e)],
  supply <- [e \in Epochs |-> SupplyEnd(e)],
  stopped <- (netState = "Halted")

\* Every transaction of the contracts is one step of the promise, or none: a
\* value is locked once and comes back once, a sealed set is fixed, a route
\* ends once and spends only what the vault still holds.
KeepsPromise == Promise!Spec
==============================================================================
