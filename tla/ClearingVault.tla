---------------------------- MODULE ClearingVault ----------------------------
(***************************************************************************)
(* contracts/clearing/ShrudClearingVault.sol: custody of what an order     *)
(* locked.  The record's flags confirmed and released, with the path that  *)
(* released it, are one value per order:                                   *)
(*   Empty     not confirmed                                               *)
(*   Held      confirmed, not released                                     *)
(*   Refunded  released by refundCancelled                                 *)
(*   Exited    released by emergencyRelease                                *)
(* The other two exits of the contract (distribute, releaseResidual) and   *)
(* markConsumed admit only the engines, and neither engine calls them.     *)
(***************************************************************************)
EXTENDS PauseController, IntentBook

VARIABLE escrow

Escrow == {"Empty", "Held", "Refunded", "Exited"}

VaultTypeOK == escrow \in [Intents -> Escrow]

VaultInit == escrow = [i \in Intents |-> "Empty"]

\* The wrapper's callback followed by confirmLock: both run inside the
\* activating transaction, so the pending credit is never seen outside it.
\* The callback demands that the operator m is the order's own module.
LockEscrow(m, i) ==
  /\ ModuleOf[i] = m
  /\ escrow[i] = "Empty"
  /\ escrow' = [escrow EXCEPT ![i] = "Held"]

RefundCancelled(m, i) ==
  /\ ModuleOf[i] = m
  /\ escrow[i] = "Held"
  /\ escrow' = [escrow EXCEPT ![i] = "Refunded"]

EmergencyRelease(i) ==
  /\ RequireHalted
  /\ escrow[i] = "Held"
  /\ escrow' = [escrow EXCEPT ![i] = "Exited"]
==============================================================================
