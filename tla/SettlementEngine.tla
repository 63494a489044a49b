--------------------------- MODULE SettlementEngine --------------------------
(***************************************************************************)
(* contracts/settlement/ShrudSettlementEngine.sol: what follows the        *)
(* publication of an epoch.  The swap route (verifyResidual,               *)
(* settleResidual, reconcile, declareTimedOut) and the supply route        *)
(* (verifyAggregateSupply, settleAggregateSupply, reconcileSupply) are two *)
(* state machines over the same epoch; every function is open to any       *)
(* caller.                                                                 *)
(*                                                                         *)
(* The venue is external: a call that fails reverts the transaction, so a  *)
(* Settle step is a call that succeeded and a failure is no step at all.   *)
(* The status Settling is written and overwritten inside one transaction   *)
(* and is never seen between two.                                          *)
(***************************************************************************)
EXTENDS ClearingEngine

CONSTANT SettlementTimeout   \* SETTLEMENT_TIMEOUT_BLOCKS, in ticks

ASSUME SettlementAssumption == SettlementTimeout \in Nat

VARIABLES
  swapStatus,     \* SettlementRecord.status
  swapCursor,     \* SettlementRecord.cursor
  swapAge,        \* blocks since verifiedAtBlock, at most the timeout plus one
  settled,        \* _consumed
  supplyStatus,   \* SupplyRecord.status
  supplyCursor    \* SupplyRecord.cursor

settlementVars ==
  <<swapStatus, swapCursor, swapAge, settled, supplyStatus, supplyCursor>>

swapVars == <<swapStatus, swapCursor, swapAge, settled>>
supplyVars == <<supplyStatus, supplyCursor>>

SwapStatus == {"None", "Verified", "Executed", "Reconciled", "NoPublicResidual",
               "Recoverable"}
SupplyStatus == {"None", "Verified", "Executed", "Reconciled", "NoPublicResidual"}

SettlementTypeOK ==
  /\ swapStatus \in [Epochs -> SwapStatus]
  /\ swapCursor \in [Epochs -> Nat]
  /\ swapAge \in [Epochs -> 0 .. SettlementTimeout + 1]
  /\ settled \in [Epochs -> BOOLEAN]
  /\ supplyStatus \in [Epochs -> SupplyStatus]
  /\ supplyCursor \in [Epochs -> Nat]

SettlementInit ==
  /\ swapStatus = [e \in Epochs |-> "None"]
  /\ swapCursor = [e \in Epochs |-> 0]
  /\ swapAge = [e \in Epochs |-> 0]
  /\ settled = [e \in Epochs |-> FALSE]
  /\ supplyStatus = [e \in Epochs |-> "None"]
  /\ supplyCursor = [e \in Epochs |-> 0]

AgeSettlements ==
  swapAge' = [e \in Epochs |->
                IF swapStatus[e] = "Verified" /\ swapAge[e] <= SettlementTimeout
                THEN swapAge[e] + 1 ELSE swapAge[e]]

\* What the book is left with when only an epoch's status changes.
orderVars == <<status, timeLeft, consumedBy, candidates, committed>>

-----------------------------------------------------------------------------
(* The swap route. *)

\* A residual of zero ends the route at once; a route short of its floor, and
\* an epoch short of its own, revert.
VerifyResidual(e) ==
  /\ RequireNotHalted("Settle")
  /\ ~settled[e]
  /\ swapStatus[e] = "None"
  /\ committed[e]
  /\ outcome[e].epochFloor
  /\ outcome[e].residual # "Short"
  /\ IF outcome[e].residual = "Zero"
     THEN /\ swapStatus' = [swapStatus EXCEPT ![e] = "NoPublicResidual"]
          /\ settled' = [settled EXCEPT ![e] = TRUE]
          /\ SetEpochStatus(e, "NoPublicResidual")
     ELSE /\ swapStatus' = [swapStatus EXCEPT ![e] = "Verified"]
          /\ UNCHANGED <<settled, epochStatus>>
  /\ swapAge' = [swapAge EXCEPT ![e] = 0]
  /\ UNCHANGED <<swapCursor, supplyVars, engineVars, pauseVars, orderVars, escrow>>

\* Mutant: a settlement that a halt does not stop.
SettleResidual_Halted(e) ==
  /\ swapStatus[e] = "Verified"
  /\ ~settled[e]
  /\ PriceIsFresh(e)
  /\ settled' = [settled EXCEPT ![e] = TRUE]
  /\ swapStatus' = [swapStatus EXCEPT ![e] = "Executed"]
  /\ SetEpochStatus(e, "Settled")
  /\ UNCHANGED <<swapCursor, swapAge, supplyVars, engineVars, pauseVars, orderVars,
                 escrow>>

\* Mutant: a settlement that a recovered epoch does not stop.
SettleResidual_Recovered(e) ==
  /\ RequireNotHalted("Settle")
  /\ swapStatus[e] \in {"Verified", "Recoverable"}
  /\ PriceIsFresh(e)
  /\ settled' = [settled EXCEPT ![e] = TRUE]
  /\ swapStatus' = [swapStatus EXCEPT ![e] = "Executed"]
  /\ SetEpochStatus(e, "Settled")
  /\ UNCHANGED <<swapCursor, swapAge, supplyVars, engineVars, pauseVars, orderVars,
                 escrow>>

SettleResidual(e) ==
  /\ RequireNotHalted("Settle")
  /\ swapStatus[e] = "Verified"
  /\ ~settled[e]
  /\ PriceIsFresh(e)
  /\ settled' = [settled EXCEPT ![e] = TRUE]
  /\ swapStatus' = [swapStatus EXCEPT ![e] = "Executed"]
  /\ SetEpochStatus(e, "Settled")
  /\ UNCHANGED <<swapCursor, swapAge, supplyVars, engineVars, pauseVars, orderVars,
                 escrow>>

\* The candidates from one cursor position up to another.
Batch(e, from, to) == {candidates[e][k] : k \in from + 1 .. to}

\* Where a batch of at most n candidates ends; n may be 0.
SettleEnd(e, c, n) == IF c + n > Count(e) THEN Count(e) ELSE c + n

\* Mutant: a batch that finishes the epoch whatever it has processed.
Reconcile_Early(e, n) ==
  LET end == SettleEnd(e, swapCursor[e], n) IN
  /\ RequireNotHalted("Settle")
  /\ swapStatus[e] \in {"Executed", "NoPublicResidual"}
  /\ GrantSettlementAccess(e)
  /\ RecordProcessed(Batch(e, swapCursor[e], end))
  /\ swapCursor' = [swapCursor EXCEPT ![e] = end]
  /\ swapStatus' = [swapStatus EXCEPT ![e] = "Reconciled"]
  /\ SetEpochStatus(e, "Settled")
  /\ UNCHANGED <<swapAge, settled, supplyVars, stage, cursor, outcome, priceAge,
                 pauseVars, timeLeft, consumedBy, candidates, committed, escrow>>

Reconcile(e, n) ==
  LET end == SettleEnd(e, swapCursor[e], n) IN
  /\ RequireNotHalted("Settle")
  /\ swapStatus[e] \in {"Executed", "NoPublicResidual"}
  /\ IF swapCursor[e] = 0 THEN GrantSettlementAccess(e) ELSE UNCHANGED granted
  /\ RecordProcessed(Batch(e, swapCursor[e], end))
  /\ swapCursor' = [swapCursor EXCEPT ![e] = end]
  /\ IF end = Count(e)
     THEN /\ swapStatus' = [swapStatus EXCEPT ![e] = "Reconciled"]
          /\ SetEpochStatus(e, "Settled")
     ELSE UNCHANGED <<swapStatus, epochStatus>>
  /\ UNCHANGED <<swapAge, settled, supplyVars, stage, cursor, outcome, priceAge,
                 pauseVars, timeLeft, consumedBy, candidates, committed, escrow>>

\* Mutant: a time-out that a pause or a halt stops.
DeclareTimedOut_Gated(e) ==
  /\ RequireNotHalted("Settle")
  /\ swapStatus[e] = "Verified"
  /\ swapAge[e] > SettlementTimeout
  /\ settled' = [settled EXCEPT ![e] = TRUE]
  /\ swapStatus' = [swapStatus EXCEPT ![e] = "Recoverable"]
  /\ SetEpochStatus(e, "Recoverable")
  /\ UNCHANGED <<swapCursor, swapAge, supplyVars, engineVars, pauseVars, orderVars,
                 escrow>>

\* Behind no pause gate.
DeclareTimedOut(e) ==
  /\ swapStatus[e] = "Verified"
  /\ swapAge[e] > SettlementTimeout
  /\ settled' = [settled EXCEPT ![e] = TRUE]
  /\ swapStatus' = [swapStatus EXCEPT ![e] = "Recoverable"]
  /\ SetEpochStatus(e, "Recoverable")
  /\ UNCHANGED <<swapCursor, swapAge, supplyVars, engineVars, pauseVars, orderVars,
                 escrow>>

-----------------------------------------------------------------------------
(* The supply route.  It reads neither _consumed nor the epoch's status.   *)

\* Mutant: a supply route that answers to its own floor only.
VerifySupply_NoEpochFloor(e) ==
  /\ RequireNotHalted("Settle")
  /\ supplyStatus[e] = "None"
  /\ committed[e]
  /\ outcome[e].supply # "Short"
  /\ supplyStatus' = [supplyStatus EXCEPT ![e] =
                        IF outcome[e].supply = "Zero" THEN "NoPublicResidual"
                                                      ELSE "Verified"]
  /\ UNCHANGED <<supplyCursor, swapVars, engineVars, pauseVars, bookVars, escrow>>

VerifySupply(e) ==
  /\ RequireNotHalted("Settle")
  /\ supplyStatus[e] = "None"
  /\ committed[e]
  /\ outcome[e].epochFloor
  /\ outcome[e].supply # "Short"
  /\ supplyStatus' = [supplyStatus EXCEPT ![e] =
                        IF outcome[e].supply = "Zero" THEN "NoPublicResidual"
                                                      ELSE "Verified"]
  /\ UNCHANGED <<supplyCursor, swapVars, engineVars, pauseVars, bookVars, escrow>>

SettleSupply(e) ==
  /\ RequireNotHalted("Settle")
  /\ supplyStatus[e] = "Verified"
  /\ supplyStatus' = [supplyStatus EXCEPT ![e] = "Executed"]
  /\ UNCHANGED <<supplyCursor, swapVars, engineVars, pauseVars, bookVars, escrow>>

\* Multiplying a candidate's encrypted supply needs the engine's grant on it,
\* which only grantSettlementAccess gives.
ReconcileSupply(e, n) ==
  LET end == SettleEnd(e, supplyCursor[e], n) IN
  /\ RequireNotHalted("Settle")
  /\ supplyStatus[e] = "Executed"
  /\ Batch(e, supplyCursor[e], end) # {} => granted[e]
  /\ supplyCursor' = [supplyCursor EXCEPT ![e] = end]
  /\ supplyStatus' = [supplyStatus EXCEPT ![e] =
                        IF end = Count(e) THEN "Reconciled" ELSE @]
  /\ UNCHANGED <<swapVars, engineVars, pauseVars, bookVars, escrow>>
==============================================================================
