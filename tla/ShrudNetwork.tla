----------------------------- MODULE ShrudNetwork ----------------------------
(***************************************************************************)
(* The deployed contracts together.  Every step is one transaction of some *)
(* caller, a guardian's call included, or a tick of the chain's clock.     *)
(*                                                                         *)
(* The clock moves everything measured against it by one at a time: the    *)
(* orders' expiry, the age of the price snapshots and the blocks since a   *)
(* residual was verified.  Any number of transactions fit between ticks.   *)
(***************************************************************************)
EXTENDS SettlementEngine, SafeModule, EmergencyExit

CONSTANT BatchSizes   \* the maxCandidates arguments a keeper may pass

ASSUME BatchAssumption == BatchSizes \subseteq Nat

vars == <<pauseVars, bookVars, escrow, engineVars, settlementVars>>

TypeOK ==
  /\ PauseTypeOK
  /\ BookTypeOK
  /\ VaultTypeOK
  /\ EngineTypeOK
  /\ SettlementTypeOK

Init ==
  /\ PauseInit
  /\ BookInit
  /\ VaultInit
  /\ EngineInit
  /\ SettlementInit

-----------------------------------------------------------------------------
(* The actions, with the variables of the contracts a call does not reach. *)

Guardian == GuardianNext /\ UNCHANGED <<bookVars, escrow, engineVars, settlementVars>>

Tick ==
  /\ AgeIntents
  /\ AgePrices
  /\ AgeSettlements
  /\ UNCHANGED <<status, consumedBy, epochStatus, candidates, committed>>
  /\ UNCHANGED <<stage, cursor, outcome, granted>>
  /\ UNCHANGED <<swapStatus, swapCursor, settled, supplyVars, pauseVars, escrow>>

Submit(i) ==
  /\ \E life \in 1 .. Lifetime : SubmitIntent(i, life)
  /\ UNCHANGED <<engineVars, settlementVars>>

Activate(i) ==
  /\ \E m \in Modules : ActivateIntent(m, i)
  /\ UNCHANGED <<engineVars, settlementVars>>

Cancel(i) ==
  /\ \E m \in Modules : CancelIntent(m, i)
  /\ UNCHANGED <<engineVars, settlementVars>>

\* Mutant: an expiry that a pause stops.
Expire_Paused(i) ==
  /\ RequireLive("Activate")
  /\ RecordExpiry(i)
  /\ UNCHANGED <<pauseVars, escrow, engineVars, settlementVars>>

\* expireIntent: any caller, and no gate.
Expire(i) ==
  /\ RecordExpiry(i)
  /\ UNCHANGED <<pauseVars, escrow, engineVars, settlementVars>>

Exit(i) ==
  /\ ExitHalted(i) \/ ExitTimedOut(i)
  /\ UNCHANGED <<engineVars, settlementVars>>

OrderNext(i) == Submit(i) \/ Activate(i) \/ Cancel(i) \/ Expire(i) \/ Exit(i)

Open(e) == EngineOpenEpoch(e) /\ UNCHANGED settlementVars

CandidateLists == UNION {[1 .. n -> Intents] : n \in 1 .. MaxCandidates}

Seal(e) ==
  /\ \E s \in CandidateLists : EngineSealEpoch(e, s)
  /\ UNCHANGED settlementVars

Compute(e, n) ==
  /\ \/ RunClassification(e, n)
     \/ RunAccumulation(e, n)
     \/ RunCrossing(e)
     \/ RunAllocation(e, n)
     \/ RunResidual(e, n)
     \/ FinaliseResidual(e, n)
  /\ UNCHANGED settlementVars

Publish(e) == PublishResidual(e) /\ UNCHANGED settlementVars

SettleNext(e, n) ==
  \/ VerifyResidual(e)
  \/ SettleResidual(e)
  \/ Reconcile(e, n)
  \/ DeclareTimedOut(e)
  \/ VerifySupply(e)
  \/ SettleSupply(e)
  \/ ReconcileSupply(e, n)

EpochNext(e) ==
  \/ Open(e)
  \/ Seal(e)
  \/ \E n \in BatchSizes : Compute(e, n)
  \/ Publish(e)
  \/ \E n \in BatchSizes : SettleNext(e, n)

Next ==
  \/ Guardian
  \/ Tick
  \/ \E i \in Intents : OrderNext(i)
  \/ \E e \in Epochs : EpochNext(e)

Spec == Init /\ [][Next]_vars
==============================================================================
