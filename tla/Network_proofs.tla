---------------------------- MODULE Network_proofs ----------------------------
(***************************************************************************)
(* Proofs about the network for every value of its constants: any number   *)
(* of orders, epochs, modules and candidates, any floors, lifetimes and    *)
(* time-outs, any guardian.  Five parts, each on the ones before: the      *)
(* types and the pause, the custody of orders, the settlement, the epochs, *)
(* and the refinement of ClearingPromise.                                  *)
(***************************************************************************)
EXTENDS NetworkSafety, NetworkRefinement, FiniteSetTheorems, TLAPS

-----------------------------------------------------------------------------
(* Lemmas about the operators. *)

LEMMA BatchEndBounds ==
  ASSUME TypeOK, NEW e \in Epochs, NEW n \in Nat
  PROVE  /\ Count(e) \in Nat
         /\ BatchEnd(e, n) \in Nat
         /\ BatchEnd(e, n) <= Count(e)
BY DEF TypeOK, BookTypeOK, EngineTypeOK, Count, BatchEnd

LEMMA CandidateListType ==
  ASSUME NEW s \in CandidateLists
  PROVE  s \in Seq(Intents)
BY BookAssumption DEF CandidateLists, BookAssumption

LEMMA OutcomeType ==
  ASSUME NEW n \in Nat
  PROVE  Outcome(n) \subseteq Published
<1> SUFFICES ASSUME NEW o \in Outcome(n) PROVE o \in Published
  OBVIOUS
<1>1. PICK c \in (0 .. n) \X (0 .. n) \X (0 .. n) :
        o = [epochFloor |-> c[1] >= EpochFloorK, residual |-> RouteOf(c[2]),
             supply |-> RouteOf(c[3])]
  BY DEF Outcome
<1>2. RouteOf(c[2]) \in Route /\ RouteOf(c[3]) \in Route
  BY DEF RouteOf, Route
<1>3. (c[1] >= EpochFloorK) \in BOOLEAN
  OBVIOUS
<1> QED
  BY <1>1, <1>2, <1>3 DEF Published

-----------------------------------------------------------------------------
(* Type correctness: one lemma per contract that takes part. *)

LEMMA InitType == Init => TypeOK
BY BookAssumption, EngineAssumption, SettlementAssumption
DEF Init, PauseInit, BookInit, VaultInit, EngineInit, SettlementInit,
    TypeOK, PauseTypeOK, BookTypeOK, VaultTypeOK, EngineTypeOK, SettlementTypeOK,
    NetState, IntentStatus, EpochStatus, Escrow, Stage, SwapStatus, SupplyStatus,
    BookAssumption, EngineAssumption, SettlementAssumption

LEMMA GuardianType ==
  ASSUME TypeOK, Guardian
  PROVE  TypeOK'
<1>1. PauseTypeOK'
  BY DEF TypeOK, PauseTypeOK, Guardian, GuardianNext, Pause, Halt, PauseActivity, NetState
<1>2. UNCHANGED <<bookVars, escrow, engineVars, settlementVars>>
  BY DEF Guardian
<1> QED
  BY <1>1, <1>2
  DEF TypeOK, BookTypeOK, VaultTypeOK, EngineTypeOK, SettlementTypeOK,
      bookVars, engineVars, settlementVars, Count

LEMMA TickType ==
  ASSUME TypeOK, Tick
  PROVE  TypeOK'
<1> USE BookAssumption, EngineAssumption, SettlementAssumption
    DEF BookAssumption, EngineAssumption, SettlementAssumption
<1>1. timeLeft' \in [Intents -> -1 .. Lifetime]
  BY DEF TypeOK, BookTypeOK, Tick, AgeIntents
<1>2. priceAge' \in [Epochs -> 0 .. MaxStaleness + 1]
  BY DEF TypeOK, EngineTypeOK, Tick, AgePrices
<1>3. swapAge' \in [Epochs -> 0 .. SettlementTimeout + 1]
  BY DEF TypeOK, SettlementTypeOK, Tick, AgeSettlements
<1> QED
  BY <1>1, <1>2, <1>3
  DEF TypeOK, PauseTypeOK, BookTypeOK, VaultTypeOK, EngineTypeOK, SettlementTypeOK,
      Tick, pauseVars, supplyVars, Count

LEMMA OrderType ==
  ASSUME TypeOK, NEW i \in Intents, OrderNext(i)
  PROVE  TypeOK'
<1> USE BookAssumption DEF BookAssumption
<1>0. /\ PauseTypeOK' /\ EngineTypeOK' /\ SettlementTypeOK'
      /\ UNCHANGED <<consumedBy, epochStatus, candidates, committed>>
  BY DEF TypeOK, PauseTypeOK, EngineTypeOK, SettlementTypeOK, Count,
         OrderNext, Submit, Activate, Cancel, Expire, Exit,
         SubmitIntent, ActivateIntent, CancelIntent, ExitHalted, ExitTimedOut,
         RecordSubmission, RecordAuthorisation, RecordCancellation, RecordExpiry,
         pauseVars, bookVars, engineVars, settlementVars, swapVars, supplyVars
<1>1. status' \in [Intents -> IntentStatus]
  BY DEF TypeOK, BookTypeOK, IntentStatus,
         OrderNext, Submit, Activate, Cancel, Expire, Exit,
         SubmitIntent, ActivateIntent, CancelIntent, ExitHalted, ExitTimedOut,
         RecordSubmission, RecordAuthorisation, RecordCancellation, RecordExpiry, bookVars
<1>1a. timeLeft' \in [Intents -> -1 .. Lifetime]
  <2>1. CASE Submit(i)
    <3>1. PICK life \in 1 .. Lifetime : timeLeft' = [timeLeft EXCEPT ![i] = life]
      BY <2>1 DEF Submit, SubmitIntent, RecordSubmission
    <3> QED
      BY <3>1 DEF TypeOK, BookTypeOK
  <2>2. CASE ~Submit(i)
    <3>1. UNCHANGED timeLeft
      BY <2>2
      DEF OrderNext, Activate, Cancel, Expire, Exit, ActivateIntent, CancelIntent,
          ExitHalted, ExitTimedOut, RecordAuthorisation, RecordCancellation,
          RecordExpiry, bookVars
    <3> QED
      BY <3>1 DEF TypeOK, BookTypeOK
  <2> QED
    BY <2>1, <2>2
<1>2. VaultTypeOK'
  BY DEF TypeOK, VaultTypeOK, Escrow,
         OrderNext, Submit, Activate, Cancel, Expire, Exit,
         SubmitIntent, ActivateIntent, CancelIntent, ExitHalted, ExitTimedOut,
         LockEscrow, RefundCancelled, EmergencyRelease
<1> QED
  BY <1>0, <1>1, <1>1a, <1>2 DEF TypeOK, BookTypeOK

LEMMA SealType ==
  ASSUME TypeOK, NEW e \in Epochs, Open(e) \/ Seal(e)
  PROVE  TypeOK'
<1>1. CASE Open(e)
  BY <1>1
  DEF Open, EngineOpenEpoch, BookOpenEpoch, Count, EpochStatus,
      TypeOK, PauseTypeOK, BookTypeOK, VaultTypeOK, EngineTypeOK, SettlementTypeOK,
      pauseVars, engineVars, settlementVars
<1>2. CASE Seal(e)
  <2>1. PICK s \in CandidateLists : EngineSealEpoch(e, s)
    BY <1>2 DEF Seal
  <2>2. s \in Seq(Intents)
    BY CandidateListType
  <2>3. BookTypeOK'
    BY <2>1, <2>2 DEF EngineSealEpoch, BookSealEpoch, TypeOK, BookTypeOK, EpochStatus
  <2>4. EngineTypeOK'
    BY <2>1 DEF EngineSealEpoch, BookSealEpoch, TypeOK, EngineTypeOK, Stage, Count
  <2> QED
    BY <1>2, <2>1, <2>3, <2>4
    DEF Seal, EngineSealEpoch, TypeOK, PauseTypeOK, VaultTypeOK, SettlementTypeOK,
        pauseVars, settlementVars
<1> QED
  BY <1>1, <1>2

\* A step of the computation is a batch of a stage that is neither the first nor
\* the last, the crossing, or a batch of the last stage.
LEMMA ComputeCases ==
  ASSUME NEW e \in Epochs, NEW n \in Nat, Compute(e, n)
  PROVE  \/ \E from \in Stage \ {"None", "Published"}, next \in Stage \ {"None", "Published"} :
               RunBatch(e, n, from, next)
         \/ RunCrossing(e)
         \/ FinaliseResidual(e, n)
BY DEF Compute, RunClassification, RunAccumulation, RunAllocation, RunResidual, Stage

LEMMA ComputeType ==
  ASSUME TypeOK, NEW e \in Epochs, NEW n \in Nat, Compute(e, n)
  PROVE  TypeOK'
<1>1. Count(e) \in Nat /\ BatchEnd(e, n) \in Nat
  BY BatchEndBounds
<1>2. UNCHANGED <<bookVars, pauseVars, escrow, settlementVars, granted, priceAge>>
  BY ComputeCases DEF Compute, RunBatch, RunCrossing, FinaliseResidual
<1>3. EngineTypeOK'
  <2>1. ASSUME NEW from \in Stage \ {"None", "Published"},
               NEW next \in Stage \ {"None", "Published"}, RunBatch(e, n, from, next)
        PROVE  EngineTypeOK'
    <3>1. stage[e] # "Published"
      BY <2>1 DEF RunBatch
    <3>2. Advance(e, BatchEnd(e, n), next) /\ UNCHANGED outcome
      BY <2>1 DEF RunBatch
    <3>3. /\ cursor' \in [Epochs -> Nat]
          /\ stage' \in [Epochs -> Stage]
          /\ \A d \in Epochs :
               \/ stage'[d] = stage[d]
               \/ d = e /\ stage'[d] \in Stage \ {"None", "Published"}
      BY <1>1, <3>1, <3>2 DEF Advance, TypeOK, EngineTypeOK
    <3> QED
      BY <1>2, <2>1, <3>1, <3>2, <3>3 DEF TypeOK, EngineTypeOK, bookVars, Count
  <2>2. CASE RunCrossing(e)
    BY <1>1, <1>2, <2>2 DEF RunCrossing, TypeOK, EngineTypeOK, Stage, bookVars, Count
  <2>3. CASE FinaliseResidual(e, n) /\ BatchEnd(e, n) = Count(e)
    <3>1. PICK o \in Outcome(Count(e)) : outcome' = [outcome EXCEPT ![e] = o]
      BY <2>3 DEF FinaliseResidual
    <3>2. o \in Published
      BY <1>1, <3>1, OutcomeType
    <3> QED
      <4>1. /\ cursor' = [cursor EXCEPT ![e] = 0]
            /\ stage' = [stage EXCEPT ![e] = "Published"]
        BY <2>3 DEF FinaliseResidual, Advance
      <4>2. outcome' \in [Epochs -> Published \cup {NoOutcome}]
        BY <3>1, <3>2 DEF TypeOK, EngineTypeOK
      <4>3. \A d \in Epochs : /\ stage'[d] # "Published" => outcome'[d] = NoOutcome
                              /\ stage'[d] = "Published" => outcome'[d] \in Outcome(Count(d))
        BY <3>1, <4>1 DEF TypeOK, EngineTypeOK
      <4>4. \A d \in Epochs : Count(d)' = Count(d)
        BY <1>2 DEF bookVars, Count
      <4>5. stage' \in [Epochs -> Stage] /\ cursor' \in [Epochs -> Nat]
        BY <4>1 DEF TypeOK, EngineTypeOK, Stage
      <4>6. \A d \in Epochs : stage'[d] = "Published" => outcome'[d] \in Outcome(Count(d)')
        BY <4>3, <4>4
      <4> QED
        BY <1>2, <4>2, <4>3, <4>5, <4>6 DEF TypeOK, EngineTypeOK
  <2>4. CASE FinaliseResidual(e, n) /\ BatchEnd(e, n) # Count(e)
    BY <1>1, <1>2, <2>4
    DEF FinaliseResidual, Advance, TypeOK, EngineTypeOK, Stage, bookVars, Count
  <2> QED
    BY <2>1, <2>2, <2>3, <2>4, ComputeCases
<1> QED
  BY <1>2, <1>3
  DEF TypeOK, PauseTypeOK, BookTypeOK, VaultTypeOK, SettlementTypeOK,
      bookVars, pauseVars, settlementVars

LEMMA PublishType ==
  ASSUME TypeOK, NEW e \in Epochs, Publish(e)
  PROVE  TypeOK'
BY DEF Publish, PublishResidual, BookCommit, EpochStatus, Count,
       TypeOK, PauseTypeOK, BookTypeOK, VaultTypeOK, EngineTypeOK, SettlementTypeOK,
       pauseVars, engineVars, settlementVars

LEMMA SettleEndBounds ==
  ASSUME TypeOK, NEW e \in Epochs, NEW c \in Nat, NEW n \in Nat
  PROVE  /\ Count(e) \in Nat
         /\ SettleEnd(e, c, n) \in Nat
         /\ SettleEnd(e, c, n) <= Count(e)
         /\ c <= Count(e) => c <= SettleEnd(e, c, n)
BY DEF TypeOK, BookTypeOK, Count, SettleEnd

\* What the settlement engine leaves alone, and the engine it only grants.
LEMMA SettleFrame ==
  ASSUME NEW e \in Epochs, NEW n \in Nat, SettleNext(e, n)
  PROVE  /\ UNCHANGED <<timeLeft, consumedBy, candidates, committed>>
         /\ UNCHANGED <<stage, cursor, outcome, priceAge, pauseVars, escrow>>
         /\ UNCHANGED granted \/ granted' = [granted EXCEPT ![e] = TRUE]
BY DEF SettleNext, VerifyResidual, SettleResidual, Reconcile, DeclareTimedOut,
       VerifySupply, SettleSupply, ReconcileSupply, GrantSettlementAccess,
       engineVars, bookVars, orderVars

LEMMA SettleType ==
  ASSUME TypeOK, NEW e \in Epochs, NEW n \in Nat, SettleNext(e, n)
  PROVE  TypeOK'
<1>1. PauseTypeOK' /\ VaultTypeOK' /\ EngineTypeOK'
  BY SettleFrame
  DEF TypeOK, PauseTypeOK, VaultTypeOK, EngineTypeOK, pauseVars, Count
<1>2. BookTypeOK'
  <2>1. status' \in [Intents -> IntentStatus]
    BY DEF SettleNext, VerifyResidual, SettleResidual, Reconcile, DeclareTimedOut,
           VerifySupply, SettleSupply, ReconcileSupply, RecordProcessed,
           bookVars, orderVars, TypeOK, BookTypeOK, IntentStatus
  <2>2. epochStatus' \in [Epochs -> EpochStatus]
    BY DEF SettleNext, VerifyResidual, SettleResidual, Reconcile, DeclareTimedOut,
           VerifySupply, SettleSupply, ReconcileSupply, SetEpochStatus,
           bookVars, orderVars, TypeOK, BookTypeOK, EpochStatus
  <2> QED
    BY <2>1, <2>2, SettleFrame DEF TypeOK, BookTypeOK
<1>3. SettlementTypeOK'
  <2> USE SettlementAssumption
      DEF SettlementAssumption, TypeOK, SettlementTypeOK, SwapStatus, SupplyStatus,
          swapVars, supplyVars
  <2>1. CASE VerifyResidual(e)
    <3>1. \/ /\ swapStatus' = [swapStatus EXCEPT ![e] = "NoPublicResidual"]
             /\ settled' = [settled EXCEPT ![e] = TRUE]
          \/ /\ swapStatus' = [swapStatus EXCEPT ![e] = "Verified"]
             /\ UNCHANGED settled
      BY <2>1 DEF VerifyResidual
    <3>2. swapAge' = [swapAge EXCEPT ![e] = 0] /\ UNCHANGED <<swapCursor, supplyVars>>
      BY <2>1 DEF VerifyResidual
    <3>3. swapStatus' \in [Epochs -> SwapStatus] /\ settled' \in [Epochs -> BOOLEAN]
      BY <3>1
    <3>4. swapAge' \in [Epochs -> 0 .. SettlementTimeout + 1]
      BY <3>2
    <3> QED
      BY <3>2, <3>3, <3>4
  <2>2. CASE SettleResidual(e) \/ DeclareTimedOut(e)
    BY <2>2 DEF SettleResidual, DeclareTimedOut
  <2>3. CASE Reconcile(e, n)
    <3>1. SettleEnd(e, swapCursor[e], n) \in Nat
      BY SettleEndBounds
    <3> QED
      BY <2>3, <3>1 DEF Reconcile
  <2>4. CASE VerifySupply(e) \/ SettleSupply(e)
    BY <2>4 DEF VerifySupply, SettleSupply
  <2>5. CASE ReconcileSupply(e, n)
    <3>1. SettleEnd(e, supplyCursor[e], n) \in Nat
      BY SettleEndBounds
    <3> QED
      BY <2>5, <3>1 DEF ReconcileSupply
  <2> QED
    BY <2>1, <2>2, <2>3, <2>4, <2>5 DEF SettleNext
<1> QED
  BY <1>1, <1>2, <1>3 DEF TypeOK

LEMMA NextType == TypeOK /\ [Next]_vars => TypeOK'
<1> SUFFICES ASSUME TypeOK, [Next]_vars PROVE TypeOK'
  OBVIOUS
<1>1. CASE Guardian
  BY <1>1, GuardianType
<1>2. CASE Tick
  BY <1>2, TickType
<1>3. CASE \E i \in Intents : OrderNext(i)
  BY <1>3, OrderType
<1>4. CASE \E e \in Epochs : EpochNext(e)
  <2>1. PICK e \in Epochs : EpochNext(e)
    BY <1>4
  <2> QED
    BY <2>1, SealType, ComputeType, PublishType, SettleType, BatchAssumption
    DEF EpochNext, BatchAssumption
<1>5. CASE UNCHANGED vars
  BY <1>5
  DEF vars, pauseVars, bookVars, engineVars, settlementVars, Count,
      TypeOK, PauseTypeOK, BookTypeOK, VaultTypeOK, EngineTypeOK, SettlementTypeOK
<1> QED
  BY <1>1, <1>2, <1>3, <1>4, <1>5 DEF Next

\* Every variable of every contract keeps its type; in particular what an epoch
\* publishes is fixed exactly from its last stage on.
THEOREM TypeCorrect == Spec => []TypeOK
<1> QED
  BY InitType, NextType, PTL DEF Spec

-----------------------------------------------------------------------------
(***************************************************************************)
(* The custody of an order, for every value of the constants: an order in  *)
(* a sealed set belongs to that epoch alone and keeps its escrow, and the  *)
(* vault follows the book.  The three properties are inductive together    *)
(* (with type correctness): a seal needs the second and third to know that *)
(* an authorised order of a live network is still held, a cancellation and *)
(* an expiry need the first to know that an unconsumed order is in no set. *)
(***************************************************************************)

CustodyInv == ConsumedIsSealed /\ SealedKeepsEscrow /\ EscrowFollowsStatus

\* A step that moves no order and no escrow.
Quiet ==
  /\ UNCHANGED <<status, consumedBy, candidates, escrow>>
  /\ netState = "Halted" => netState' = "Halted"
  /\ \A e \in Epochs : stage'[e] = "None" <=> stage[e] = "None"

LEMMA MembersAreOrders ==
  ASSUME TypeOK, NEW e \in Epochs
  PROVE  Members(e) \subseteq Intents
BY DEF TypeOK, BookTypeOK, Members, Count

LEMMA SealedSetsStay ==
  ASSUME ConsumedIsSealed, UNCHANGED <<consumedBy, candidates>>,
         \A e \in Epochs : stage'[e] = "None" <=> stage[e] = "None"
  PROVE  ConsumedIsSealed'
BY DEF ConsumedIsSealed, StrictlySorted, Members, Count

LEMMA QuietKeepsCustody ==
  ASSUME TypeOK, CustodyInv, Quiet
  PROVE  CustodyInv'
<1>1. ConsumedIsSealed'
  BY SealedSetsStay DEF Quiet, CustodyInv
<1>2. SealedKeepsEscrow'
  BY DEF Quiet, CustodyInv, SealedKeepsEscrow, Members, Count
<1>3. EscrowFollowsStatus'
  BY DEF Quiet, CustodyInv, EscrowFollowsStatus
<1> QED
  BY <1>1, <1>2, <1>3 DEF CustodyInv

-----------------------------------------------------------------------------
(* The steps that are quiet. *)

LEMMA GuardianQuiet == ASSUME Guardian PROVE Quiet
BY DEF Guardian, GuardianNext, Pause, Halt, PauseActivity, Quiet, bookVars, engineVars

LEMMA TickQuiet == ASSUME Tick PROVE Quiet
BY DEF Tick, Quiet, pauseVars

LEMMA OpenQuiet == ASSUME NEW e \in Epochs, Open(e) PROVE Quiet
BY DEF Open, EngineOpenEpoch, BookOpenEpoch, Quiet, pauseVars, engineVars

LEMMA PublishQuiet == ASSUME NEW e \in Epochs, Publish(e) PROVE Quiet
BY DEF Publish, PublishResidual, BookCommit, Quiet, pauseVars, engineVars

LEMMA ComputeQuiet ==
  ASSUME TypeOK, NEW e \in Epochs, NEW n \in Nat, Compute(e, n)
  PROVE  Quiet
<1>1. UNCHANGED <<bookVars, pauseVars, escrow>>
  BY ComputeCases DEF RunBatch, RunCrossing, FinaliseResidual
<1>2. ASSUME NEW d \in Epochs
      PROVE  stage'[d] = "None" <=> stage[d] = "None"
  <2>1. ASSUME NEW from \in Stage \ {"None", "Published"},
               NEW next \in Stage \ {"None", "Published"}, RunBatch(e, n, from, next)
        PROVE  stage'[d] = "None" <=> stage[d] = "None"
    BY <2>1 DEF RunBatch, Advance, TypeOK, EngineTypeOK
  <2>2. CASE RunCrossing(e)
    BY <2>2 DEF RunCrossing, TypeOK, EngineTypeOK
  <2>3. CASE FinaliseResidual(e, n)
    BY <2>3 DEF FinaliseResidual, Advance, TypeOK, EngineTypeOK
  <2> QED
    BY <2>1, <2>2, <2>3, ComputeCases
<1> QED
  BY <1>1, <1>2 DEF Quiet, bookVars, pauseVars

LEMMA SettleQuiet ==
  ASSUME NEW e \in Epochs, NEW n \in Nat, SettleNext(e, n), ~Reconcile(e, n)
  PROVE  Quiet
<1>1. UNCHANGED status
  BY DEF SettleNext, VerifyResidual, SettleResidual, DeclareTimedOut,
         VerifySupply, SettleSupply, ReconcileSupply, bookVars, orderVars
<1> QED
  BY <1>1, SettleFrame DEF Quiet, pauseVars

-----------------------------------------------------------------------------
(* The steps that are not. *)

LEMMA OrderKeepsCustody ==
  ASSUME TypeOK, CustodyInv, NEW i \in Intents, OrderNext(i)
  PROVE  CustodyInv'
<1> USE BookAssumption DEF BookAssumption
<1>1. /\ UNCHANGED <<consumedBy, candidates, stage, netState>>
      /\ \A j \in Intents \ {i} : status'[j] = status[j] /\ escrow'[j] = escrow[j]
  <2>1. UNCHANGED <<consumedBy, candidates, stage, netState>>
    BY DEF OrderNext, Submit, Activate, Cancel, Expire, Exit,
           SubmitIntent, ActivateIntent, CancelIntent, ExitHalted, ExitTimedOut,
           RecordSubmission, RecordAuthorisation, RecordCancellation, RecordExpiry,
           pauseVars, bookVars, engineVars
  <2>2. \A j \in Intents \ {i} : status'[j] = status[j]
    BY DEF OrderNext, Submit, Activate, Cancel, Expire, Exit,
           SubmitIntent, ActivateIntent, CancelIntent, ExitHalted, ExitTimedOut,
           RecordSubmission, RecordAuthorisation, RecordCancellation, RecordExpiry,
           bookVars, TypeOK, BookTypeOK
  <2>3. \A j \in Intents \ {i} : escrow'[j] = escrow[j]
    BY DEF OrderNext, Submit, Activate, Cancel, Expire, Exit,
           SubmitIntent, ActivateIntent, CancelIntent, ExitHalted, ExitTimedOut,
           LockEscrow, RefundCancelled, EmergencyRelease, TypeOK, VaultTypeOK
  <2> QED
    BY <2>1, <2>2, <2>3
<1>2. ConsumedIsSealed'
  BY <1>1, SealedSetsStay DEF CustodyInv
\* What the step did to its own order.
<1>3. \/ /\ status[i] = "None" /\ status'[i] = "Submitted" /\ escrow'[i] = escrow[i]
      \/ /\ status[i] = "Submitted" /\ status'[i] = "Authorised"
         /\ escrow'[i] = "Held"
      \/ /\ status[i] = "Submitted" /\ consumedBy[i] = NoEpoch
         /\ status'[i] = "Cancelled" /\ escrow'[i] = escrow[i]
      \/ /\ status[i] = "Authorised" /\ consumedBy[i] = NoEpoch
         /\ status'[i] = "Cancelled" /\ escrow'[i] = "Refunded"
      \/ /\ status[i] \in {"Submitted", "Authorised"} /\ consumedBy[i] = NoEpoch
         /\ status'[i] = "Expired" /\ escrow'[i] = escrow[i]
      \/ /\ netState = "Halted" /\ escrow[i] = "Held"
         /\ status'[i] = status[i] /\ escrow'[i] = "Exited"
  <2> USE DEF TypeOK, BookTypeOK, VaultTypeOK
  <2>1. CASE Submit(i)
    BY <2>1 DEF Submit, SubmitIntent, RecordSubmission
  <2>2. CASE Activate(i)
    BY <2>2 DEF Activate, ActivateIntent, RecordAuthorisation, LockEscrow
  <2>3. CASE Cancel(i)
    BY <2>3 DEF Cancel, CancelIntent, RecordCancellation, RefundCancelled
  <2>4. CASE Expire(i)
    BY <2>4 DEF Expire, RecordExpiry
  <2>5. CASE Exit(i)
    BY <2>5 DEF Exit, ExitHalted, ExitTimedOut, EmergencyRelease, RequireHalted, bookVars
  <2> QED
    BY <2>1, <2>2, <2>3, <2>4, <2>5 DEF OrderNext
<1>4. SealedKeepsEscrow'
  <2> SUFFICES ASSUME NEW e \in Epochs, NEW j \in Members(e)
               PROVE  /\ status'[j] \in {"Authorised", "Processed"}
                      /\ \/ escrow'[j] = "Held"
                         \/ escrow'[j] = "Exited" /\ netState' = "Halted"
    BY <1>1 DEF SealedKeepsEscrow, Members, Count
  <2>1. /\ j \in Intents
        /\ consumedBy[j] = e
        /\ status[j] \in {"Authorised", "Processed"}
        /\ escrow[j] = "Held" \/ (escrow[j] = "Exited" /\ netState = "Halted")
    BY MembersAreOrders DEF CustodyInv, ConsumedIsSealed, SealedKeepsEscrow
  <2>2. CASE j # i
    BY <1>1, <2>1, <2>2
  <2>3. CASE j = i
    BY <1>1, <1>3, <2>1, <2>3
  <2> QED
    BY <2>2, <2>3
<1>5. EscrowFollowsStatus'
  <2> SUFFICES ASSUME NEW j \in Intents
               PROVE  EscrowFollowsStatus!(j)'
    BY DEF EscrowFollowsStatus
  <2>1. CASE j # i
    BY <1>1, <2>1 DEF CustodyInv, EscrowFollowsStatus
  <2>2. CASE j = i
    BY <1>1, <1>3, <2>2 DEF CustodyInv, EscrowFollowsStatus
  <2> QED
    BY <2>1, <2>2
<1> QED
  BY <1>2, <1>4, <1>5 DEF CustodyInv

LEMMA SealKeepsCustody ==
  ASSUME TypeOK, CustodyInv, NEW e \in Epochs, Seal(e)
  PROVE  CustodyInv'
<1> USE BookAssumption DEF BookAssumption
<1>1. PICK s \in CandidateLists : EngineSealEpoch(e, s)
  BY DEF Seal
<1> DEFINE S == {s[k] : k \in 1 .. Len(s)}
<1>2. /\ s \in Seq(Intents) /\ Len(s) \in Nat /\ Len(s) >= 1
      /\ StrictlySorted(s)
      /\ S \subseteq Intents
      /\ \A i \in S : status[i] = "Authorised" /\ EpochOf[i] = e /\ consumedBy[i] = NoEpoch
  BY <1>1, CandidateListType DEF EngineSealEpoch, BookSealEpoch, Sealable
<1>3. /\ UNCHANGED <<status, escrow, netState>>
      /\ stage[e] = "None" /\ netState = "Live"
      /\ stage' = [stage EXCEPT ![e] = "Sealed"]
      /\ candidates' = [candidates EXCEPT ![e] = s]
      /\ consumedBy' = [i \in Intents |-> IF i \in S THEN e ELSE consumedBy[i]]
  BY <1>1 DEF EngineSealEpoch, BookSealEpoch, RequireLive, pauseVars
<1>4. /\ candidates'[e] = s /\ Members(e)' = S
      /\ \A d \in Epochs \ {e} : candidates'[d] = candidates[d] /\ Members(d)' = Members(d)
  BY <1>3 DEF TypeOK, BookTypeOK, Members, Count
<1>5. Members(e) = {}
  BY <1>3 DEF CustodyInv, ConsumedIsSealed, Members, Count
<1> HIDE DEF S
<1>6. ConsumedIsSealed'
  <2> SUFFICES ASSUME NEW d \in Epochs
               PROVE  /\ StrictlySorted(candidates'[d])
                      /\ candidates'[d] = << >> <=> stage'[d] = "None"
                      /\ \A i \in Intents : consumedBy'[i] = d <=> i \in Members(d)'
                      /\ \A i \in Members(d)' : EpochOf[i] = d
    BY DEF ConsumedIsSealed, StrictlySorted
  <2>1. CASE d = e
    <3>1. s # << >> /\ stage'[e] = "Sealed"
      BY <1>2, <1>3 DEF TypeOK, EngineTypeOK
    <3>2. \A i \in Intents : consumedBy'[i] = e <=> i \in S
      BY <1>3, <1>5 DEF CustodyInv, ConsumedIsSealed
    <3> QED
      BY <1>2, <1>4, <2>1, <3>1, <3>2
  <2>2. CASE d # e
    <3>1. stage'[d] = stage[d]
      BY <1>3, <2>2 DEF TypeOK, EngineTypeOK
    <3>2. \A i \in Intents : consumedBy'[i] = d <=> consumedBy[i] = d
      BY <1>2, <1>3, <2>2
    <3> QED
      BY <1>4, <2>2, <3>1, <3>2 DEF CustodyInv, ConsumedIsSealed
  <2> QED
    BY <2>1, <2>2
<1>7. SealedKeepsEscrow'
  <2> SUFFICES ASSUME NEW d \in Epochs, NEW i \in Members(d)'
               PROVE  /\ status'[i] \in {"Authorised", "Processed"}
                      /\ escrow'[i] = "Held" \/ (escrow'[i] = "Exited" /\ netState' = "Halted")
    BY DEF SealedKeepsEscrow
  <2>1. CASE d = e
    <3>1. i \in Intents /\ status[i] = "Authorised"
      BY <1>2, <1>4, <2>1
    <3> QED
      BY <1>3, <3>1 DEF CustodyInv, EscrowFollowsStatus
  <2>2. CASE d # e
    BY <1>3, <1>4, <2>2 DEF CustodyInv, SealedKeepsEscrow
  <2> QED
    BY <2>1, <2>2
<1>8. EscrowFollowsStatus'
  BY <1>3 DEF CustodyInv, EscrowFollowsStatus
<1> QED
  BY <1>6, <1>7, <1>8 DEF CustodyInv

LEMMA BatchAreMembers ==
  ASSUME TypeOK, NEW e \in Epochs, NEW n \in Nat
  PROVE  Batch(e, swapCursor[e], SettleEnd(e, swapCursor[e], n)) \subseteq Members(e)
<1>1. swapCursor[e] \in Nat
  BY DEF TypeOK, SettlementTypeOK
<1> DEFINE end == SettleEnd(e, swapCursor[e], n)
<1>2. end \in Nat /\ end <= Count(e) /\ Count(e) \in Nat
  BY <1>1, SettleEndBounds
<1> HIDE DEF end
<1>3. \A k \in swapCursor[e] + 1 .. end : k \in 1 .. Count(e)
  BY <1>1, <1>2
<1>4. Batch(e, swapCursor[e], end) \subseteq Members(e)
  BY <1>3 DEF Batch, Members
<1> QED
  BY <1>4 DEF end

LEMMA ReconcileKeepsCustody ==
  ASSUME TypeOK, CustodyInv, NEW e \in Epochs, NEW n \in Nat, Reconcile(e, n)
  PROVE  CustodyInv'
<1> DEFINE P == Batch(e, swapCursor[e], SettleEnd(e, swapCursor[e], n))
<1>1. P \subseteq Members(e) /\ Members(e) \subseteq Intents
  BY BatchAreMembers, MembersAreOrders
<1>2. /\ UNCHANGED <<consumedBy, candidates, stage, escrow, netState>>
      /\ status' = [i \in Intents |-> IF i \in P THEN "Processed" ELSE status[i]]
  BY DEF Reconcile, RecordProcessed, pauseVars
<1> HIDE DEF P
<1>3. ConsumedIsSealed'
  BY <1>2, SealedSetsStay DEF CustodyInv
<1>4. SealedKeepsEscrow'
  <2>0. \A d \in Epochs : Members(d)' = Members(d)
    BY <1>2 DEF Members, Count
  <2> SUFFICES ASSUME NEW d \in Epochs, NEW i \in Members(d)
               PROVE  /\ status'[i] \in {"Authorised", "Processed"}
                      /\ escrow'[i] = "Held" \/ (escrow'[i] = "Exited" /\ netState' = "Halted")
    BY <2>0 DEF SealedKeepsEscrow
  <2>1. /\ status[i] \in {"Authorised", "Processed"}
        /\ escrow[i] = "Held" \/ (escrow[i] = "Exited" /\ netState = "Halted")
    BY DEF CustodyInv, SealedKeepsEscrow
  <2>2. i \in Intents
    BY MembersAreOrders
  <2> QED
    BY <1>2, <2>1, <2>2
<1>5. EscrowFollowsStatus'
  BY <1>1, <1>2 DEF CustodyInv, SealedKeepsEscrow, EscrowFollowsStatus
<1> QED
  BY <1>3, <1>4, <1>5 DEF CustodyInv

-----------------------------------------------------------------------------
(* The invariant, and its three parts. *)

LEMMA InitCustody == Init => CustodyInv
BY BookAssumption
DEF Init, PauseInit, BookInit, VaultInit, EngineInit, CustodyInv, BookAssumption,
    ConsumedIsSealed, SealedKeepsEscrow, EscrowFollowsStatus, StrictlySorted, Members, Count

LEMMA NextCustody == TypeOK /\ CustodyInv /\ [Next]_vars => CustodyInv'
<1> SUFFICES ASSUME TypeOK, CustodyInv, [Next]_vars PROVE CustodyInv'
  OBVIOUS
<1>1. CASE Guardian \/ Tick
  BY <1>1, GuardianQuiet, TickQuiet, QuietKeepsCustody
<1>2. CASE \E i \in Intents : OrderNext(i)
  BY <1>2, OrderKeepsCustody
<1>3. CASE \E e \in Epochs : EpochNext(e)
  <2>1. PICK e \in Epochs : EpochNext(e)
    BY <1>3
  <2>2. CASE Open(e) \/ Publish(e)
    BY <2>2, OpenQuiet, PublishQuiet, QuietKeepsCustody
  <2>3. CASE Seal(e)
    BY <2>3, SealKeepsCustody
  <2>4. CASE \E n \in BatchSizes : Compute(e, n)
    BY <2>4, ComputeQuiet, QuietKeepsCustody, BatchAssumption DEF BatchAssumption
  <2>5. CASE \E n \in BatchSizes : SettleNext(e, n)
    BY <2>5, SettleQuiet, QuietKeepsCustody, ReconcileKeepsCustody, BatchAssumption
    DEF BatchAssumption
  <2> QED
    BY <2>1, <2>2, <2>3, <2>4, <2>5 DEF EpochNext
<1>4. CASE UNCHANGED vars
  <2>1. Quiet
    BY <1>4 DEF vars, pauseVars, bookVars, engineVars, Quiet
  <2> QED
    BY <2>1, QuietKeepsCustody
<1> QED
  BY <1>1, <1>2, <1>3, <1>4 DEF Next

LEMMA CustodyInvariant == Spec => [](TypeOK /\ CustodyInv)
<1> QED
  BY InitType, NextType, InitCustody, NextCustody, PTL DEF Spec

\* One epoch consumes an order, once, and it is the epoch the order names.
THEOREM OneEpochConsumes == Spec => []ConsumedIsSealed
<1>1. CustodyInv => ConsumedIsSealed
  BY DEF CustodyInv
<1> QED
  BY <1>1, CustodyInvariant, PTL

\* No cancellation, expiry or refund reaches an order of a sealed set, and only
\* a halted network lets its escrow go.
THEOREM SealedEscrowStays == Spec => []SealedKeepsEscrow
<1>1. CustodyInv => SealedKeepsEscrow
  BY DEF CustodyInv
<1> QED
  BY <1>1, CustodyInvariant, PTL

\* The vault's custody of an order agrees with the book's status of it.
THEOREM VaultFollowsBook == Spec => []EscrowFollowsStatus
<1>1. CustodyInv => EscrowFollowsStatus
  BY DEF CustodyInv
<1> QED
  BY <1>1, CustodyInvariant, PTL

-----------------------------------------------------------------------------
(***************************************************************************)
(* What a step may never do, for every value of the constants: reach a     *)
(* venue with an order whose escrow has left, end a route twice, move      *)
(* anything but the exit after a halt, take in value while paused.  The    *)
(* first rests on the custody invariant, the second on SettledInv.         *)
(***************************************************************************)

\* _consumed is set exactly when the swap route has ended.
SettledInv ==
  \A e \in Epochs : settled[e] <=> swapStatus[e] \notin {"None", "Verified"}

Inv == TypeOK /\ CustodyInv /\ SettledInv

-----------------------------------------------------------------------------
(* What a transaction of the settlement engine does to its two records.  A *)
(* transaction of any other contract, and a tick, leave both alone.        *)

SettlementStays == UNCHANGED <<swapStatus, swapCursor, settled, supplyVars>>

LEMMA OrderFrame ==
  ASSUME NEW i \in Intents, OrderNext(i)
  PROVE  UNCHANGED <<engineVars, settlementVars>> /\ SettlementStays
BY DEF OrderNext, Submit, Activate, Cancel, Expire, Exit, engineVars, settlementVars,
       supplyVars, SettlementStays

LEMMA ClearingFrame ==
  ASSUME NEW e \in Epochs, NEW n \in Nat,
         Open(e) \/ Seal(e) \/ Compute(e, n) \/ Publish(e)
  PROVE  SettlementStays
BY DEF Open, Seal, Compute, Publish, settlementVars, supplyVars, SettlementStays

\* A record of the settlement engine changes only in one of its functions.
LEMMA SettlementMoves ==
  ASSUME [Next]_vars
  PROVE  \/ SettlementStays
         \/ \E e \in Epochs, n \in BatchSizes : SettleNext(e, n)
<1>1. CASE Guardian \/ Tick \/ UNCHANGED vars
  BY <1>1 DEF Guardian, Tick, vars, settlementVars, supplyVars, SettlementStays
<1>2. CASE \E i \in Intents : OrderNext(i)
  BY <1>2, OrderFrame
<1>3. CASE \E e \in Epochs : EpochNext(e)
  BY <1>3, ClearingFrame, BatchAssumption DEF EpochNext, BatchAssumption
<1> QED
  BY <1>1, <1>2, <1>3 DEF Next

\* The swap route's step in epoch e, as a change of its status and of _consumed.
SwapStep(e) ==
  \/ UNCHANGED <<swapStatus, settled>>
  \/ /\ swapStatus[e] = "None" /\ ~settled[e]
     /\ swapStatus' = [swapStatus EXCEPT ![e] = "Verified"]
     /\ UNCHANGED settled
  \/ /\ swapStatus[e] = "None" /\ ~settled[e]
     /\ swapStatus' = [swapStatus EXCEPT ![e] = "NoPublicResidual"]
     /\ settled' = [settled EXCEPT ![e] = TRUE]
  \/ /\ swapStatus[e] = "Verified" /\ ~settled[e] /\ netState # "Halted"
     /\ swapStatus' = [swapStatus EXCEPT ![e] = "Executed"]
     /\ settled' = [settled EXCEPT ![e] = TRUE]
  \/ /\ swapStatus[e] = "Verified"
     /\ swapStatus' = [swapStatus EXCEPT ![e] = "Recoverable"]
     /\ settled' = [settled EXCEPT ![e] = TRUE]
  \/ /\ swapStatus[e] \in {"Executed", "NoPublicResidual"}
     /\ swapStatus' = [swapStatus EXCEPT ![e] = "Reconciled"]
     /\ UNCHANGED settled

LEMMA SettleIsSwapStep ==
  ASSUME NEW e \in Epochs, NEW n \in Nat, SettleNext(e, n)
  PROVE  SwapStep(e)
<1>1. CASE VerifyResidual(e)
  BY <1>1 DEF VerifyResidual, SwapStep
<1>2. CASE SettleResidual(e)
  BY <1>2 DEF SettleResidual, RequireNotHalted, SwapStep
<1>3. CASE Reconcile(e, n)
  BY <1>3 DEF Reconcile, SwapStep
<1>4. CASE DeclareTimedOut(e)
  BY <1>4 DEF DeclareTimedOut, SwapStep
<1>5. CASE VerifySupply(e) \/ SettleSupply(e) \/ ReconcileSupply(e, n)
  BY <1>5 DEF VerifySupply, SettleSupply, ReconcileSupply, swapVars, SwapStep
<1> QED
  BY <1>1, <1>2, <1>3, <1>4, <1>5 DEF SettleNext

-----------------------------------------------------------------------------
(* _consumed follows the route. *)

LEMMA InitSettled == Init => SettledInv
BY DEF Init, SettlementInit, SettledInv

LEMMA NextSettled == TypeOK /\ SettledInv /\ [Next]_vars => SettledInv'
<1> SUFFICES ASSUME TypeOK, SettledInv, [Next]_vars PROVE SettledInv'
  OBVIOUS
<1>1. CASE SettlementStays
  BY <1>1 DEF SettlementStays, SettledInv
<1>2. CASE \E e \in Epochs, n \in BatchSizes : SettleNext(e, n)
  <2>1. PICK e \in Epochs : SwapStep(e)
    BY <1>2, SettleIsSwapStep, BatchAssumption DEF BatchAssumption
  <2>2. swapStatus \in [Epochs -> SwapStatus] /\ settled \in [Epochs -> BOOLEAN]
    BY DEF TypeOK, SettlementTypeOK
  <2> SUFFICES ASSUME NEW d \in Epochs
               PROVE  settled'[d] <=> swapStatus'[d] \notin {"None", "Verified"}
    BY DEF SettledInv
  <2>3. settled[d] <=> swapStatus[d] \notin {"None", "Verified"}
    BY DEF SettledInv
  <2>4. CASE d = e
    BY <2>1, <2>2, <2>3, <2>4 DEF SwapStep
  <2>5. CASE d # e
    <3>1. swapStatus'[d] = swapStatus[d] /\ settled'[d] = settled[d]
      BY <2>1, <2>2, <2>5 DEF SwapStep
    <3> QED
      BY <2>3, <3>1
  <2> QED
    BY <2>4, <2>5
<1> QED
  BY <1>1, <1>2, SettlementMoves

LEMMA Invariant == Spec => []Inv
<1> QED
  BY InitType, NextType, InitCustody, NextCustody, InitSettled, NextSettled, PTL
  DEF Spec, Inv

-----------------------------------------------------------------------------
(* The end of a route. *)

\* The end of a swap route is final: one epoch settles once, and no keeper
\* executes an epoch that was declared recoverable.
THEOREM RoutesEndOnce == Spec => SwapEndsOnce
<1> DEFINE A == \A e \in Epochs :
       /\ settled[e] => settled'[e]
       /\ swapStatus[e] \in {"Recoverable", "Reconciled"} => swapStatus'[e] = swapStatus[e]
       /\ settled[e] => swapStatus'[e] # "Executed" \/ swapStatus[e] = "Executed"
       /\ swapStatus[e] = "Executed" => swapStatus'[e] \in {"Executed", "Reconciled"}
<1>1. Inv /\ [Next]_vars => A
  <2> SUFFICES ASSUME Inv, [Next]_vars, NEW d \in Epochs
               PROVE  /\ settled[d] => settled'[d]
                      /\ swapStatus[d] \in {"Recoverable", "Reconciled"}
                           => swapStatus'[d] = swapStatus[d]
                      /\ settled[d] => swapStatus'[d] # "Executed" \/ swapStatus[d] = "Executed"
                      /\ swapStatus[d] = "Executed"
                           => swapStatus'[d] \in {"Executed", "Reconciled"}
    OBVIOUS
  <2>1. /\ swapStatus \in [Epochs -> SwapStatus] /\ settled \in [Epochs -> BOOLEAN]
        /\ settled[d] <=> swapStatus[d] \notin {"None", "Verified"}
    BY DEF Inv, TypeOK, SettlementTypeOK, SettledInv
  <2>2. CASE SettlementStays
    BY <2>1, <2>2 DEF SettlementStays
  <2>3. CASE \E e \in Epochs, n \in BatchSizes : SettleNext(e, n)
    <3>1. PICK e \in Epochs : SwapStep(e)
      BY <2>3, SettleIsSwapStep, BatchAssumption DEF BatchAssumption
    <3>2. CASE d = e
      BY <2>1, <3>1, <3>2 DEF SwapStep
    <3>3. CASE d # e
      <4>1. swapStatus'[d] = swapStatus[d] /\ settled'[d] = settled[d]
        BY <2>1, <3>1, <3>3 DEF SwapStep
      <4> QED
        BY <2>1, <4>1
    <3> QED
      BY <3>2, <3>3
  <2> QED
    BY <2>2, <2>3, SettlementMoves
<1>2. Spec => [][A]_vars
  BY <1>1, Invariant, PTL DEF Spec
<1> QED
  BY <1>2 DEF SwapEndsOnce

-----------------------------------------------------------------------------
(* Venues and escrow. *)

LEMMA SupplyVenueIsLive ==
  ASSUME NEW e \in Epochs, NEW n \in Nat, SettleNext(e, n), TypeOK,
         NEW d \in Epochs, supplyStatus'[d] = "Executed", supplyStatus[d] # "Executed"
  PROVE  netState # "Halted"
<1>1. UNCHANGED supplyStatus \/ netState # "Halted"
  BY DEF SettleNext, VerifyResidual, SettleResidual, Reconcile, DeclareTimedOut,
         VerifySupply, SettleSupply, ReconcileSupply, RequireNotHalted, supplyVars
<1> QED
  BY <1>1

LEMMA SwapVenueIsLive ==
  ASSUME NEW e \in Epochs, NEW n \in Nat, SettleNext(e, n), TypeOK,
         NEW d \in Epochs, swapStatus'[d] = "Executed", swapStatus[d] # "Executed"
  PROVE  netState # "Halted"
<1>1. SwapStep(e) /\ swapStatus \in [Epochs -> SwapStatus]
  BY SettleIsSwapStep DEF TypeOK, SettlementTypeOK
<1> QED
  BY <1>1 DEF SwapStep

\* A call to a public venue happens while the escrow of every candidate is
\* still in the vault: only a halt lets escrow out of a sealed set, and it stops
\* both calls.
THEOREM VenuesSpendHeldEscrow == Spec => VenueSpendsHeldEscrow
<1> DEFINE A == \A e \in Epochs :
       (swapStatus'[e] = "Executed" /\ swapStatus[e] # "Executed")
         \/ (supplyStatus'[e] = "Executed" /\ supplyStatus[e] # "Executed")
       => \A i \in Members(e) : escrow[i] = "Held"
<1>1. Inv /\ [Next]_vars => A
  <2> SUFFICES ASSUME Inv, [Next]_vars, NEW d \in Epochs, NEW i \in Members(d),
                      \/ swapStatus'[d] = "Executed" /\ swapStatus[d] # "Executed"
                      \/ supplyStatus'[d] = "Executed" /\ supplyStatus[d] # "Executed"
               PROVE  escrow[i] = "Held"
    OBVIOUS
  <2>1. ~SettlementStays
    BY DEF SettlementStays, supplyVars
  <2>2. netState # "Halted"
    BY <2>1, SettlementMoves, SwapVenueIsLive, SupplyVenueIsLive, BatchAssumption
    DEF BatchAssumption, Inv
  <2> QED
    BY <2>2 DEF Inv, CustodyInv, SealedKeepsEscrow
<1>2. Spec => [][A]_vars
  BY <1>1, Invariant, PTL DEF Spec
<1> QED
  BY <1>2 DEF VenueSpendsHeldEscrow

-----------------------------------------------------------------------------
(* Pause and halt. *)

\* A paused network takes in no order, no escrow and no candidate set.
THEOREM PauseHolds == Spec => PauseTakesNoNewValue
<1> DEFINE A == netState # "Live" =>
       /\ \A i \in Intents :
            /\ status'[i] # status[i] => status'[i] \notin {"Submitted", "Authorised"}
            /\ escrow'[i] = "Held" => escrow[i] = "Held"
       /\ UNCHANGED <<candidates, consumedBy>>
<1>1. Inv /\ [Next]_vars => A
  <2> SUFFICES ASSUME TypeOK, [Next]_vars, netState # "Live"
               PROVE  /\ \A i \in Intents :
                           /\ status'[i] # status[i]
                                => status'[i] \notin {"Submitted", "Authorised"}
                           /\ escrow'[i] = "Held" => escrow[i] = "Held"
                      /\ UNCHANGED <<candidates, consumedBy>>
    BY DEF Inv
  <2>1. ASSUME Quiet PROVE A
    BY <2>1 DEF Quiet
  <2>2. CASE Guardian \/ Tick
    BY <2>1, <2>2, GuardianQuiet, TickQuiet
  <2>3. ASSUME NEW i \in Intents, OrderNext(i) PROVE A
    <3>1. ~Submit(i) /\ ~Activate(i)
      BY DEF Submit, SubmitIntent, Activate, ActivateIntent, RequireLive
    <3>2. UNCHANGED <<candidates, consumedBy>>
      BY <2>3, <3>1 DEF OrderNext, Cancel, Expire, Exit, CancelIntent, ExitHalted,
                   ExitTimedOut, RecordCancellation, RecordExpiry, bookVars
    <3>3. status' = status \/ status' = [status EXCEPT ![i] = "Cancelled"]
            \/ status' = [status EXCEPT ![i] = "Expired"]
      BY <2>3, <3>1 DEF OrderNext, Cancel, Expire, Exit, CancelIntent, ExitHalted,
                   ExitTimedOut, RecordCancellation, RecordExpiry, bookVars
    <3>4. escrow' = escrow \/ escrow' = [escrow EXCEPT ![i] = "Refunded"]
            \/ escrow' = [escrow EXCEPT ![i] = "Exited"]
      BY <2>3, <3>1 DEF OrderNext, Cancel, Expire, Exit, CancelIntent, ExitHalted,
                   ExitTimedOut, RefundCancelled, EmergencyRelease
    <3> QED
      BY <3>2, <3>3, <3>4 DEF TypeOK, BookTypeOK, VaultTypeOK
  <2>4. ASSUME NEW e \in Epochs, EpochNext(e) PROVE A
    <3>1. ~Seal(e)
      BY DEF Seal, EngineSealEpoch, RequireLive
    <3>2. CASE \E n \in BatchSizes : Reconcile(e, n)
      <4>1. PICK n \in BatchSizes : Reconcile(e, n)
        BY <3>2
      <4>2. UNCHANGED <<candidates, consumedBy, escrow>>
        BY <4>1 DEF Reconcile
      <4>3. \A i \in Intents : status'[i] = status[i] \/ status'[i] = "Processed"
        BY <4>1 DEF Reconcile, RecordProcessed
      <4> QED
        BY <4>2, <4>3
    <3>3. CASE ~\E n \in BatchSizes : Reconcile(e, n)
      <4>1. Quiet
        BY <2>4, <3>1, <3>3, OpenQuiet, PublishQuiet, ComputeQuiet, SettleQuiet,
           BatchAssumption DEF EpochNext, BatchAssumption
      <4> QED
        BY <4>1, <2>1
    <3> QED
      BY <3>2, <3>3
  <2>5. CASE UNCHANGED vars
    BY <2>5 DEF vars, bookVars
  <2> QED
    BY <2>2, <2>3, <2>4, <2>5 DEF Next
<1>2. Spec => [][A]_vars
  BY <1>1, Invariant, PTL DEF Spec
<1> QED
  BY <1>2 DEF PauseTakesNoNewValue

\* What a halted network still does: time passes, an order expires or exits, a
\* verified residual times out.
LEMMA HaltedMoves ==
  ASSUME [Next]_vars, netState = "Halted"
  PROVE  \/ Tick \/ UNCHANGED vars
         \/ \E i \in Intents : Expire(i) \/ Exit(i)
         \/ \E e \in Epochs : DeclareTimedOut(e)
<1>1. ~Guardian
  BY DEF Guardian, GuardianNext, Pause, Halt, PauseActivity
<1>2. \A i \in Intents : ~Submit(i) /\ ~Activate(i) /\ ~Cancel(i)
  BY DEF Submit, SubmitIntent, Activate, ActivateIntent, Cancel, CancelIntent,
         RequireLive, RequireNotHalted
<1>3. \A e \in Epochs : ~Open(e) /\ ~Seal(e) /\ ~Publish(e)
  BY DEF Open, EngineOpenEpoch, Seal, EngineSealEpoch, Publish, PublishResidual,
         RequireLive, RequireNotHalted
<1>4. \A e \in Epochs, n \in BatchSizes : ~Compute(e, n)
  BY ComputeCases, BatchAssumption
  DEF BatchAssumption, RunBatch, RunCrossing, FinaliseResidual, RequireNotHalted
<1>5. \A e \in Epochs, n \in BatchSizes : SettleNext(e, n) => DeclareTimedOut(e)
  BY DEF SettleNext, VerifyResidual, SettleResidual, Reconcile, VerifySupply,
         SettleSupply, ReconcileSupply, RequireNotHalted
<1> QED
  BY <1>1, <1>2, <1>3, <1>4, <1>5 DEF Next, OrderNext, EpochNext

\* After a halt nothing clears, settles or is accepted any more, for ever.
THEOREM HaltIsFinal == Spec => HaltFreezes
<1> DEFINE A == netState = "Halted" =>
       /\ netState' = "Halted"
       /\ UNCHANGED <<consumedBy, candidates, committed, stage, cursor, outcome,
                      granted, swapCursor, supplyVars>>
       /\ \A i \in Intents :
            /\ status'[i] # status[i] => status'[i] = "Expired" /\ consumedBy[i] = NoEpoch
            /\ escrow'[i] # escrow[i] => escrow'[i] = "Exited"
       /\ \A e \in Epochs :
            swapStatus'[e] # swapStatus[e] =>
              swapStatus[e] = "Verified" /\ swapStatus'[e] = "Recoverable"
<1>1. Inv /\ [Next]_vars => A
  <2> SUFFICES ASSUME TypeOK, [Next]_vars, netState = "Halted" PROVE A
    BY DEF Inv
  <2>1. CASE Tick \/ UNCHANGED vars
    BY <2>1 DEF Tick, vars, pauseVars, bookVars, engineVars, settlementVars, supplyVars
  <2>2. ASSUME NEW i \in Intents, Expire(i) PROVE A
    BY <2>2 DEF Expire, RecordExpiry, pauseVars, engineVars, settlementVars, supplyVars,
                TypeOK, BookTypeOK
  <2>3. ASSUME NEW i \in Intents, Exit(i) PROVE A
    BY <2>3 DEF Exit, ExitHalted, ExitTimedOut, EmergencyRelease, pauseVars, bookVars,
                engineVars, settlementVars, supplyVars, TypeOK, VaultTypeOK
  <2>4. ASSUME NEW e \in Epochs, DeclareTimedOut(e) PROVE A
    BY <2>4 DEF DeclareTimedOut, pauseVars, orderVars, engineVars, supplyVars,
                TypeOK, SettlementTypeOK
  <2> QED
    BY <2>1, <2>2, <2>3, <2>4, HaltedMoves
<1>2. Spec => [][A]_vars
  BY <1>1, Invariant, PTL DEF Spec
<1> QED
  BY <1>2 DEF HaltFreezes

-----------------------------------------------------------------------------
(***************************************************************************)
(* What the contracts know of one epoch, for every value of the constants: *)
(* the book's status shows where both engines are, a venue is reached only *)
(* in the company the floors ask for, and the processed orders are the     *)
(* candidates that the cursor has passed.  The second and third rest on    *)
(* the first: a route that has moved is of a published epoch, whose        *)
(* outcome and candidates no longer change.                                *)
(***************************************************************************)

-----------------------------------------------------------------------------
(* The invariant, epoch by epoch. *)

\* EpochViewsAgree, case by case.
View(e) ==
  /\ stage[e] = "None" => epochStatus[e] \in {"None", "Open"}
  /\ stage[e] # "None" /\ ~committed[e] => epochStatus[e] = "PriceFixed"
  /\ committed[e] =>
       /\ stage[e] = "Published"
       /\ swapStatus[e] \in {"None", "Verified"} => epochStatus[e] = "ResidualReady"
       /\ swapStatus[e] = "NoPublicResidual" => epochStatus[e] = "NoPublicResidual"
       /\ swapStatus[e] \in {"Executed", "Reconciled"} => epochStatus[e] = "Settled"
       /\ swapStatus[e] = "Recoverable" => epochStatus[e] = "Recoverable"
  /\ ~committed[e] => swapStatus[e] = "None" /\ supplyStatus[e] = "None"
  /\ settled[e] <=> swapStatus[e] \notin {"None", "Verified"}

\* A route that has reached for a venue met its floor and the epoch's.
Verified(e) ==
  /\ swapStatus[e] \in {"Verified", "Executed", "Recoverable"} =>
       outcome[e].epochFloor /\ outcome[e].residual = "Met"
  /\ supplyStatus[e] \in {"Verified", "Executed", "Reconciled"} =>
       outcome[e].epochFloor /\ outcome[e].supply = "Met"

\* A route is reconciled exactly when its cursor is at the end of a sealed set.
CursorOK(e) ==
  /\ swapCursor[e] <= Count(e) /\ supplyCursor[e] <= Count(e)
  /\ swapStatus[e] = "Reconciled" <=> (swapCursor[e] = Count(e) /\ stage[e] # "None")
  /\ supplyStatus[e] = "Reconciled" <=> (supplyCursor[e] = Count(e) /\ stage[e] # "None")

EpochOK(e) == View(e) /\ Verified(e) /\ CursorOK(e)

EpochInv == \A e \in Epochs : EpochOK(e)

\* What EpochOK looks at.
Same(e) ==
  /\ epochStatus'[e] = epochStatus[e] /\ stage'[e] = stage[e]
  /\ committed'[e] = committed[e] /\ outcome'[e] = outcome[e]
  /\ candidates'[e] = candidates[e]
  /\ swapStatus'[e] = swapStatus[e] /\ settled'[e] = settled[e]
  /\ swapCursor'[e] = swapCursor[e]
  /\ supplyStatus'[e] = supplyStatus[e] /\ supplyCursor'[e] = supplyCursor[e]

\* An epoch that a step does not touch stays in order.
LEMMA SameKeeps ==
  ASSUME NEW e \in Epochs, EpochOK(e), Same(e)
  PROVE  EpochOK(e)'
BY DEF EpochOK, View, Verified, CursorOK, Same, Count

\* Orders, the guardian and the clock touch no epoch.
LEMMA OutsideEpochs ==
  ASSUME Guardian \/ Tick \/ (\E i \in Intents : OrderNext(i)) \/ UNCHANGED vars,
         NEW e \in Epochs
  PROVE  Same(e)
<1>1. CASE Guardian \/ Tick \/ UNCHANGED vars
  BY <1>1 DEF Guardian, Tick, vars, bookVars, engineVars, settlementVars, supplyVars, Same
<1>2. ASSUME NEW i \in Intents, OrderNext(i) PROVE Same(e)
  <2>1. UNCHANGED <<engineVars, settlementVars>>
    BY <1>2, OrderFrame
  <2>2. UNCHANGED <<epochStatus, candidates, committed>>
    BY <1>2
    DEF OrderNext, Submit, Activate, Cancel, Expire, Exit, SubmitIntent, ActivateIntent,
        CancelIntent, ExitHalted, ExitTimedOut, RecordSubmission, RecordAuthorisation,
        RecordCancellation, RecordExpiry, bookVars
  <2> QED BY <2>1, <2>2 DEF engineVars, settlementVars, Same
<1> QED BY <1>1, <1>2

\* A transaction about one epoch leaves every other alone.
LEMMA OtherEpochs ==
  ASSUME TypeOK, NEW e \in Epochs, EpochNext(e), NEW d \in Epochs, d # e
  PROVE  Same(d)
<1> USE DEF TypeOK, BookTypeOK, EngineTypeOK, SettlementTypeOK, Same
<1>1. CASE Open(e) \/ Publish(e)
  BY <1>1 DEF Open, EngineOpenEpoch, BookOpenEpoch, Publish, PublishResidual, BookCommit,
              engineVars, settlementVars
<1>2. CASE Seal(e)
  BY <1>2 DEF Seal, EngineSealEpoch, BookSealEpoch, settlementVars
<1>3. ASSUME NEW n \in BatchSizes, Compute(e, n) PROVE Same(d)
  BY <1>3 DEF Compute, RunClassification, RunAccumulation, RunCrossing, RunAllocation,
              RunResidual, FinaliseResidual, RunBatch, Advance, bookVars, settlementVars
<1>4. ASSUME NEW n \in BatchSizes, SettleNext(e, n) PROVE Same(d)
  <2>1. UNCHANGED <<candidates, committed, stage, outcome>>
    BY <1>4, SettleFrame, BatchAssumption DEF BatchAssumption
  <2> QED
    BY <1>4, <2>1 DEF SettleNext, VerifyResidual, SettleResidual, Reconcile, DeclareTimedOut,
        VerifySupply, SettleSupply, ReconcileSupply, SetEpochStatus, bookVars, orderVars,
        swapVars, supplyVars
<1> QED BY <1>1, <1>2, <1>3, <1>4 DEF EpochNext

-----------------------------------------------------------------------------
(* The steps of one epoch. *)

LEMMA OpenKeeps ==
  ASSUME TypeOK, NEW e \in Epochs, EpochOK(e), Open(e) \/ Publish(e)
  PROVE  EpochOK(e)'
BY DEF TypeOK, BookTypeOK, EngineTypeOK, SettlementTypeOK, SwapStatus,
       Open, EngineOpenEpoch, BookOpenEpoch, Publish, PublishResidual, BookCommit,
       engineVars, settlementVars, EpochOK, View, Verified, CursorOK, Count

LEMMA SealKeeps ==
  ASSUME TypeOK, CustodyInv, NEW e \in Epochs, EpochOK(e), Seal(e)
  PROVE  EpochOK(e)'
<1>1. PICK s \in CandidateLists : EngineSealEpoch(e, s)
  BY DEF Seal
<1>2. /\ stage[e] = "None" /\ stage' = [stage EXCEPT ![e] = "Sealed"]
      /\ Len(s) \in 1 .. MaxCandidates /\ candidates' = [candidates EXCEPT ![e] = s]
      /\ epochStatus' = [epochStatus EXCEPT ![e] = "PriceFixed"]
      /\ UNCHANGED <<committed, outcome, settlementVars>>
  BY <1>1 DEF EngineSealEpoch, BookSealEpoch, Seal
<1>3. Count(e) = 0 /\ Count(e)' = Len(s)
  BY <1>2 DEF CustodyInv, ConsumedIsSealed, Count, TypeOK, BookTypeOK
<1>4. swapCursor[e] = 0 /\ supplyCursor[e] = 0
  BY <1>3 DEF EpochOK, CursorOK, TypeOK, SettlementTypeOK
<1>5. ~committed[e] /\ swapStatus[e] = "None" /\ supplyStatus[e] = "None"
  BY <1>2 DEF EpochOK, View
<1>6. View(e)' /\ Verified(e)'
  BY <1>2, <1>5 DEF EpochOK, View, Verified, settlementVars, TypeOK, BookTypeOK, EngineTypeOK
<1>7. CursorOK(e)'
  BY <1>2, <1>3, <1>4, <1>5 DEF CursorOK, settlementVars, BookAssumption
<1> QED BY <1>6, <1>7 DEF EpochOK

LEMMA ComputeKeeps ==
  ASSUME TypeOK, NEW e \in Epochs, NEW n \in Nat, EpochOK(e), Compute(e, n)
  PROVE  EpochOK(e)'
<1>1. /\ stage[e] \notin {"None", "Published"} /\ stage'[e] # "None"
      /\ UNCHANGED <<bookVars, settlementVars>>
  BY DEF TypeOK, EngineTypeOK, Compute, RunClassification, RunAccumulation, RunCrossing,
         RunAllocation, RunResidual, FinaliseResidual, RunBatch, Advance
<1>2. ~committed[e] /\ swapStatus[e] = "None" /\ supplyStatus[e] = "None"
  BY <1>1 DEF EpochOK, View
<1> QED BY <1>1, <1>2 DEF EpochOK, View, Verified, CursorOK, Count, bookVars, settlementVars

\* What a commit is known of: the outcome exists and its routes are routes.
LEMMA CommittedOutcome ==
  ASSUME TypeOK, NEW e \in Epochs, EpochOK(e), committed[e]
  PROVE  /\ stage[e] = "Published" /\ outcome[e] \in Outcome(Count(e))
         /\ outcome[e].residual \in {"Zero", "Short", "Met"}
         /\ outcome[e].supply \in {"Zero", "Short", "Met"}
<1>1. stage[e] = "Published" /\ outcome[e] \in Outcome(Count(e))
  BY DEF EpochOK, View, TypeOK, EngineTypeOK
<1>2. Count(e) \in Nat
  BY DEF TypeOK, BookTypeOK, Count
<1> QED
  BY <1>1, <1>2, OutcomeType DEF Published, Route

LEMMA SwapKeeps ==
  ASSUME TypeOK, NEW e \in Epochs, EpochOK(e),
         VerifyResidual(e) \/ SettleResidual(e) \/ DeclareTimedOut(e)
  PROVE  EpochOK(e)'
<1>1. /\ UNCHANGED <<candidates, committed, stage, outcome>>
      /\ UNCHANGED <<swapCursor, supplyStatus, supplyCursor>>
      /\ Count(e)' = Count(e)
  BY DEF VerifyResidual, SettleResidual, DeclareTimedOut, orderVars, engineVars, supplyVars,
         Count
<1>2. /\ swapStatus \in [Epochs -> SwapStatus] /\ settled \in [Epochs -> BOOLEAN]
      /\ epochStatus \in [Epochs -> EpochStatus]
  BY DEF TypeOK, SettlementTypeOK, BookTypeOK
<1>3. CASE VerifyResidual(e)
  <2>1. committed[e] /\ swapStatus[e] = "None" /\ ~settled[e]
    BY <1>3 DEF VerifyResidual
  <2>2. outcome[e].epochFloor /\ outcome[e].residual \in {"Zero", "Met"}
    BY <1>3, <2>1, CommittedOutcome DEF VerifyResidual
  <2>3. \/ /\ outcome[e].residual = "Zero"
           /\ swapStatus'[e] = "NoPublicResidual" /\ settled'[e]
           /\ epochStatus'[e] = "NoPublicResidual"
        \/ /\ outcome[e].residual = "Met"
           /\ swapStatus'[e] = "Verified" /\ ~settled'[e]
           /\ epochStatus'[e] = epochStatus[e]
    BY <1>2, <1>3, <2>1, <2>2 DEF VerifyResidual, SetEpochStatus
  <2> QED
    BY <1>1, <2>1, <2>2, <2>3 DEF EpochOK, View, Verified, CursorOK
<1>4. CASE SettleResidual(e)
  <2>1. /\ swapStatus[e] = "Verified" /\ swapStatus'[e] = "Executed" /\ settled'[e]
        /\ epochStatus'[e] = "Settled"
    BY <1>2, <1>4 DEF SettleResidual, SetEpochStatus
  <2> QED
    BY <1>1, <2>1 DEF EpochOK, View, Verified, CursorOK
<1>5. CASE DeclareTimedOut(e)
  <2>1. /\ swapStatus[e] = "Verified" /\ swapStatus'[e] = "Recoverable" /\ settled'[e]
        /\ epochStatus'[e] = "Recoverable"
    BY <1>2, <1>5 DEF DeclareTimedOut, SetEpochStatus
  <2> QED
    BY <1>1, <2>1 DEF EpochOK, View, Verified, CursorOK
<1> QED
  BY <1>3, <1>4, <1>5

LEMMA ReconcileKeeps ==
  ASSUME TypeOK, NEW e \in Epochs, NEW n \in Nat, EpochOK(e), Reconcile(e, n)
  PROVE  EpochOK(e)'
<1> DEFINE end == SettleEnd(e, swapCursor[e], n)
<1>1. /\ UNCHANGED <<candidates, committed, stage, outcome, settled>>
      /\ UNCHANGED <<supplyStatus, supplyCursor>> /\ Count(e)' = Count(e)
      /\ swapStatus[e] \in {"Executed", "NoPublicResidual"}
  BY DEF Reconcile, supplyVars, Count
<1>2. /\ swapStatus \in [Epochs -> SwapStatus] /\ swapCursor \in [Epochs -> Nat]
      /\ epochStatus \in [Epochs -> EpochStatus]
  BY DEF TypeOK, SettlementTypeOK, BookTypeOK
<1>3. end \in Nat /\ end <= Count(e) /\ Count(e) \in Nat
  BY <1>2, SettleEndBounds
<1>4. /\ swapCursor'[e] = end
      /\ \/ end = Count(e) /\ swapStatus'[e] = "Reconciled" /\ epochStatus'[e] = "Settled"
         \/ end # Count(e) /\ UNCHANGED <<swapStatus, epochStatus>>
  BY <1>2 DEF Reconcile, SetEpochStatus
<1> HIDE DEF end
<1>5. committed[e] /\ stage[e] = "Published"
  BY <1>1 DEF EpochOK, View
<1> QED
  BY <1>1, <1>3, <1>4, <1>5 DEF EpochOK, View, Verified, CursorOK

LEMMA SupplyKeeps ==
  ASSUME TypeOK, NEW e \in Epochs, NEW n \in Nat, EpochOK(e),
         VerifySupply(e) \/ SettleSupply(e) \/ ReconcileSupply(e, n)
  PROVE  EpochOK(e)'
<1>1. /\ UNCHANGED <<candidates, committed, epochStatus, stage, outcome>>
      /\ UNCHANGED <<swapStatus, swapCursor, settled>> /\ Count(e)' = Count(e)
  BY DEF VerifySupply, SettleSupply, ReconcileSupply, bookVars, swapVars, engineVars, Count
<1>2. supplyStatus \in [Epochs -> SupplyStatus] /\ supplyCursor \in [Epochs -> Nat]
  BY DEF TypeOK, SettlementTypeOK
<1>3. CASE VerifySupply(e)
  <2>1. /\ committed[e] /\ supplyStatus[e] = "None" /\ outcome[e].epochFloor
        /\ outcome[e].supply \in {"Zero", "Met"} /\ UNCHANGED supplyCursor
    BY <1>3, CommittedOutcome DEF VerifySupply
  <2>2. \/ supplyStatus'[e] = "NoPublicResidual"
        \/ supplyStatus'[e] = "Verified" /\ outcome[e].supply = "Met"
    BY <1>2, <1>3, <2>1 DEF VerifySupply
  <2> QED
    BY <1>1, <2>1, <2>2 DEF EpochOK, View, Verified, CursorOK
<1>4. CASE SettleSupply(e)
  <2>1. supplyStatus[e] = "Verified" /\ supplyStatus'[e] = "Executed" /\ UNCHANGED supplyCursor
    BY <1>2, <1>4 DEF SettleSupply
  <2> QED
    BY <1>1, <2>1 DEF EpochOK, View, Verified, CursorOK
<1>5. CASE ReconcileSupply(e, n)
  <2> DEFINE end == SettleEnd(e, supplyCursor[e], n)
  <2>1. end \in Nat /\ end <= Count(e) /\ Count(e) \in Nat
    BY <1>2, SettleEndBounds
  <2>2. /\ supplyStatus[e] = "Executed" /\ supplyCursor'[e] = end
        /\ supplyStatus'[e] = IF end = Count(e) THEN "Reconciled" ELSE "Executed"
    BY <1>2, <1>5 DEF ReconcileSupply
  <2> HIDE DEF end
  <2>3. committed[e] /\ stage[e] = "Published"
    BY <2>2 DEF EpochOK, View
  <2> QED
    BY <1>1, <2>1, <2>2, <2>3 DEF EpochOK, View, Verified, CursorOK
<1> QED
  BY <1>3, <1>4, <1>5

-----------------------------------------------------------------------------
(* The invariant. *)

LEMMA InitEpochs == Init => EpochInv
BY DEF Init, BookInit, EngineInit, SettlementInit, EpochInv, EpochOK, View, Verified,
       CursorOK, Count

LEMMA NextEpochs == TypeOK /\ CustodyInv /\ EpochInv /\ [Next]_vars => EpochInv'
<1> SUFFICES ASSUME TypeOK, CustodyInv, EpochInv, [Next]_vars, NEW d \in Epochs
             PROVE  EpochOK(d)'
  BY DEF EpochInv
<1>1. EpochOK(d)
  BY DEF EpochInv
<1>2. CASE Guardian \/ Tick \/ (\E i \in Intents : OrderNext(i)) \/ UNCHANGED vars
  BY <1>1, <1>2, OutsideEpochs, SameKeeps
<1>3. ASSUME NEW e \in Epochs, EpochNext(e), d # e PROVE EpochOK(d)'
  BY <1>1, <1>3, OtherEpochs, SameKeeps
<1>4. ASSUME EpochNext(d) PROVE EpochOK(d)'
  <2>1. CASE Open(d) \/ Publish(d)
    BY <1>1, <2>1, OpenKeeps
  <2>2. CASE Seal(d)
    BY <1>1, <2>2, SealKeeps
  <2>3. ASSUME NEW n \in BatchSizes, Compute(d, n) PROVE EpochOK(d)'
    BY <1>1, <2>3, ComputeKeeps, BatchAssumption DEF BatchAssumption
  <2>4. ASSUME NEW n \in BatchSizes, SettleNext(d, n) PROVE EpochOK(d)'
    <3>1. n \in Nat
      BY BatchAssumption DEF BatchAssumption
    <3> QED
      BY <1>1, <2>4, <3>1, SwapKeeps, ReconcileKeeps, SupplyKeeps DEF SettleNext
  <2> QED
    BY <1>4, <2>1, <2>2, <2>3, <2>4 DEF EpochNext
<1> QED
  BY <1>2, <1>3, <1>4 DEF Next

-----------------------------------------------------------------------------
(* The processed orders. *)

\* The swap route's cursor has passed order i in epoch e.
Passed(i, e) == \E k \in 1 .. swapCursor[e] : k <= Count(e) /\ candidates[e][k] = i

ProcessedInv ==
  \A i \in Intents : status[i] = "Processed" <=> \E e \in Epochs : Passed(i, e)

LEMMA InitProcessed == Init => ProcessedInv
BY DEF Init, BookInit, SettlementInit, ProcessedInv, Passed

LEMMA QuietProcessed ==
  ASSUME ProcessedInv, UNCHANGED <<candidates, swapCursor>>,
         \A i \in Intents : status'[i] = "Processed" <=> status[i] = "Processed"
  PROVE  ProcessedInv'
BY DEF ProcessedInv, Passed, Count

\* No transaction about an order takes one in or out of Processed.
LEMMA OrderProcessed ==
  ASSUME TypeOK, NEW j \in Intents, OrderNext(j), ProcessedInv
  PROVE  ProcessedInv'
<1>1. UNCHANGED swapCursor
  BY OrderFrame DEF settlementVars
<1>2. /\ UNCHANGED candidates
      /\ \/ UNCHANGED status
         \/ /\ status[j] # "Processed"
            /\ \E s \in IntentStatus \ {"Processed"} : status' = [status EXCEPT ![j] = s]
  BY DEF OrderNext, Submit, Activate, Cancel, Expire, Exit, SubmitIntent, ActivateIntent,
         CancelIntent, ExitHalted, ExitTimedOut, RecordSubmission, RecordAuthorisation,
         RecordCancellation, RecordExpiry, bookVars, IntentStatus
<1>3. \A i \in Intents : status'[i] = "Processed" <=> status[i] = "Processed"
  BY <1>2 DEF TypeOK, BookTypeOK
<1> QED
  BY <1>1, <1>2, <1>3, QuietProcessed

\* A set is sealed while the route's cursor still stands at its start.
LEMMA SealProcessed ==
  ASSUME TypeOK, CustodyInv, EpochInv, NEW e \in Epochs, Seal(e), ProcessedInv
  PROVE  ProcessedInv'
<1>1. PICK s \in CandidateLists : EngineSealEpoch(e, s) /\ UNCHANGED settlementVars
  BY DEF Seal
<1>2. /\ stage[e] = "None" /\ candidates' = [candidates EXCEPT ![e] = s]
      /\ UNCHANGED <<status, swapCursor>>
  BY <1>1 DEF EngineSealEpoch, BookSealEpoch, settlementVars
<1>3. swapCursor[e] = 0
  <2>1. Count(e) = 0 /\ swapCursor[e] \in Nat
    BY <1>2 DEF CustodyInv, ConsumedIsSealed, Count, TypeOK, SettlementTypeOK
  <2>2. swapCursor[e] <= Count(e)
    BY DEF EpochInv, EpochOK, CursorOK
  <2> QED
    BY <2>1, <2>2
<1>4. ASSUME NEW i \in Intents, NEW d \in Epochs PROVE Passed(i, d)' <=> Passed(i, d)
  <2>1. CASE d = e
    BY <1>2, <1>3, <2>1 DEF Passed
  <2>2. CASE d # e
    BY <1>2, <2>2 DEF Passed, Count, TypeOK, BookTypeOK
  <2> QED
    BY <2>1, <2>2
<1> QED
  BY <1>2, <1>4 DEF ProcessedInv

\* A batch takes the cursor over exactly the orders it processes.
LEMMA ReconcileProcessed ==
  ASSUME TypeOK, EpochInv, NEW e \in Epochs, NEW n \in Nat, Reconcile(e, n), ProcessedInv
  PROVE  ProcessedInv'
<1> DEFINE end == SettleEnd(e, swapCursor[e], n)
           P == Batch(e, swapCursor[e], end)
<1>1. swapCursor \in [Epochs -> Nat]
  BY DEF TypeOK, SettlementTypeOK
<1>2. end \in Nat /\ end <= Count(e) /\ Count(e) \in Nat /\ swapCursor[e] <= end
  BY <1>1, SettleEndBounds DEF EpochInv, EpochOK, CursorOK
<1>3. /\ UNCHANGED candidates
      /\ swapCursor' = [swapCursor EXCEPT ![e] = end]
      /\ status' = [i \in Intents |-> IF i \in P THEN "Processed" ELSE status[i]]
  BY DEF Reconcile, RecordProcessed
<1>4. P = {candidates[e][k] : k \in swapCursor[e] + 1 .. end}
  BY DEF Batch
<1> HIDE DEF end, P
<1>5. ASSUME NEW i \in Intents PROVE Passed(i, e)' <=> Passed(i, e) \/ i \in P
  <2>1. \A k : k \in 1 .. end <=>
                 k \in 1 .. swapCursor[e] \/ k \in swapCursor[e] + 1 .. end
    BY <1>1, <1>2
  <2>2. swapCursor'[e] = end /\ Count(e)' = Count(e)
    BY <1>1, <1>3 DEF Count
  <2>3. Passed(i, e)' <=> \E k \in 1 .. end : candidates[e][k] = i
    BY <1>2, <1>3, <2>2 DEF Passed
  <2>4. Passed(i, e) <=> \E k \in 1 .. swapCursor[e] : candidates[e][k] = i
    BY <1>1, <1>2 DEF Passed
  <2> QED
    BY <1>4, <2>1, <2>3, <2>4
<1>6. ASSUME NEW i \in Intents, NEW d \in Epochs, d # e
      PROVE  Passed(i, d)' <=> Passed(i, d)
  BY <1>1, <1>3, <1>6 DEF Passed, Count
<1> QED
  BY <1>3, <1>5, <1>6 DEF ProcessedInv

LEMMA NextProcessed ==
  TypeOK /\ CustodyInv /\ EpochInv /\ ProcessedInv /\ [Next]_vars => ProcessedInv'
<1> SUFFICES ASSUME TypeOK, CustodyInv, EpochInv, ProcessedInv, [Next]_vars
             PROVE  ProcessedInv'
  OBVIOUS
<1>1. CASE Guardian \/ Tick \/ UNCHANGED vars
  BY <1>1, QuietProcessed DEF Guardian, Tick, vars, bookVars, settlementVars
<1>2. CASE \E i \in Intents : OrderNext(i)
  BY <1>2, OrderProcessed
<1>3. ASSUME NEW e \in Epochs, EpochNext(e) PROVE ProcessedInv'
  <2>1. CASE Seal(e)
    BY <2>1, SealProcessed
  <2>2. CASE Open(e) \/ Publish(e)
    BY <2>2, OpenQuiet, PublishQuiet, QuietProcessed
    DEF Quiet, Open, Publish, settlementVars
  <2>3. ASSUME NEW n \in BatchSizes, Compute(e, n) PROVE ProcessedInv'
    BY <2>3, ComputeQuiet, QuietProcessed, BatchAssumption
    DEF Quiet, Compute, settlementVars, BatchAssumption
  <2>4. ASSUME NEW n \in BatchSizes, SettleNext(e, n) PROVE ProcessedInv'
    <3>1. n \in Nat
      BY BatchAssumption DEF BatchAssumption
    <3>2. CASE Reconcile(e, n)
      BY <3>1, <3>2, ReconcileProcessed
    <3>3. CASE ~Reconcile(e, n)
      <4>1. UNCHANGED <<status, candidates, swapCursor>>
        BY <2>4, <3>3
        DEF SettleNext, VerifyResidual, SettleResidual, DeclareTimedOut, VerifySupply,
            SettleSupply, ReconcileSupply, orderVars, bookVars, swapVars
      <4> QED
        BY <4>1, QuietProcessed
    <3> QED
      BY <3>2, <3>3
  <2> QED
    BY <1>3, <2>1, <2>2, <2>3, <2>4 DEF EpochNext
<1> QED
  BY <1>1, <1>2, <1>3 DEF Next

LEMMA EpochInvariant == Spec => [](TypeOK /\ CustodyInv /\ EpochInv /\ ProcessedInv)
<1> QED
  BY InitType, NextType, InitCustody, NextCustody, InitEpochs, NextEpochs, InitProcessed,
     NextProcessed, PTL DEF Spec
\* The processed orders are the candidates that the swap route's cursor has
\* passed, and a route is reconciled exactly when it has passed them all.
THEOREM CursorsTellProcessed == Spec => []ProcessedIsPrefix
<1>1. EpochInv /\ ProcessedInv => ProcessedIsPrefix
  BY DEF EpochInv, EpochOK, CursorOK, ProcessedInv, Passed, ProcessedIsPrefix
<1> QED
  BY <1>1, EpochInvariant, PTL

\* The book's epoch status, which three contracts write and none checks, always
\* shows where the two engines are.
THEOREM BookShowsEngines == Spec => []EpochViewsAgree
<1>1. TypeOK /\ EpochInv => EpochViewsAgree
  <2> SUFFICES ASSUME TypeOK, EpochInv, NEW e \in Epochs
               PROVE  /\ epochStatus[e] \in StatusFromEngines(e)
                      /\ committed[e] => stage[e] = "Published"
                      /\ ~committed[e] => swapStatus[e] = "None" /\ supplyStatus[e] = "None"
                      /\ settled[e] <=> swapStatus[e] \notin {"None", "Verified"}
    BY DEF EpochViewsAgree
  <2>1. View(e)
    BY DEF EpochInv, EpochOK
  <2>2. swapStatus[e] \in SwapStatus
    BY DEF TypeOK, SettlementTypeOK
  <2>3. CASE stage[e] = "None"
    BY <2>1, <2>3 DEF View, StatusFromEngines
  <2>4. CASE stage[e] # "None" /\ ~committed[e]
    BY <2>1, <2>4 DEF View, StatusFromEngines
  <2>5. CASE committed[e]
    <3>1. stage[e] # "None"
      BY <2>1, <2>5 DEF View
    <3> QED
      BY <2>1, <2>2, <2>5, <3>1 DEF View, StatusFromEngines, SwapStatus
  <2> QED
    BY <2>1, <2>3, <2>4, <2>5 DEF View
<1> QED
  BY <1>1, EpochInvariant, PTL

-----------------------------------------------------------------------------
(* The floors. *)

\* What an outcome that met a floor says of the number of candidates.
LEMMA OutcomeFloors ==
  ASSUME NEW n \in Nat, NEW o \in Outcome(n)
  PROVE  /\ o.epochFloor => n >= EpochFloorK
         /\ o.residual = "Met" \/ o.supply = "Met" => n >= ResidualFloorK
         /\ o.residual = "Met" /\ o.supply = "Met" => n >= 2 * ResidualFloorK
<1>1. PICK c \in (0 .. n) \X (0 .. n) \X (0 .. n) :
        /\ c[2] + c[3] <= c[1]
        /\ o = [epochFloor |-> c[1] >= EpochFloorK, residual |-> RouteOf(c[2]),
                supply |-> RouteOf(c[3])]
  BY DEF Outcome
<1>2. c[1] \in 0 .. n /\ c[2] \in 0 .. n /\ c[3] \in 0 .. n
  OBVIOUS
<1>3. /\ RouteOf(c[2]) = "Met" => c[2] >= ResidualFloorK
      /\ RouteOf(c[3]) = "Met" => c[3] >= ResidualFloorK
  BY <1>2, FloorAssumption DEF RouteOf, FloorAssumption
<1>4. /\ o.epochFloor <=> c[1] >= EpochFloorK
      /\ o.residual = RouteOf(c[2]) /\ o.supply = RouteOf(c[3])
  BY <1>1
<1> QED
  BY <1>1, <1>2, <1>3, <1>4, FloorAssumption DEF FloorAssumption

\* A strictly sorted set of candidates counts each order once.
LEMMA MembersCounted ==
  ASSUME TypeOK, ConsumedIsSealed, NEW e \in Epochs
  PROVE  Cardinality(Members(e)) = Count(e) /\ Count(e) \in Nat
<1> DEFINE f == candidates[e]
<1>1. f \in Seq(Intents) /\ Count(e) = Len(f) /\ Count(e) \in Nat
  BY DEF TypeOK, BookTypeOK, Count
<1>2. \A j, k \in 1 .. Count(e) : j # k => f[j] # f[k]
  <2> SUFFICES ASSUME NEW j \in 1 .. Count(e), NEW k \in 1 .. Count(e), j < k
               PROVE  f[j] # f[k]
    BY <1>1
  <2>1. f[j] < f[k]
    BY <1>1 DEF ConsumedIsSealed, StrictlySorted
  <2>2. f[j] \in Nat
    <3>1. f[j] \in Intents
      BY <1>1
    <3> QED
      BY <3>1, BookAssumption DEF BookAssumption
  <2> QED
    BY <2>1, <2>2
<1>3. f \in [1 .. Count(e) -> Members(e)]
  BY <1>1 DEF Members
<1>4. f \in Surjection(1 .. Count(e), Members(e))
  BY <1>3 DEF Surjection, Members
<1>5. f \in Injection(1 .. Count(e), Members(e))
  BY <1>2, <1>3 DEF Injection, IsInjective
<1>6. IsFiniteSet(1 .. Count(e)) /\ Cardinality(1 .. Count(e)) = Count(e)
  <2>1. Count(e) \in Int /\ 1 \in Int /\ Count(e) >= 0
    BY <1>1
  <2>2. /\ IsFiniteSet(1 .. Count(e))
        /\ Cardinality(1 .. Count(e)) = IF 1 > Count(e) THEN 0 ELSE Count(e) - 1 + 1
    BY <2>1, FS_Interval
  <2> QED
    BY <2>1, <2>2
<1> HIDE DEF f
<1>7. Cardinality(Members(e)) = Cardinality(1 .. Count(e))
  BY <1>4, <1>5, <1>6, FS_Surjection
<1> QED
  BY <1>1, <1>6, <1>7

\* A venue is reached only in the company of the floor's number of orders, and
\* both venues only in the company of two floors'.
THEOREM VenuesKeepCompany == Spec => []DisclosureNeedsCompany
<1>1. TypeOK /\ CustodyInv /\ EpochInv => DisclosureNeedsCompany
  <2> SUFFICES ASSUME TypeOK, CustodyInv, EpochInv PROVE DisclosureNeedsCompany
    OBVIOUS
  <2> SUFFICES ASSUME NEW e \in Epochs
               PROVE  LET swap == swapStatus[e] \in {"Verified", "Executed", "Recoverable"}
                          supply == supplyStatus[e] \in {"Verified", "Executed", "Reconciled"} IN
                      /\ swap \/ supply => Cardinality(Members(e)) >= EpochFloorK
                      /\ swap \/ supply => Cardinality(Members(e)) >= ResidualFloorK
                      /\ swap /\ supply => Cardinality(Members(e)) >= 2 * ResidualFloorK
    BY DEF DisclosureNeedsCompany
  <2>1. Cardinality(Members(e)) = Count(e) /\ Count(e) \in Nat
    BY MembersCounted DEF CustodyInv
  <2>2. EpochOK(e)
    BY DEF EpochInv
  <2>3. \/ swapStatus[e] \in {"Verified", "Executed", "Recoverable"}
        \/ supplyStatus[e] \in {"Verified", "Executed", "Reconciled"}
        => committed[e]
    BY <2>2 DEF EpochOK, View
  <2>4. committed[e] => outcome[e] \in Outcome(Count(e))
    BY <2>2, CommittedOutcome
  <2>5. Verified(e)
    BY <2>2 DEF EpochOK
  <2> QED
    BY <2>1, <2>3, <2>4, <2>5, OutcomeFloors DEF Verified
<1> QED
  BY <1>1, EpochInvariant, PTL

-----------------------------------------------------------------------------
(***************************************************************************)
(* The contracts implement ClearingPromise, for every value of the         *)
(* constants: the initial state maps to the promise's, and every           *)
(* transaction maps to one step of the promise or to none.  The mapping    *)
(* rests on the invariants of the orders and of the epochs: the first say  *)
(* that what is locked is unconsumed and what is sealed is held, the       *)
(* second that a route that moves is of a sealed and published epoch.      *)
(***************************************************************************)

-----------------------------------------------------------------------------
(* The promise's variables, and what the mapping makes of one order or epoch.*)

Fates == [i \in Intents |-> FateOf(i)]
Custodies == [i \in Intents |-> CustodyOf(i)]
Sets == [e \in Epochs |-> Members(e)]
Swaps == [e \in Epochs |-> SwapEnd(e)]
Supplies == [e \in Epochs |-> SupplyEnd(e)]
Stopped == netState = "Halted"

OrderTable(i) ==
  /\ status[i] = "None" => FateOf(i) = "Idle"
  /\ status[i] = "Submitted" => FateOf(i) = "Offered"
  /\ status[i] = "Authorised" /\ consumedBy[i] = NoEpoch => FateOf(i) = "Locked"
  /\ status[i] = "Authorised" /\ consumedBy[i] # NoEpoch => FateOf(i) = "Sealed"
  /\ status[i] = "Processed" => FateOf(i) = "Cleared"
  /\ status[i] = "Expired" => FateOf(i) = "Lapsed"
  /\ status[i] = "Cancelled" => FateOf(i) = "Withdrawn"
  /\ escrow[i] = "Empty" => CustodyOf(i) = "Safe"
  /\ escrow[i] = "Held" => CustodyOf(i) = "Vault"
  /\ escrow[i] \in {"Refunded", "Exited"} => CustodyOf(i) = "Returned"

RouteTable(e) ==
  /\ swapStatus[e] \in {"None", "Verified"} => SwapEnd(e) = "Pending"
  /\ swapStatus[e] = "Recoverable" => SwapEnd(e) = "Recovered"
  /\ swapStatus[e] \in {"Executed", "NoPublicResidual", "Reconciled"} =>
       SwapEnd(e) = IF outcome[e].residual = "Zero" THEN "NoVenue" ELSE "Venue"
  /\ supplyStatus[e] \in {"None", "Verified"} => SupplyEnd(e) = "Pending"
  /\ supplyStatus[e] = "NoPublicResidual" => SupplyEnd(e) = "NoVenue"
  /\ supplyStatus[e] \in {"Executed", "Reconciled"} => SupplyEnd(e) = "Venue"

Tables == (\A i \in Intents : OrderTable(i)) /\ (\A e \in Epochs : RouteTable(e))

LEMMA Table == Tables
BY DEF Tables, OrderTable, RouteTable, FateOf, CustodyOf, SwapEnd, SupplyEnd

LEMMA TableNext == Tables'
BY DEF Tables, OrderTable, RouteTable, FateOf, CustodyOf, SwapEnd, SupplyEnd

\* An order, or an epoch, that a step leaves alone is mapped to what it was.
LEMMA SameOrder ==
  ASSUME NEW i \in Intents
  PROVE  /\ status'[i] = status[i] /\ consumedBy'[i] = consumedBy[i]
              => FateOf(i)' = FateOf(i)
         /\ escrow'[i] = escrow[i] => CustodyOf(i)' = CustodyOf(i)
BY DEF FateOf, CustodyOf

LEMMA SameEpoch ==
  ASSUME NEW e \in Epochs
  PROVE  /\ swapStatus'[e] = swapStatus[e] /\ outcome'[e] = outcome[e]
              => SwapEnd(e)' = SwapEnd(e)
         /\ supplyStatus'[e] = supplyStatus[e] => SupplyEnd(e)' = SupplyEnd(e)
BY DEF SwapEnd, SupplyEnd

\* A step that changes one order changes the mapping at that order.
LEMMA OneOrder ==
  ASSUME NEW i \in Intents
  PROVE  /\ UNCHANGED consumedBy /\ (\A d \in Intents \ {i} : status'[d] = status[d])
              => Fates' = [Fates EXCEPT ![i] = FateOf(i)']
         /\ (\A d \in Intents \ {i} : escrow'[d] = escrow[d])
              => Custodies' = [Custodies EXCEPT ![i] = CustodyOf(i)']
<1>1. ASSUME UNCHANGED consumedBy, \A d \in Intents \ {i} : status'[d] = status[d]
      PROVE  Fates' = [Fates EXCEPT ![i] = FateOf(i)']
  BY <1>1, SameOrder DEF Fates
<1>2. ASSUME \A d \in Intents \ {i} : escrow'[d] = escrow[d]
      PROVE  Custodies' = [Custodies EXCEPT ![i] = CustodyOf(i)']
  BY <1>2, SameOrder DEF Custodies
<1> QED
  BY <1>1, <1>2

LEMMA OneEpoch ==
  ASSUME NEW e \in Epochs
  PROVE  /\ UNCHANGED outcome /\ (\A d \in Epochs \ {e} : swapStatus'[d] = swapStatus[d])
              => Swaps' = [Swaps EXCEPT ![e] = SwapEnd(e)']
         /\ (\A d \in Epochs \ {e} : supplyStatus'[d] = supplyStatus[d])
              => Supplies' = [Supplies EXCEPT ![e] = SupplyEnd(e)']
<1>1. ASSUME UNCHANGED outcome, \A d \in Epochs \ {e} : swapStatus'[d] = swapStatus[d]
      PROVE  Swaps' = [Swaps EXCEPT ![e] = SwapEnd(e)']
  BY <1>1, SameEpoch DEF Swaps
<1>2. ASSUME \A d \in Epochs \ {e} : supplyStatus'[d] = supplyStatus[d]
      PROVE  Supplies' = [Supplies EXCEPT ![e] = SupplyEnd(e)']
  BY <1>2, SameEpoch DEF Supplies
<1> QED
  BY <1>1, <1>2

\* What the contracts leave alone, the mapping does too.
LEMMA Unchanged ==
  /\ UNCHANGED <<status, consumedBy>> => UNCHANGED Fates
  /\ UNCHANGED escrow => UNCHANGED Custodies
  /\ UNCHANGED candidates => UNCHANGED Sets
  /\ UNCHANGED <<swapStatus, outcome>> => UNCHANGED Swaps
  /\ UNCHANGED supplyStatus => UNCHANGED Supplies
  /\ UNCHANGED netState => UNCHANGED Stopped
BY SameOrder, SameEpoch
DEF Fates, Custodies, Sets, Members, Count, Swaps, Supplies, Stopped

Mapped == <<Fates, Custodies, Sets, Swaps, Supplies, Stopped>>

LEMMA MappedStutters == UNCHANGED Mapped => UNCHANGED Promise!promiseVars
BY DEF Mapped, Promise!promiseVars, Fates, Custodies, Sets, Swaps, Supplies, Stopped

-----------------------------------------------------------------------------
(* Orders. *)

LEMMA OfferIsPromised ==
  ASSUME TypeOK, NEW i \in Intents, Submit(i)
  PROVE  Promise!Next
<1>1. /\ netState = "Live" /\ UNCHANGED <<netState, consumedBy, escrow, candidates>>
      /\ UNCHANGED <<swapStatus, outcome, supplyStatus>>
      /\ status[i] = "None" /\ status' = [status EXCEPT ![i] = "Submitted"]
  BY DEF Submit, SubmitIntent, RecordSubmission, RequireLive, pauseVars, engineVars,
         settlementVars
<1>2. FateOf(i) = "Idle" /\ FateOf(i)' = "Offered"
  BY <1>1, Table, TableNext DEF Tables, OrderTable, TypeOK, BookTypeOK
<1>3. Fates' = [Fates EXCEPT ![i] = "Offered"]
  BY <1>1, <1>2, OneOrder
<1>4. ~Stopped /\ Fates[i] = "Idle" /\ UNCHANGED <<Custodies, Sets, Swaps, Supplies, Stopped>>
  BY <1>1, <1>2, Unchanged DEF Stopped, Fates
<1>5. Promise!Offer(i)
  BY <1>3, <1>4 DEF Promise!Offer, Fates, Custodies, Sets, Swaps, Supplies, Stopped
<1> QED
  BY <1>5 DEF Promise!Next

\* An order is authorised before any epoch consumes it.
LEMMA LockIsPromised ==
  ASSUME TypeOK, CustodyInv, NEW i \in Intents, Activate(i)
  PROVE  Promise!Next
<1>1. /\ netState = "Live" /\ UNCHANGED <<netState, consumedBy, candidates>>
      /\ UNCHANGED <<swapStatus, outcome, supplyStatus>>
      /\ status[i] = "Submitted" /\ status' = [status EXCEPT ![i] = "Authorised"]
      /\ escrow' = [escrow EXCEPT ![i] = "Held"]
  BY DEF Activate, ActivateIntent, RecordAuthorisation, LockEscrow, RequireLive, pauseVars,
         engineVars, settlementVars
<1>2. consumedBy[i] = NoEpoch
  BY <1>1 DEF CustodyInv, SealedKeepsEscrow, ConsumedIsSealed, TypeOK, BookTypeOK
<1>3. FateOf(i) = "Offered" /\ FateOf(i)' = "Locked" /\ CustodyOf(i)' = "Vault"
  BY <1>1, <1>2, Table, TableNext
  DEF Tables, OrderTable, TypeOK, BookTypeOK, VaultTypeOK
<1>4. /\ Fates' = [Fates EXCEPT ![i] = "Locked"]
      /\ Custodies' = [Custodies EXCEPT ![i] = "Vault"]
  BY <1>1, <1>3, OneOrder
<1>5. ~Stopped /\ Fates[i] = "Offered" /\ UNCHANGED <<Sets, Swaps, Supplies, Stopped>>
  BY <1>1, <1>3, Unchanged DEF Stopped, Fates
<1>6. Promise!Lock(i)
  BY <1>4, <1>5 DEF Promise!Lock, Fates, Custodies, Sets, Swaps, Supplies, Stopped
<1> QED
  BY <1>6 DEF Promise!Next

LEMMA WithdrawIsPromised ==
  ASSUME TypeOK, CustodyInv, NEW i \in Intents, Cancel(i)
  PROVE  Promise!Next
<1>1. /\ netState # "Halted" /\ UNCHANGED <<netState, consumedBy, candidates>>
      /\ UNCHANGED <<swapStatus, outcome, supplyStatus>>
      /\ status[i] \in {"Submitted", "Authorised"} /\ consumedBy[i] = NoEpoch
      /\ status' = [status EXCEPT ![i] = "Cancelled"]
      /\ \/ status[i] = "Authorised" /\ escrow' = [escrow EXCEPT ![i] = "Refunded"]
         \/ status[i] = "Submitted" /\ UNCHANGED escrow
  BY DEF Cancel, CancelIntent, RecordCancellation, RefundCancelled, RequireNotHalted,
         pauseVars, engineVars, settlementVars
<1>2. FateOf(i)' = "Withdrawn"
  BY <1>1, TableNext DEF Tables, OrderTable, TypeOK, BookTypeOK
<1>3. FateOf(i) = IF status[i] = "Authorised" THEN "Locked" ELSE "Offered"
  BY <1>1, Table DEF Tables, OrderTable
<1>4. CustodyOf(i)' = IF FateOf(i) = "Locked" THEN "Returned" ELSE CustodyOf(i)
  BY <1>1, <1>3, TableNext, SameOrder DEF Tables, OrderTable, TypeOK, VaultTypeOK
<1>5. /\ Fates' = [Fates EXCEPT ![i] = "Withdrawn"]
      /\ Custodies' = [Custodies EXCEPT ![i] = CustodyOf(i)']
  BY <1>1, <1>2, OneOrder DEF TypeOK, VaultTypeOK
<1>6. /\ ~Stopped /\ Fates[i] = FateOf(i) /\ Custodies[i] = CustodyOf(i)
      /\ Fates[i] \in {"Offered", "Locked"} /\ UNCHANGED <<Sets, Swaps, Supplies, Stopped>>
  BY <1>1, <1>3, Unchanged DEF Stopped, Fates, Custodies
<1>7. Custodies' = [Custodies EXCEPT ![i] = IF Fates[i] = "Locked" THEN "Returned" ELSE @]
  BY <1>4, <1>5, <1>6
<1>8. Promise!Withdraw(i)
  BY <1>5, <1>6, <1>7 DEF Promise!Withdraw, Fates, Custodies, Sets, Swaps, Supplies, Stopped
<1> QED
  BY <1>8 DEF Promise!Next

LEMMA LapseIsPromised ==
  ASSUME TypeOK, NEW i \in Intents, Expire(i)
  PROVE  Promise!Next
<1>1. /\ UNCHANGED <<netState, consumedBy, escrow, candidates>>
      /\ UNCHANGED <<swapStatus, outcome, supplyStatus>>
      /\ status[i] \in {"Submitted", "Authorised"} /\ consumedBy[i] = NoEpoch
      /\ status' = [status EXCEPT ![i] = "Expired"]
  BY DEF Expire, RecordExpiry, pauseVars, engineVars, settlementVars
<1>2. FateOf(i) \in {"Offered", "Locked"} /\ FateOf(i)' = "Lapsed"
  BY <1>1, Table, TableNext DEF Tables, OrderTable, TypeOK, BookTypeOK
<1>3. Fates' = [Fates EXCEPT ![i] = "Lapsed"]
  BY <1>1, <1>2, OneOrder
<1>4. /\ Fates[i] \in {"Offered", "Locked"}
      /\ UNCHANGED <<Custodies, Sets, Swaps, Supplies, Stopped>>
  BY <1>1, <1>2, Unchanged DEF Fates
<1>5. Promise!Lapse(i)
  BY <1>3, <1>4 DEF Promise!Lapse, Fates, Custodies, Sets, Swaps, Supplies, Stopped
<1> QED
  BY <1>5 DEF Promise!Next

LEMMA LeaveIsPromised ==
  ASSUME TypeOK, NEW i \in Intents, Exit(i)
  PROVE  Promise!Next
<1>1. /\ netState = "Halted" /\ UNCHANGED <<netState, status, consumedBy, candidates>>
      /\ UNCHANGED <<swapStatus, outcome, supplyStatus>>
      /\ escrow[i] = "Held" /\ escrow' = [escrow EXCEPT ![i] = "Exited"]
  BY DEF Exit, ExitHalted, ExitTimedOut, EmergencyRelease, RequireHalted, pauseVars,
         bookVars, engineVars, settlementVars
<1>2. CustodyOf(i) = "Vault" /\ CustodyOf(i)' = "Returned"
  BY <1>1, Table, TableNext DEF Tables, OrderTable, TypeOK, VaultTypeOK
<1>3. Custodies' = [Custodies EXCEPT ![i] = "Returned"]
  BY <1>1, <1>2, OneOrder
<1>4. Stopped /\ Custodies[i] = "Vault" /\ UNCHANGED <<Fates, Sets, Swaps, Supplies, Stopped>>
  BY <1>1, <1>2, Unchanged DEF Stopped, Custodies
<1>5. Promise!Leave(i)
  BY <1>3, <1>4 DEF Promise!Leave, Fates, Custodies, Sets, Swaps, Supplies, Stopped
<1> QED
  BY <1>5 DEF Promise!Next
-----------------------------------------------------------------------------
(* Epochs. *)

\* A seal takes its candidates from Locked to Sealed, together.
LEMMA SealIsPromised ==
  ASSUME TypeOK, CustodyInv, NEW e \in Epochs, Seal(e)
  PROVE  Promise!Next
<1>1. PICK s \in CandidateLists : EngineSealEpoch(e, s) /\ UNCHANGED settlementVars
  BY DEF Seal
<1> DEFINE S == {s[k] : k \in 1 .. Len(s)}
<1>2. /\ netState # "Halted" /\ UNCHANGED <<netState, status, escrow>>
      /\ UNCHANGED <<swapStatus, outcome, supplyStatus>>
      /\ stage[e] = "None" /\ Len(s) \in 1 .. MaxCandidates
      /\ \A k \in 1 .. Len(s) : Sealable(s[k], e)
      /\ candidates' = [candidates EXCEPT ![e] = s]
      /\ consumedBy' = [i \in Intents |-> IF \E k \in 1 .. Len(s) : s[k] = i
                                          THEN e ELSE consumedBy[i]]
  BY <1>1 DEF EngineSealEpoch, BookSealEpoch, RequireLive, pauseVars, settlementVars
<1>3. S \in SUBSET Intents /\ S # {}
  <2>1. s \in Seq(Intents) /\ 1 \in 1 .. Len(s)
    BY <1>2, CandidateListType, BookAssumption DEF BookAssumption
  <2> QED
    BY <2>1
<1>4. \A i \in S : status[i] = "Authorised" /\ consumedBy[i] = NoEpoch /\ EpochOf[i] = e
  BY <1>2 DEF Sealable
<1>5. Members(e)' = S /\ Members(e) = {}
  <2>1. Members(e)' = S
    BY <1>2 DEF Members, Count, TypeOK, BookTypeOK
  <2>2. Members(e) = {}
    BY <1>2 DEF CustodyInv, ConsumedIsSealed, Members, Count
  <2> QED
    BY <2>1, <2>2
<1>6. Sets[e] = {} /\ Sets' = [Sets EXCEPT ![e] = S]
  <2>1. ASSUME NEW d \in Epochs \ {e} PROVE Members(d)' = Members(d)
    BY <1>2 DEF Members, Count, TypeOK, BookTypeOK
  <2> HIDE DEF S
  <2> QED
    BY <1>5, <2>1 DEF Sets
<1>7. consumedBy' = [i \in Intents |-> IF i \in S THEN e ELSE consumedBy[i]]
  BY <1>2
<1> HIDE DEF S
<1>8. Fates' = [i \in Intents |-> IF i \in S THEN "Sealed" ELSE Fates[i]]
  <2>1. ASSUME NEW i \in S PROVE FateOf(i)' = "Sealed"
    BY <1>2, <1>3, <1>4, <1>7, TableNext, BookAssumption
    DEF Tables, OrderTable, BookAssumption
  <2>2. ASSUME NEW i \in Intents \ S PROVE FateOf(i)' = FateOf(i)
    BY <1>2, <1>7, SameOrder
  <2> QED
    BY <2>1, <2>2 DEF Fates
<1>9. \A i \in S : Fates[i] = "Locked"
  BY <1>3, <1>4, Table DEF Fates, Tables, OrderTable
<1>10. ~Stopped /\ UNCHANGED <<Custodies, Swaps, Supplies, Stopped>>
  BY <1>2, Unchanged DEF Stopped
<1>11. Promise!Seal(e, S)
  BY <1>3, <1>4, <1>6, <1>8, <1>9, <1>10
  DEF Promise!Seal, Fates, Custodies, Sets, Swaps, Supplies, Stopped
<1> QED
  BY <1>3, <1>11 DEF Promise!Next

\* Opening, computing and publishing an epoch promise nothing: the outcome is
\* fixed while no route has ended.
LEMMA ClearingIsSilent ==
  ASSUME TypeOK, EpochInv, NEW e \in Epochs, NEW n \in Nat,
         Open(e) \/ Compute(e, n) \/ Publish(e)
  PROVE  UNCHANGED Mapped
<1>1. UNCHANGED <<netState, status, consumedBy, escrow, candidates, swapStatus, supplyStatus>>
  <2>1. CASE Open(e) \/ Publish(e)
    BY <2>1 DEF Open, EngineOpenEpoch, BookOpenEpoch, Publish, PublishResidual, BookCommit,
                pauseVars, settlementVars, supplyVars
  <2>2. CASE Compute(e, n)
    BY <2>2 DEF Compute, RunClassification, RunAccumulation, RunCrossing, RunAllocation,
                RunResidual, FinaliseResidual, RunBatch, pauseVars, bookVars,
                settlementVars, supplyVars
  <2> QED
    BY <2>1, <2>2
<1>2. UNCHANGED outcome \/ (stage[e] = "ResidualComputed"
                              /\ \A d \in Epochs \ {e} : outcome'[d] = outcome[d])
  BY DEF Open, EngineOpenEpoch, Publish, PublishResidual, engineVars, TypeOK, EngineTypeOK,
         Compute, RunClassification, RunAccumulation, RunCrossing, RunAllocation,
         RunResidual, FinaliseResidual, RunBatch
<1>3. UNCHANGED Swaps
  <2>1. CASE UNCHANGED outcome
    BY <1>1, <2>1, Unchanged
  <2>2. CASE stage[e] = "ResidualComputed" /\ \A d \in Epochs \ {e} : outcome'[d] = outcome[d]
    <3>1. swapStatus[e] = "None"
      BY <2>2 DEF EpochInv, EpochOK, View
    <3>2. SwapEnd(e)' = SwapEnd(e)
      BY <1>1, <3>1, Table, TableNext DEF Tables, RouteTable
    <3>3. \A d \in Epochs : SwapEnd(d)' = SwapEnd(d)
      BY <1>1, <2>2, <3>2, SameEpoch
    <3> QED
      BY <3>3 DEF Swaps
  <2> QED
    BY <1>2, <2>1, <2>2
<1> QED
  BY <1>1, <1>3, Unchanged DEF Mapped

\* What a route that moves is known of.
LEMMA MovingRoute ==
  ASSUME TypeOK, CustodyInv, EpochInv, NEW e \in Epochs, committed[e]
  PROVE  /\ Sets[e] # {}
         /\ netState # "Halted" => \A i \in Sets[e] : Custodies[i] = "Vault"
<1>1. candidates[e] # << >> /\ candidates[e] \in Seq(Intents)
  BY DEF EpochInv, EpochOK, View, CustodyInv, ConsumedIsSealed, TypeOK, BookTypeOK
<1>2. 1 \in 1 .. Count(e)
  BY <1>1 DEF Count
<1>3. Members(e) # {}
  BY <1>2 DEF Members
<1>4. netState # "Halted" => \A i \in Members(e) : escrow[i] = "Held"
  BY DEF CustodyInv, SealedKeepsEscrow
<1>5. \A i \in Members(e) : i \in Intents /\ (escrow[i] = "Held" => CustodyOf(i) = "Vault")
  BY MembersAreOrders, Table DEF Tables, OrderTable
<1> QED
  BY <1>3, <1>4, <1>5 DEF Sets, Custodies

LEMMA SwapIsPromised ==
  ASSUME TypeOK, CustodyInv, EpochInv, NEW e \in Epochs,
         VerifyResidual(e) \/ SettleResidual(e) \/ DeclareTimedOut(e)
  PROVE  Promise!Next \/ UNCHANGED Mapped
<1>1. /\ UNCHANGED <<netState, status, consumedBy, escrow, candidates, outcome, supplyStatus>>
      /\ \A d \in Epochs \ {e} : swapStatus'[d] = swapStatus[d]
  BY DEF VerifyResidual, SettleResidual, DeclareTimedOut, pauseVars, orderVars, engineVars,
         supplyVars, TypeOK, SettlementTypeOK
<1>2. EpochOK(e) /\ e \in DOMAIN swapStatus
  BY DEF EpochInv, TypeOK, SettlementTypeOK
<1>3. swapStatus[e] \in {"None", "Verified"} /\ committed[e]
  BY <1>2 DEF VerifyResidual, SettleResidual, DeclareTimedOut, EpochOK, View
<1>4. SwapEnd(e) = "Pending"
  BY <1>3, Table DEF Tables, RouteTable
<1>5. \/ SwapEnd(e)' = "Pending"
      \/ SwapEnd(e)' = "NoVenue" /\ netState # "Halted"
      \/ SwapEnd(e)' = "Venue" /\ netState # "Halted"
      \/ SwapEnd(e)' = "Recovered"
  <2>1. CASE VerifyResidual(e)
    <3>1. /\ netState # "Halted"
          /\ \/ swapStatus'[e] = "NoPublicResidual" \/ swapStatus'[e] = "Verified"
      BY <1>2, <2>1 DEF VerifyResidual, RequireNotHalted
    <3> QED
      BY <3>1, TableNext DEF Tables, RouteTable
  <2>2. CASE SettleResidual(e)
    <3>1. netState # "Halted" /\ swapStatus'[e] = "Executed"
      BY <1>2, <2>2 DEF SettleResidual, RequireNotHalted
    <3> QED
      BY <3>1, TableNext DEF Tables, RouteTable
  <2>3. CASE DeclareTimedOut(e)
    <3>1. swapStatus'[e] = "Recoverable"
      BY <1>2, <2>3 DEF DeclareTimedOut
    <3> QED
      BY <3>1, TableNext DEF Tables, RouteTable
  <2> QED
    BY <2>1, <2>2, <2>3
<1>6. UNCHANGED <<Fates, Custodies, Sets, Supplies, Stopped>>
  BY <1>1, Unchanged
<1>7. Swaps[e] = "Pending" /\ Swaps' = [Swaps EXCEPT ![e] = SwapEnd(e)']
  BY <1>1, <1>4, OneEpoch DEF Swaps
<1>8. CASE SwapEnd(e)' = "Pending"
  <2>1. UNCHANGED Swaps
    BY <1>7, <1>8 DEF Swaps
  <2> QED
    BY <1>6, <2>1 DEF Mapped
<1>9. CASE SwapEnd(e)' # "Pending"
  <2>1. PICK how \in {"Venue", "NoVenue", "Recovered"} :
          SwapEnd(e)' = how /\ (how \in {"Venue", "NoVenue"} => ~Stopped)
    BY <1>5, <1>9 DEF Stopped
  <2>2. Sets[e] # {} /\ (how = "Venue" => \A i \in Sets[e] : Custodies[i] = "Vault")
    BY <1>3, <2>1, MovingRoute DEF Stopped
  <2>3. Promise!EndSwap(e, how)
    BY <1>6, <1>7, <2>1, <2>2
    DEF Promise!EndSwap, Fates, Custodies, Sets, Swaps, Supplies, Stopped
  <2> QED
    BY <2>3 DEF Promise!Next
<1> QED
  BY <1>8, <1>9
LEMMA SupplyIsPromised ==
  ASSUME TypeOK, CustodyInv, EpochInv, NEW e \in Epochs, NEW n \in Nat,
         VerifySupply(e) \/ SettleSupply(e) \/ ReconcileSupply(e, n)
  PROVE  Promise!Next \/ UNCHANGED Mapped
<1>1. /\ UNCHANGED <<netState, status, consumedBy, escrow, candidates, outcome, swapStatus>>
      /\ \A d \in Epochs \ {e} : supplyStatus'[d] = supplyStatus[d]
      /\ netState # "Halted"
  BY DEF VerifySupply, SettleSupply, ReconcileSupply, RequireNotHalted, pauseVars, bookVars,
         engineVars, swapVars, TypeOK, SettlementTypeOK
<1>2. EpochOK(e) /\ e \in DOMAIN supplyStatus
  BY DEF EpochInv, TypeOK, SettlementTypeOK
<1>3. committed[e]
  BY <1>2 DEF VerifySupply, SettleSupply, ReconcileSupply, EpochOK, View
<1>4. \/ SupplyEnd(e)' = SupplyEnd(e)
      \/ SupplyEnd(e) = "Pending" /\ SupplyEnd(e)' \in {"Venue", "NoVenue"}
  <2>1. CASE VerifySupply(e)
    <3>1. /\ supplyStatus[e] = "None"
          /\ supplyStatus'[e] \in {"Verified", "NoPublicResidual"}
      BY <1>2, <2>1 DEF VerifySupply
    <3> QED
      BY <3>1, Table, TableNext DEF Tables, RouteTable
  <2>2. CASE SettleSupply(e)
    <3>1. supplyStatus[e] = "Verified" /\ supplyStatus'[e] = "Executed"
      BY <1>2, <2>2 DEF SettleSupply
    <3> QED
      BY <3>1, Table, TableNext DEF Tables, RouteTable
  <2>3. CASE ReconcileSupply(e, n)
    <3>1. supplyStatus[e] = "Executed" /\ supplyStatus'[e] \in {"Executed", "Reconciled"}
      BY <1>2, <2>3 DEF ReconcileSupply
    <3> QED
      BY <3>1, Table, TableNext DEF Tables, RouteTable
  <2> QED
    BY <2>1, <2>2, <2>3
<1>5. UNCHANGED <<Fates, Custodies, Sets, Swaps, Stopped>>
  BY <1>1, Unchanged
<1>6. Supplies[e] = SupplyEnd(e) /\ Supplies' = [Supplies EXCEPT ![e] = SupplyEnd(e)']
  BY <1>1, OneEpoch DEF Supplies
<1>7. CASE SupplyEnd(e)' = SupplyEnd(e)
  <2>1. UNCHANGED Supplies
    BY <1>6, <1>7 DEF Supplies
  <2> QED
    BY <1>5, <2>1 DEF Mapped
<1>8. CASE SupplyEnd(e) = "Pending" /\ SupplyEnd(e)' \in {"Venue", "NoVenue"}
  <2>1. PICK how \in {"Venue", "NoVenue"} : SupplyEnd(e)' = how
    BY <1>8
  <2>2. ~Stopped /\ Sets[e] # {} /\ \A i \in Sets[e] : Custodies[i] = "Vault"
    BY <1>1, <1>3, MovingRoute DEF Stopped
  <2>3. Promise!EndSupply(e, how)
    BY <1>5, <1>6, <1>8, <2>1, <2>2
    DEF Promise!EndSupply, Fates, Custodies, Sets, Swaps, Supplies, Stopped
  <2> QED
    BY <2>3 DEF Promise!Next
<1> QED
  BY <1>4, <1>7, <1>8

\* A batch clears the candidates it finds uncleared, or none.
LEMMA ReconcileIsPromised ==
  ASSUME TypeOK, CustodyInv, EpochInv, NEW e \in Epochs, NEW n \in Nat, Reconcile(e, n)
  PROVE  Promise!Next \/ UNCHANGED Mapped
<1> DEFINE P == Batch(e, swapCursor[e], SettleEnd(e, swapCursor[e], n))
           S == {i \in P : status[i] # "Processed"}
<1>1. P \subseteq Members(e) /\ Members(e) \subseteq Intents
  BY BatchAreMembers, MembersAreOrders
<1>2. /\ UNCHANGED <<netState, consumedBy, escrow, candidates, outcome, supplyStatus>>
      /\ netState # "Halted" /\ swapStatus[e] \in {"Executed", "NoPublicResidual"}
      /\ status' = [i \in Intents |-> IF i \in P THEN "Processed" ELSE status[i]]
      /\ UNCHANGED swapStatus \/ swapStatus' = [swapStatus EXCEPT ![e] = "Reconciled"]
  BY DEF Reconcile, RecordProcessed, RequireNotHalted, pauseVars, supplyVars
<1> HIDE DEF P
<1>3. ASSUME NEW i \in S
      PROVE  i \in Intents /\ FateOf(i) = "Sealed" /\ FateOf(i)' = "Cleared"
  <2>1. i \in Intents /\ status[i] = "Authorised" /\ consumedBy[i] = e
    BY <1>1 DEF CustodyInv, SealedKeepsEscrow, ConsumedIsSealed
  <2>2. status'[i] = "Processed" /\ consumedBy[i] # NoEpoch
    BY <1>2, <2>1, BookAssumption DEF BookAssumption
  <2> QED
    BY <2>1, <2>2, Table, TableNext DEF Tables, OrderTable
<1>4. ASSUME NEW i \in Intents \ S PROVE FateOf(i)' = FateOf(i)
  <2>1. status'[i] = status[i] /\ consumedBy'[i] = consumedBy[i]
    BY <1>2
  <2> QED
    BY <2>1, SameOrder
<1>5. /\ S \in SUBSET Intents /\ S \subseteq Sets[e] /\ \A i \in S : Fates[i] = "Sealed"
      /\ Fates' = [i \in Intents |-> IF i \in S THEN "Cleared" ELSE Fates[i]]
  <2>1. S \subseteq P
    OBVIOUS
  <2> HIDE DEF S
  <2> QED
    BY <1>1, <1>3, <1>4, <2>1 DEF Fates, Sets
<1>6. Swaps[e] \in {"Venue", "NoVenue"}
  BY <1>2, Table DEF Tables, RouteTable, Swaps
<1>7. UNCHANGED <<Custodies, Sets, Swaps, Supplies, Stopped>>
  <2>1. SwapEnd(e)' = SwapEnd(e)
    BY <1>2, Table, TableNext DEF Tables, RouteTable, TypeOK, SettlementTypeOK
  <2>2. \A d \in Epochs \ {e} : SwapEnd(d)' = SwapEnd(d)
    BY <1>2, SameEpoch DEF TypeOK, SettlementTypeOK
  <2>3. UNCHANGED Swaps
    BY <2>1, <2>2 DEF Swaps
  <2> QED
    BY <1>2, <2>3, Unchanged
<1> HIDE DEF S
<1>8. CASE S = {}
  <2>1. UNCHANGED Fates
    BY <1>5, <1>8 DEF Fates
  <2> QED
    BY <1>7, <2>1 DEF Mapped
<1>9. CASE S # {}
  <2>1. ~Stopped
    BY <1>2 DEF Stopped
  <2>2. Promise!Clear(e, S)
    BY <1>5, <1>6, <1>7, <1>9, <2>1
    DEF Promise!Clear, Fates, Custodies, Sets, Swaps, Supplies, Stopped
  <2> QED
    BY <1>5, <2>2 DEF Promise!Next
<1> QED
  BY <1>8, <1>9

-----------------------------------------------------------------------------
(* The refinement. *)

LEMMA InitIsPromised == Init => Promise!Init
<1> SUFFICES ASSUME Init PROVE Promise!Init
  OBVIOUS
<1>1. \A i \in Intents : FateOf(i) = "Idle" /\ CustodyOf(i) = "Safe"
  BY Table DEF Tables, OrderTable, Init, BookInit, VaultInit
<1>2. \A e \in Epochs : Members(e) = {} /\ SwapEnd(e) = "Pending" /\ SupplyEnd(e) = "Pending"
  BY Table DEF Tables, RouteTable, Init, BookInit, SettlementInit, Members, Count
<1>3. netState # "Halted"
  BY DEF Init, PauseInit
<1> QED
  BY <1>1, <1>2, <1>3 DEF Promise!Init

LEMMA GuardianIsPromised ==
  ASSUME Guardian
  PROVE  Promise!Next \/ UNCHANGED Mapped
<1>1. /\ UNCHANGED <<status, consumedBy, escrow, candidates, swapStatus, outcome, supplyStatus>>
      /\ ~Stopped /\ (UNCHANGED Stopped \/ Stopped')
  BY DEF Guardian, GuardianNext, Pause, Halt, PauseActivity, bookVars, engineVars,
         settlementVars, supplyVars, Stopped
<1>2. UNCHANGED <<Fates, Custodies, Sets, Swaps, Supplies>>
  BY <1>1, Unchanged
<1>3. CASE UNCHANGED Stopped
  BY <1>2, <1>3 DEF Mapped
<1>4. CASE Stopped'
  <2>1. Promise!Stop
    BY <1>1, <1>2, <1>4 DEF Promise!Stop, Fates, Custodies, Sets, Swaps, Supplies, Stopped
  <2> QED
    BY <2>1 DEF Promise!Next
<1> QED
  BY <1>1, <1>3, <1>4

LEMMA StepIsPromised ==
  TypeOK /\ CustodyInv /\ EpochInv /\ [Next]_vars => [Promise!Next]_(Promise!promiseVars)
<1> SUFFICES ASSUME TypeOK, CustodyInv, EpochInv, [Next]_vars
             PROVE  Promise!Next \/ UNCHANGED Mapped
  BY MappedStutters
<1>1. CASE Guardian
  BY <1>1, GuardianIsPromised
<1>2. CASE Tick \/ UNCHANGED vars
  <2>1. UNCHANGED <<netState, status, consumedBy, escrow, candidates, swapStatus, outcome,
                    supplyStatus>>
    BY <1>2 DEF Tick, vars, pauseVars, bookVars, engineVars, settlementVars, supplyVars
  <2> QED
    BY <2>1, Unchanged DEF Mapped
<1>3. CASE \E i \in Intents : OrderNext(i)
  BY <1>3, OfferIsPromised, LockIsPromised, WithdrawIsPromised, LapseIsPromised,
     LeaveIsPromised DEF OrderNext
<1>4. ASSUME NEW e \in Epochs, EpochNext(e) PROVE Promise!Next \/ UNCHANGED Mapped
  <2>1. CASE Seal(e)
    BY <2>1, SealIsPromised
  <2>2. CASE Open(e) \/ Publish(e)
    <3>1. 0 \in Nat
      OBVIOUS
    <3> QED
      BY <2>2, <3>1, ClearingIsSilent
  <2>3. ASSUME NEW n \in BatchSizes, Compute(e, n) PROVE UNCHANGED Mapped
    BY <2>3, ClearingIsSilent, BatchAssumption DEF BatchAssumption
  <2>4. ASSUME NEW n \in BatchSizes, SettleNext(e, n)
        PROVE  Promise!Next \/ UNCHANGED Mapped
    <3>1. n \in Nat
      BY BatchAssumption DEF BatchAssumption
    <3> QED
      BY <2>4, <3>1, SwapIsPromised, SupplyIsPromised, ReconcileIsPromised DEF SettleNext
  <2> QED
    BY <1>4, <2>1, <2>2, <2>3, <2>4 DEF EpochNext
<1> QED
  BY <1>1, <1>2, <1>3, <1>4 DEF Next

\* Every transaction of the contracts is one step of the promise, or none: a
\* value is locked once and comes back once, a sealed set is fixed, a route
\* ends once and spends only what the vault still holds.
THEOREM ContractsKeepPromise == Spec => KeepsPromise
<1> QED
  BY InitIsPromised, StepIsPromised, EpochInvariant, PTL DEF Spec, KeepsPromise, Promise!Spec

=============================================================================
