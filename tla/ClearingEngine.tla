---------------------------- MODULE ClearingEngine ---------------------------
(***************************************************************************)
(* contracts/clearing/ShrudClearingEngine.sol, its control: the stages of  *)
(* one epoch's confidential computation, each a resumable batch loop over  *)
(* the candidates, all open to any caller.                                 *)
(*                                                                         *)
(* The encrypted values are abstracted to the Outcome they are published   *)
(* as.  It becomes fixed when the last stage completes, and nothing reads  *)
(* it before.  ClearingArithmetic models the values.                       *)
(***************************************************************************)
EXTENDS ClearingVault, PublishedOutcome

CONSTANTS
  NoOutcome,        \* the encrypted results before they are final
  MaxStaleness      \* the price route's maxStaleness, in ticks

ASSUME EngineAssumption == MaxStaleness \in Nat

VARIABLES
  stage,      \* EpochCompute.stage
  cursor,     \* EpochCompute.cursor
  outcome,    \* what the published handles decrypt to
  granted,    \* has the settlement engine been granted the epoch's handles
  priceAge    \* age of the epoch's price snapshot, at most MaxStaleness + 1

engineVars == <<stage, cursor, outcome, granted, priceAge>>

Stage == {"None", "Sealed", "Classified", "Accumulated", "Crossed", "Allocated",
          "ResidualComputed", "Published"}

EngineTypeOK ==
  /\ stage \in [Epochs -> Stage]
  /\ cursor \in [Epochs -> Nat]
  /\ outcome \in [Epochs -> Published \cup {NoOutcome}]
  /\ \A e \in Epochs : stage[e] # "Published" => outcome[e] = NoOutcome
  /\ \A e \in Epochs : stage[e] = "Published" => outcome[e] \in Outcome(Count(e))
  /\ granted \in [Epochs -> BOOLEAN]
  /\ priceAge \in [Epochs -> 0 .. MaxStaleness + 1]

EngineInit ==
  /\ stage = [e \in Epochs |-> "None"]
  /\ cursor = [e \in Epochs |-> 0]
  /\ outcome = [e \in Epochs |-> NoOutcome]
  /\ granted = [e \in Epochs |-> FALSE]
  /\ priceAge = [e \in Epochs |-> 0]

AgePrices ==
  priceAge' = [e \in Epochs |-> IF stage[e] # "None" /\ priceAge[e] <= MaxStaleness
                                THEN priceAge[e] + 1 ELSE priceAge[e]]

\* requireFresh, asked at settlement about the snapshot taken at seal.
PriceIsFresh(e) == priceAge[e] <= MaxStaleness

-----------------------------------------------------------------------------
(* Open and seal: each writes the book in the same transaction. *)

EngineOpenEpoch(e) ==
  /\ RequireLive("Seal")
  /\ stage[e] = "None"
  /\ BookOpenEpoch(e)
  /\ UNCHANGED <<engineVars, pauseVars, escrow>>

\* Mutant: sealing that a pause does not stop.
EngineSealEpoch_Paused(e, s) ==
  /\ RequireNotHalted("Seal")
  /\ stage[e] = "None"
  /\ BookSealEpoch(e, s)
  /\ stage' = [stage EXCEPT ![e] = "Sealed"]
  /\ cursor' = [cursor EXCEPT ![e] = 0]
  /\ UNCHANGED <<outcome, granted, priceAge, pauseVars, escrow>>

\* fixPrice, which takes a new snapshot or reverts, is external to this model:
\* a step is a seal whose price the registry accepted.
EngineSealEpoch(e, s) ==
  /\ RequireLive("Seal")
  /\ stage[e] = "None"
  /\ BookSealEpoch(e, s)
  /\ stage' = [stage EXCEPT ![e] = "Sealed"]
  /\ cursor' = [cursor EXCEPT ![e] = 0]
  /\ UNCHANGED <<outcome, granted, priceAge, pauseVars, escrow>>

-----------------------------------------------------------------------------
(* The stages. *)

\* _batchEnd: at most n candidates further, never past the last.
BatchEnd(e, n) == IF cursor[e] + n > Count(e) THEN Count(e) ELSE cursor[e] + n

\* _advance: the cursor moves; the batch that reaches the end resets it and
\* moves to the next stage.
Advance(e, end, next) ==
  IF end = Count(e)
  THEN /\ cursor' = [cursor EXCEPT ![e] = 0]
       /\ stage' = [stage EXCEPT ![e] = next]
  ELSE /\ cursor' = [cursor EXCEPT ![e] = end]
       /\ UNCHANGED stage

\* Mutant: a computation that a pause of the network stops.
RunBatch_Live(e, n, from, next) ==
  /\ stage[e] = from
  /\ RequireLive("Clear")
  /\ n > 0
  /\ Advance(e, BatchEnd(e, n), next)
  /\ UNCHANGED <<outcome, granted, priceAge, pauseVars, bookVars, escrow>>

\* One batch of a stage's loop over the candidates.  The four stages differ in
\* the values they compute and share their control.
RunBatch(e, n, from, next) ==
  /\ stage[e] = from
  /\ RequireNotHalted("Clear")
  /\ n > 0
  /\ Advance(e, BatchEnd(e, n), next)
  /\ UNCHANGED <<outcome, granted, priceAge, pauseVars, bookVars, escrow>>

RunClassification(e, n) == RunBatch(e, n, "Sealed", "Classified")
RunAccumulation(e, n) == RunBatch(e, n, "Classified", "Accumulated")
RunAllocation(e, n) == RunBatch(e, n, "Crossed", "Allocated")
RunResidual(e, n) == RunBatch(e, n, "Allocated", "ResidualComputed")

\* The whole book at once: a stage without a cursor.
RunCrossing(e) ==
  /\ stage[e] = "Accumulated"
  /\ RequireNotHalted("Clear")
  /\ cursor' = [cursor EXCEPT ![e] = 0]
  /\ stage' = [stage EXCEPT ![e] = "Crossed"]
  /\ UNCHANGED <<outcome, granted, priceAge, pauseVars, bookVars, escrow>>

\* Mutant: floors computed of a batch that is not the last.
FinaliseResidual_Partial(e, n) ==
  /\ stage[e] = "ResidualComputed"
  /\ RequireNotHalted("Clear")
  /\ n > 0
  /\ Advance(e, BatchEnd(e, n), "Published")
  /\ \E o \in Outcome(BatchEnd(e, n)) : outcome' = [outcome EXCEPT ![e] = o]
  /\ UNCHANGED <<granted, priceAge, pauseVars, bookVars, escrow>>

\* The last batch computes the floors, which fixes what will be published.
FinaliseResidual(e, n) ==
  /\ stage[e] = "ResidualComputed"
  /\ RequireNotHalted("Clear")
  /\ n > 0
  /\ Advance(e, BatchEnd(e, n), "Published")
  /\ IF BatchEnd(e, n) = Count(e)
     THEN \E o \in Outcome(Count(e)) : outcome' = [outcome EXCEPT ![e] = o]
     ELSE UNCHANGED outcome
  /\ UNCHANGED <<granted, priceAge, pauseVars, bookVars, escrow>>

\* Mutant: handles that can be published, and the epoch reset, again.
PublishResidual_Again(e) ==
  /\ stage[e] = "Published"
  /\ RequireNotHalted("Clear")
  /\ committed' = [committed EXCEPT ![e] = TRUE]
  /\ SetEpochStatus(e, "ResidualReady")
  /\ UNCHANGED <<status, timeLeft, consumedBy, candidates>>
  /\ UNCHANGED <<engineVars, pauseVars, escrow>>

PublishResidual(e) ==
  /\ stage[e] = "Published"
  /\ RequireNotHalted("Clear")
  /\ BookCommit(e)
  /\ UNCHANGED <<engineVars, pauseVars, escrow>>

\* grantSettlementAccess, called by the settlement engine's reconcile.
GrantSettlementAccess(e) ==
  /\ stage[e] = "Published"
  /\ granted' = [granted EXCEPT ![e] = TRUE]
==============================================================================
