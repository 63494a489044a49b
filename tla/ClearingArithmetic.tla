-------------------------- MODULE ClearingArithmetic -------------------------
(***************************************************************************)
(* The values of one epoch's confidential computation, from its seal to    *)
(* its reconciliation: what ClearingEngine and SettlementEngine abstract.  *)
(* The candidates are fixed by the seal; every batch stage reads what the  *)
(* one before it stored for its candidates and adds to the epoch's totals. *)
(* Encryption is left out: it hides the values and does not change them.   *)
(*                                                                         *)
(* A candidate's record and the epoch's totals start at the zero handle,   *)
(* which _loadOrZero reads as zero.                                        *)
(***************************************************************************)
EXTENDS FixedPoint, PublishedOutcome, Sequences, Functions

CONSTANTS
  Books,        \* candidate lists, each a sequence of [action, locked, limit]
  Prices,       \* reference prices a registry may fix
  BatchSizes,   \* the maxCandidates arguments a keeper may pass
  Surplus       \* how far above the minimum a venue may pay

Action == {"Buy", "Sell", "Supply", "Hold"}
Order == [action : Action, locked : Nat, limit : Nat]

ASSUME ArithmeticAssumption ==
  /\ Books \subseteq Seq(Order) \ {<< >>}
  /\ Prices \subseteq Nat \ {0}
  /\ BatchSizes \subseteq Nat \ {0}
  /\ Surplus \subseteq Nat

VARIABLES
  book,     \* the candidates' orders, escrowed
  price,    \* the sealed reference price
  stage,    \* EpochCompute.stage, then SettlementRecord.status
  cursor,   \* the running stage's cursor
  slot,     \* _candidates: what the stages stored for each candidate
  total,    \* the epoch's totals
  output    \* SettlementRecord.actualOutput

vars == <<book, price, stage, cursor, slot, total, output>>

Field == {"buyQuote", "sellBase", "supplyQuote", "buyDemandBase", "crossBaseOut",
          "crossQuoteUsed", "crossBaseUsed", "crossQuoteOut", "residualContribution",
          "requiredVenueTotal", "externalAllocation", "finalAllocation"}
Total == {"grossBuyDemandBase", "grossSellSupplyBase", "grossSupplyQuote",
          "effectiveCount", "supplyContributorCount", "crossedBase", "crossedQuote",
          "aggregateInput", "contributorCount", "aggregateMinimum"}
Stage == {"Sealed", "Classified", "Accumulated", "Crossed", "Allocated",
          "ResidualComputed", "Published", "Executed", "NoPublicResidual", "Reconciled"}

Count == Len(book)
Slots == 1 .. Count

Init ==
  /\ book \in Books
  /\ price \in Prices
  /\ stage = "Sealed"
  /\ cursor = 0
  /\ slot = [i \in Slots |-> [f \in Field |-> 0]]
  /\ total = [t \in Total |-> 0]
  /\ output = 0

-----------------------------------------------------------------------------
(* Batches. *)

BatchEnd(n) == IF cursor + n > Count THEN Count ELSE cursor + n

\* The candidates of the batch that ends at end.
Batch(end) == cursor + 1 .. end

Advance(end, next) ==
  /\ cursor' = IF end = Count THEN 0 ELSE end
  /\ stage' = IF end = Count THEN next ELSE stage

\* The batch's candidates are stored again, the others stay.
Store(end, Value(_)) ==
  slot' = [i \in Slots |-> IF i \in Batch(end) THEN Value(i) ELSE slot[i]]

SumOver(S, Value(_)) == SumFunctionOnSet([i \in S |-> Value(i)], S)
CountOver(S, Value(_)) == SumOver(S, LAMBDA i : IF Value(i) > 0 THEN 1 ELSE 0)

-----------------------------------------------------------------------------
(* The stages. *)

\* Side and private limit gate the amount: a buyer's limit is a maximum price,
\* a seller's a minimum.
Classified(i) ==
  LET Locked(action) == IF book[i].action = action THEN book[i].locked ELSE 0
      buyQuote == IF price <= book[i].limit THEN Locked("Buy") ELSE 0
      sellBase == IF price >= book[i].limit THEN Locked("Sell") ELSE 0 IN
  [slot[i] EXCEPT !.buyQuote = buyQuote, !.sellBase = sellBase,
                  !.supplyQuote = Locked("Supply"),
                  !.buyDemandBase = MulDiv(buyQuote, Scale, price)]

RunClassification(n) ==
  /\ stage = "Sealed"
  /\ Store(BatchEnd(n), Classified)
  /\ Advance(BatchEnd(n), "Classified")
  /\ UNCHANGED <<book, price, total, output>>

\* Mutant: an effective count that overlooks supplies.
Contribution_NoSupply(i) == slot[i].buyQuote + slot[i].sellBase

\* What a candidate contributes on any side.
Contribution(i) == slot[i].buyQuote + slot[i].sellBase + slot[i].supplyQuote

RunAccumulation(n) ==
  LET B == Batch(BatchEnd(n)) IN
  /\ stage = "Classified"
  /\ total' = [total EXCEPT
       !.grossBuyDemandBase = @ + SumOver(B, LAMBDA i : slot[i].buyDemandBase),
       !.grossSellSupplyBase = @ + SumOver(B, LAMBDA i : slot[i].sellBase),
       !.grossSupplyQuote = @ + SumOver(B, LAMBDA i : slot[i].supplyQuote),
       !.effectiveCount = @ + CountOver(B, Contribution),
       !.supplyContributorCount = @ + CountOver(B, LAMBDA i : slot[i].supplyQuote)]
  /\ Advance(BatchEnd(n), "Accumulated")
  /\ UNCHANGED <<book, price, slot, output>>

RunCrossing ==
  LET buy == total.grossBuyDemandBase
      sell == total.grossSellSupplyBase
      crossed == IF buy <= sell THEN buy ELSE sell IN
  /\ stage = "Accumulated"
  /\ total' = [total EXCEPT !.crossedBase = crossed,
                            !.crossedQuote = MulDiv(crossed, price, Scale)]
  /\ cursor' = 0
  /\ stage' = "Crossed"
  /\ UNCHANGED <<book, price, slot, output>>

\* Mutant: a buyer's base rounded up.
Allocated_CeilBase(i) ==
  LET baseOut == MulDivCeil(total.crossedBase, slot[i].buyDemandBase,
                            total.grossBuyDemandBase) IN
  [slot[i] EXCEPT
     !.crossBaseOut = baseOut,
     !.crossQuoteUsed = MulDivCeil(baseOut, price, Scale),
     !.crossBaseUsed = MulDiv(total.crossedBase, slot[i].sellBase,
                              total.grossSellSupplyBase),
     !.crossQuoteOut = MulDiv(total.crossedQuote, slot[i].sellBase,
                              total.grossSellSupplyBase)]

\* A buyer's base out floors and the quote it uses ceils; a seller's both floor.
Allocated(i) ==
  LET baseOut == MulDiv(total.crossedBase, slot[i].buyDemandBase,
                        total.grossBuyDemandBase) IN
  [slot[i] EXCEPT
     !.crossBaseOut = baseOut,
     !.crossQuoteUsed = MulDivCeil(baseOut, price, Scale),
     !.crossBaseUsed = MulDiv(total.crossedBase, slot[i].sellBase,
                              total.grossSellSupplyBase),
     !.crossQuoteOut = MulDiv(total.crossedQuote, slot[i].sellBase,
                              total.grossSellSupplyBase)]

RunAllocation(n) ==
  /\ stage = "Crossed"
  /\ Store(BatchEnd(n), Allocated)
  /\ Advance(BatchEnd(n), "Allocated")
  /\ UNCHANGED <<book, price, total, output>>

\* _computeDirection.  It is computed once, of totals that no longer change.
Direction ==
  CASE total.grossBuyDemandBase > total.grossSellSupplyBase -> "BuyBase"
    [] total.grossSellSupplyBase > total.grossBuyDemandBase -> "SellBase"
    [] OTHER -> "None"

\* Mutant: what the cross has taken is sent to the venue again.
Leftover_Gross(i) ==
  IF Direction = "BuyBase" THEN slot[i].buyQuote ELSE slot[i].sellBase

\* What is left of a candidate in the asset the residual spends.  An epoch
\* without direction takes the sellers' leftovers.
Leftover(i) ==
  IF Direction = "BuyBase" THEN SafeSub(slot[i].buyQuote, slot[i].crossQuoteUsed)
                           ELSE SafeSub(slot[i].sellBase, slot[i].crossBaseUsed)

\* Mutant: totals that start again with every batch.
RunResidual_Restart(n) ==
  LET B == Batch(BatchEnd(n)) IN
  /\ stage = "Allocated"
  /\ Store(BatchEnd(n), LAMBDA i : [slot[i] EXCEPT !.residualContribution = Leftover(i)])
  /\ total' = [total EXCEPT !.aggregateInput = SumOver(B, Leftover),
                            !.contributorCount = CountOver(B, Leftover)]
  /\ Advance(BatchEnd(n), "ResidualComputed")
  /\ UNCHANGED <<book, price, output>>

RunResidual(n) ==
  LET B == Batch(BatchEnd(n)) IN
  /\ stage = "Allocated"
  /\ Store(BatchEnd(n), LAMBDA i : [slot[i] EXCEPT !.residualContribution = Leftover(i)])
  /\ total' = [total EXCEPT !.aggregateInput = @ + SumOver(B, Leftover),
                            !.contributorCount = @ + CountOver(B, Leftover)]
  /\ Advance(BatchEnd(n), "ResidualComputed")
  /\ UNCHANGED <<book, price, output>>

\* What the venue must return in all for candidate i's limit to hold for its
\* share of it.
Requirement(i) ==
  IF slot[i].residualContribution = 0 THEN 0
  ELSE IF Direction = "BuyBase" THEN MulDivCeil(total.aggregateInput, Scale, book[i].limit)
  ELSE MulDivCeil(total.aggregateInput, book[i].limit, Scale)

\* Mutant: the last requirement of a batch where the largest of all is meant.
Strictest_Last(B, from) == Requirement(CHOOSE i \in B : \A j \in B : j <= i)

\* The largest of the running minimum and the batch's requirements.
Strictest(B, from) ==
  LET Candidates == {from} \cup {Requirement(i) : i \in B} IN
  CHOOSE m \in Candidates : \A c \in Candidates : c <= m

FinaliseResidual(n) ==
  LET B == Batch(BatchEnd(n)) IN
  /\ stage = "ResidualComputed"
  /\ Store(BatchEnd(n), LAMBDA i : [slot[i] EXCEPT !.requiredVenueTotal = Requirement(i)])
  /\ total' = [total EXCEPT !.aggregateMinimum = Strictest(B, @)]
  /\ Advance(BatchEnd(n), "Published")
  /\ UNCHANGED <<book, price, output>>

\* _computeFloors, as the outcome the published handles decrypt to.  A route
\* without input is Zero whatever its floor says.
Floors ==
  [epochFloor |-> total.effectiveCount >= EpochFloorK,
   residual |-> IF total.aggregateInput = 0 \/ Direction = "None" THEN "Zero"
                ELSE IF total.contributorCount >= ResidualFloorK THEN "Met" ELSE "Short",
   supply |-> IF total.grossSupplyQuote = 0 THEN "Zero"
              ELSE IF total.supplyContributorCount >= ResidualFloorK THEN "Met" ELSE "Short"]

-----------------------------------------------------------------------------
(* The swap route's settlement. *)

\* verifyResidual and settleResidual: a residual above both floors is executed
\* by a venue that returned at least the minimum; a zero one needs no venue.
Settle ==
  /\ stage = "Published"
  /\ Floors.epochFloor
  /\ \/ /\ Floors.residual = "Zero"
        /\ stage' = "NoPublicResidual"
        /\ UNCHANGED output
     \/ /\ Floors.residual = "Met"
        /\ stage' = "Executed"
        /\ \E s \in Surplus : output' = total.aggregateMinimum + s
  /\ UNCHANGED <<book, price, cursor, slot, total>>

\* A candidate's share of the venue's output.
Share(i) ==
  MulDiv(output, slot[i].residualContribution,
         IF total.aggregateInput = 0 THEN 1 ELSE total.aggregateInput)

Reconcile(n) ==
  /\ stage \in {"Executed", "NoPublicResidual"}
  /\ Store(BatchEnd(n), LAMBDA i :
       [slot[i] EXCEPT !.externalAllocation = Share(i),
                       !.finalAllocation = slot[i].crossBaseOut + Share(i)])
  /\ Advance(BatchEnd(n), "Reconciled")
  /\ UNCHANGED <<book, price, total, output>>

-----------------------------------------------------------------------------

Next ==
  \/ \E n \in BatchSizes :
       \/ RunClassification(n)
       \/ RunAccumulation(n)
       \/ RunAllocation(n)
       \/ RunResidual(n)
       \/ FinaliseResidual(n)
       \/ Reconcile(n)
  \/ RunCrossing
  \/ Settle

Spec == Init /\ [][Next]_vars
==============================================================================
