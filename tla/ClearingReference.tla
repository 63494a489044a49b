-------------------------- MODULE ClearingReference --------------------------
(***************************************************************************)
(* packages/clearing-math/src/index.ts: the same clearing in one go, over  *)
(* unbounded integers, which verify:crossing compares with a decrypted     *)
(* epoch.  An order of a book is [action, locked, limit].                  *)
(***************************************************************************)
EXTENDS Integers, Sequences, Functions

CONSTANT PriceScale   \* PRICE_SCALE

MulDivFloorRef(a, b, d) == IF d = 0 THEN 0 ELSE (a * b) \div d

MulDivCeilRef(a, b, d) == IF d = 0 THEN 0 ELSE (a * b + d - 1) \div d

SafeSubRef(a, b) == IF a > b THEN a - b ELSE 0

MaxOfFunction(f) ==
  CHOOSE m \in {0} \cup {f[i] : i \in DOMAIN f} : \A i \in DOMAIN f : f[i] <= m

\* clearEpoch, for a book that is not empty and a price that is not zero.
ClearEpoch(book, price) ==
  LET All == DOMAIN book
      SumOf(f) == SumFunctionOnSet(f, All)
      CountOf(f) == SumFunctionOnSet([i \in All |-> IF f[i] > 0 THEN 1 ELSE 0], All)
      Locked(i, action) == IF book[i].action = action THEN book[i].locked ELSE 0
      buyQuote == [i \in All |-> IF price <= book[i].limit THEN Locked(i, "Buy") ELSE 0]
      sellBase == [i \in All |-> IF price >= book[i].limit THEN Locked(i, "Sell") ELSE 0]
      supplyQuote == [i \in All |-> Locked(i, "Supply")]
      demand == [i \in All |-> MulDivFloorRef(buyQuote[i], PriceScale, price)]
      B == SumOf(demand)
      Q == SumOf(sellBase)
      crossedBase == IF B <= Q THEN B ELSE Q
      crossedQuote == MulDivFloorRef(crossedBase, price, PriceScale)
      baseOut == [i \in All |-> MulDivFloorRef(crossedBase, demand[i], B)]
      baseUsed == [i \in All |-> MulDivFloorRef(crossedBase, sellBase[i], Q)]
      quoteOut == [i \in All |-> MulDivFloorRef(crossedQuote, sellBase[i], Q)]
      quoteUsed == [i \in All |-> MulDivCeilRef(baseOut[i], price, PriceScale)]
      residual == [i \in All |->
                     IF B > Q THEN SafeSubRef(buyQuote[i], quoteUsed[i])
                     ELSE IF Q > B THEN SafeSubRef(sellBase[i], baseUsed[i]) ELSE 0]
      aggregate == SumOf(residual)
      required == [i \in All |->
                     IF residual[i] = 0 THEN 0
                     ELSE IF B > Q THEN MulDivCeilRef(aggregate, PriceScale, book[i].limit)
                     ELSE MulDivCeilRef(aggregate, book[i].limit, PriceScale)]
      effective == [i \in All |-> buyQuote[i] + sellBase[i] + supplyQuote[i]] IN
  [grossBuyDemandBase |-> B, grossSellSupplyBase |-> Q,
   grossSupplyQuote |-> SumOf(supplyQuote), effectiveCount |-> CountOf(effective),
   crossedBase |-> crossedBase, crossedQuote |-> crossedQuote,
   direction |-> IF B > Q THEN "BuyBase" ELSE IF Q > B THEN "SellBase" ELSE "None",
   aggregateInput |-> aggregate, aggregateMinimum |-> MaxOfFunction(required),
   contributorCount |-> CountOf(residual),
   crossBaseOut |-> baseOut, crossQuoteUsed |-> quoteUsed,
   crossBaseUsed |-> baseUsed, crossQuoteOut |-> quoteOut,
   residualContribution |-> residual, requiredVenueTotal |-> required]

\* allocateExternalOutput: each contributor's share of what the venue delivered.
AllocateExternalOutput(result, actualOutput) ==
  [i \in DOMAIN result.residualContribution |->
     MulDivFloorRef(actualOutput, result.residualContribution[i], result.aggregateInput)]

\* checkConservation, of an epoch of these contributions.
CheckConservation(result, buyQuote, sellBase) ==
  LET All == DOMAIN buyQuote IN
  /\ result.crossedBase <= result.grossBuyDemandBase
  /\ result.crossedBase <= result.grossSellSupplyBase
  /\ SumFunctionOnSet(result.crossBaseOut, All) <= result.crossedBase
  /\ SumFunctionOnSet(result.crossQuoteOut, All) <= result.crossedQuote
  /\ \A i \in All : /\ result.crossQuoteUsed[i] <= buyQuote[i]
                    /\ result.crossBaseUsed[i] <= sellBase[i]
  /\ result.direction = "None" => result.aggregateInput = 0
  /\ (result.direction = "BuyBase" /\ result.aggregateInput > 0) =>
       result.grossBuyDemandBase > result.crossedBase
==============================================================================
