--------------------------- MODULE ArithmeticSafety --------------------------
(***************************************************************************)
(* What the values of one epoch must satisfy.  On chain each of them is a  *)
(* ciphertext: a violation reverts nothing and shows nowhere.              *)
(***************************************************************************)
EXTENDS ClearingArithmetic

Reference == INSTANCE ClearingReference WITH PriceScale <- Scale

Finished == stage \in {"Published", "Executed", "NoPublicResidual", "Reconciled"}

SumOf(f) == SumOver(Slots, LAMBDA i : slot[i][f])

\* However the stages were cut into batches, a published epoch holds exactly
\* what the one-shot reference computes of the same orders, the shares of the
\* venue's output included (the comparison that verify:crossing makes with a
\* decrypted epoch), and passes the reference's own conservation check.
MatchesReference ==
  Finished =>
    LET ref == Reference!ClearEpoch(book, price) IN
    /\ Direction = ref.direction
    /\ \A t \in Total \ {"supplyContributorCount"} : total[t] = ref[t]
    /\ \A i \in Slots : \A f \in {"crossBaseOut", "crossQuoteUsed", "crossBaseUsed",
          "crossQuoteOut", "residualContribution", "requiredVenueTotal"} :
         slot[i][f] = ref[f][i]
    /\ stage = "Reconciled" => \A i \in Slots :
         slot[i].externalAllocation = Reference!AllocateExternalOutput(ref, output)[i]
    /\ Reference!CheckConservation(ref, [i \in Slots |-> slot[i].buyQuote],
                                   [i \in Slots |-> slot[i].sellBase])

\* No stage leaves its cursor at the end of the list.
TypeOK ==
  /\ book \in Books
  /\ price \in Prices
  /\ stage \in Stage
  /\ cursor \in 0 .. Count - 1
  /\ slot \in [Slots -> [Field -> Nat]]
  /\ total \in [Total -> Nat]
  /\ output \in Nat

\* At every point between two batches no share exceeds the whole it is taken of.
\* No candidate gives more to the cross than it contributed, so the subtraction
\* of _accumulateResidual never underflows; the cross hands out no more base than
\* it crosses and no more quote than that base is worth (checkConservation); and
\* the venue's output is never shared out beyond what it is.  What the vault owes
\* on the whole is DebtIsDust.
SharesAreWithinWhole ==
  /\ TypeOK
  /\ \A i \in Slots : /\ slot[i].crossQuoteUsed <= slot[i].buyQuote
                      /\ slot[i].crossBaseUsed <= slot[i].sellBase
  /\ SumOf("crossBaseOut") <= total.crossedBase
  /\ SumOf("crossQuoteOut") <= total.crossedQuote
  /\ SumOf("externalAllocation") <= output

\* An asset's escrow is owed twice: to the other side of the cross, and to the
\* venue when the residual spends it.
BaseOwed ==
  SumOf("crossBaseOut") + (IF Direction = "SellBase" THEN total.aggregateInput ELSE 0)
QuoteOwed ==
  SumOf("crossQuoteOut") + (IF Direction = "BuyBase" THEN total.aggregateInput ELSE 0)

SellerCount == CountOver(Slots, LAMBDA i : slot[i].sellBase)
BuyerCount == CountOver(Slots, LAMBDA i : slot[i].buyDemandBase)

\* A published epoch may owe more than its sides escrowed, because each share that
\* a side gives floors by itself (runAllocation, whose comment says that the vault
\* never owes more than it holds), but by dust only: by less than one unit of base
\* for each seller, and by less than the price of one for each buyer.  It does: 4 of
\* quote at a price of 3/2, met by sellers of 1 and 2 whose shares of the 2 crossed
\* floor to 0 and 1, owe 4 of base to the cross and the venue, and 3 are held.
DebtIsDust ==
  Finished =>
    /\ BaseOwed <= SumOf("sellBase") + SafeSub(SellerCount, 1)
    /\ Scale * QuoteOwed <= Scale * SumOf("buyQuote") + price * SafeSub(BuyerCount, 1)

\* The outcomes that the model of the network lets an epoch publish contain the
\* one its arithmetic arrives at.
OutcomeIsCovered == Finished => Floors \in Outcome(Count)

\* What a candidate's own limit asks for an amount spent at the venue.
AtOwnLimit(i, amount) ==
  IF book[i].action = "Buy" THEN MulDiv(amount, Scale, book[i].limit)
                            ELSE MulDiv(amount, book[i].limit, Scale)

\* A venue that pays the aggregate minimum satisfies the private limit of every
\* single contributor: its share is at least its contribution at its own limit.
LimitsHold ==
  stage = "Reconciled" =>
    \A i \in Slots : slot[i].externalAllocation >= AtOwnLimit(i, slot[i].residualContribution)

==============================================================================
