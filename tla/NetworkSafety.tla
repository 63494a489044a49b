---------------------------- MODULE NetworkSafety ----------------------------
(***************************************************************************)
(* What the contracts together must never do.  Each property relates the   *)
(* state of at least two contracts, which keep no copy of each other's     *)
(* state and agree only through the order of the calls between them.       *)
(***************************************************************************)
EXTENDS ShrudNetwork, FiniteSets

-----------------------------------------------------------------------------
(* Invariants. *)

\* Exactly the candidates of a sealed epoch carry its consumed marker, an epoch
\* has candidates from its seal on and never before, and an order is consumed
\* by no epoch but the one its header names: one epoch consumes an order, once
\* (sealEpoch's loop; PRD 21.1.5).
ConsumedIsSealed ==
  \A e \in Epochs :
    /\ StrictlySorted(candidates[e])
    /\ candidates[e] = << >> <=> stage[e] = "None"
    /\ \A i \in Intents : consumedBy[i] = e <=> i \in Members(e)
    /\ \A i \in Members(e) : EpochOf[i] = e

\* An order inside a sealed set can be neither cancelled, nor expired, nor
\* refunded: until the network halts its escrow stays in the vault and its
\* status is one of the two a candidate may have (recordCancellation and
\* expireIntent against sealEpoch).
SealedKeepsEscrow ==
  \A e \in Epochs : \A i \in Members(e) :
    /\ status[i] \in {"Authorised", "Processed"}
    /\ escrow[i] = "Held" \/ (escrow[i] = "Exited" /\ netState = "Halted")

\* The vault's custody of an order follows the book's status of it, although
\* the module writes the one and then the other: nothing is held before the
\* authorisation, a cancelled order keeps nothing, a refund is a cancellation's
\* and an exit a halt's (activateIntent, cancelIntent, exitHalted).
EscrowFollowsStatus ==
  \A i \in Intents :
    /\ status[i] \in {"None", "Submitted"} => escrow[i] = "Empty"
    /\ status[i] \in {"Authorised", "Processed"} => escrow[i] \in {"Held", "Exited"}
    /\ status[i] = "Cancelled" => escrow[i] \in {"Empty", "Refunded"}
    /\ status[i] = "Expired" => escrow[i] # "Refunded"
    /\ escrow[i] = "Exited" => netState = "Halted"

\* Whatever batches a keeper passes, the processed orders are the candidates
\* the swap route's cursor has passed, in the sealed order, and a route is
\* reconciled exactly when its cursor has passed them all (reconcile,
\* reconcileSupply).
ProcessedIsPrefix ==
  /\ \A i \in Intents :
       status[i] = "Processed" <=>
         \E e \in Epochs : \E k \in 1 .. swapCursor[e] :
            k <= Count(e) /\ candidates[e][k] = i
  /\ \A e \in Epochs :
       /\ swapCursor[e] <= Count(e) /\ supplyCursor[e] <= Count(e)
       /\ swapStatus[e] = "Reconciled" <=>
            (swapCursor[e] = Count(e) /\ stage[e] # "None")
       /\ supplyStatus[e] = "Reconciled" <=>
            (supplyCursor[e] = Count(e) /\ stage[e] # "None")

\* The status the book should show, from what the two engines know.
StatusFromEngines(e) ==
  CASE stage[e] = "None" -> {"None", "Open"}
    [] stage[e] # "None" /\ ~committed[e] -> {"PriceFixed"}
    [] committed[e] /\ swapStatus[e] \in {"None", "Verified"} -> {"ResidualReady"}
    [] committed[e] /\ swapStatus[e] = "NoPublicResidual" -> {"NoPublicResidual"}
    [] committed[e] /\ swapStatus[e] \in {"Executed", "Reconciled"} -> {"Settled"}
    [] committed[e] /\ swapStatus[e] = "Recoverable" -> {"Recoverable"}

\* setEpochStatus checks no transition, and three contracts write the book's
\* epoch status.  It nevertheless always shows where the engines are; handles
\* are committed only of a finished computation, a route moves only after the
\* commit, and _consumed is set exactly when the swap route has ended.
EpochViewsAgree ==
  \A e \in Epochs :
    /\ epochStatus[e] \in StatusFromEngines(e)
    /\ committed[e] => stage[e] = "Published"
    /\ ~committed[e] => swapStatus[e] = "None" /\ supplyStatus[e] = "None"
    /\ settled[e] <=> swapStatus[e] \notin {"None", "Verified"}

\* A public venue is reached only for an epoch with at least the floor's
\* number of sealed orders, and the two routes' contributors are different
\* orders: with both routes verified there are at least two floors' worth.
DisclosureNeedsCompany ==
  \A e \in Epochs :
    LET swap == swapStatus[e] \in {"Verified", "Executed", "Recoverable"}
        supply == supplyStatus[e] \in {"Verified", "Executed", "Reconciled"} IN
    /\ swap \/ supply => Cardinality(Members(e)) >= EpochFloorK
    /\ swap \/ supply => Cardinality(Members(e)) >= ResidualFloorK
    /\ swap /\ supply => Cardinality(Members(e)) >= 2 * ResidualFloorK

-----------------------------------------------------------------------------
(* Action properties. *)

\* A call to a public venue, by either route, happens while the escrow of
\* every candidate is still in the vault: what an exit pays out is never also
\* what a settlement spends (settleResidual, settleAggregateSupply, and the
\* exits behind the halt that stops both).
VenueSpendsHeldEscrow ==
  [][\A e \in Epochs :
       (swapStatus'[e] = "Executed" /\ swapStatus[e] # "Executed")
         \/ (supplyStatus'[e] = "Executed" /\ supplyStatus[e] # "Executed")
       => \A i \in Members(e) : escrow[i] = "Held"]_vars

\* After a halt nothing clears, settles or is accepted any more, for ever.
\* What still moves: the clock, the expiry of unsealed orders, the time-out of
\* a verified residual, and escrow leaving by the exit.
HaltFreezes ==
  [][netState = "Halted" =>
       /\ netState' = "Halted"
       /\ UNCHANGED <<consumedBy, candidates, committed, stage, cursor, outcome,
                      granted, swapCursor, supplyVars>>
       /\ \A i \in Intents :
            /\ status'[i] # status[i] => status'[i] = "Expired" /\ consumedBy[i] = NoEpoch
            /\ escrow'[i] # escrow[i] => escrow'[i] = "Exited"
       /\ \A e \in Epochs :
            swapStatus'[e] # swapStatus[e] =>
              swapStatus[e] = "Verified" /\ swapStatus'[e] = "Recoverable"]_vars

\* A paused network takes in no order, no escrow and no candidate set, while
\* everything after a seal still runs (requireLive against requireNotHalted).
PauseTakesNoNewValue ==
  [][netState # "Live" =>
       /\ \A i \in Intents :
            /\ status'[i] # status[i] => status'[i] \notin {"Submitted", "Authorised"}
            /\ escrow'[i] = "Held" => escrow[i] = "Held"
       /\ UNCHANGED <<candidates, consumedBy>>]_vars

\* The end of a swap route is final: one epoch settles once, and an epoch that
\* was declared recoverable is never executed by a keeper that comes back
\* (_consumed, declareTimedOut).
SwapEndsOnce ==
  [][\A e \in Epochs :
       /\ settled[e] => settled'[e]
       /\ swapStatus[e] \in {"Recoverable", "Reconciled"} => swapStatus'[e] = swapStatus[e]
       /\ settled[e] => swapStatus'[e] # "Executed" \/ swapStatus[e] = "Executed"
       /\ swapStatus[e] = "Executed" => swapStatus'[e] \in {"Executed", "Reconciled"}]_vars
==============================================================================
