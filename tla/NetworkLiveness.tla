--------------------------- MODULE NetworkLiveness ---------------------------
(***************************************************************************)
(* What must eventually happen, under fairness.  Every function that takes *)
(* an epoch forward is open to any caller, so the assumption is that       *)
(* somebody eventually makes a call that stays possible.  It is weak       *)
(* fairness, per epoch and per function, and it covers neither the owners  *)
(* of the orders, nor the guardian, nor the venues: a swap or a supply may *)
(* fail for ever.                                                          *)
(***************************************************************************)
EXTENDS NetworkSafety

\* A keeper that means to make progress passes a batch of at least one.
Progress == BatchSizes \ {0}

KeeperFairness ==
  \A e \in Epochs :
    /\ WF_vars(\E n \in Progress : Compute(e, n))
    /\ WF_vars(Publish(e))
    /\ WF_vars(VerifyResidual(e))
    /\ WF_vars(\E n \in Progress : Reconcile(e, n))
    /\ WF_vars(DeclareTimedOut(e))
    /\ WF_vars(VerifySupply(e))
    /\ WF_vars(\E n \in Progress : ReconcileSupply(e, n))

\* The clock runs, and anyone may expire an order.
ClockFairness == WF_vars(Tick) /\ \A i \in Intents : WF_vars(Expire(i))

FairSpec == Spec /\ KeeperFairness /\ ClockFairness

\* The venues answer too: a swap whose price stays fresh and a supply are
\* eventually executed.
VenueFairness ==
  \A e \in Epochs : WF_vars(SettleResidual(e)) /\ WF_vars(SettleSupply(e))

FairVenueSpec == FairSpec /\ VenueFairness

-----------------------------------------------------------------------------
(* Properties that hold. *)

\* A sealed epoch is published, in whatever batches, also in a paused network:
\* only a halt, or the guardian's pause of Clear, leaves it short (Paused:
\* "sealed epochs still settle").
SealedIsPublished ==
  \A e \in Epochs :
    stage[e] = "Sealed" ~> committed[e] \/ ~RequireNotHalted("Clear")

\* A verified residual does not stay verified: either a venue executes it or
\* anyone declares it timed out, and no pause and no halt can prevent both
\* (declareTimedOut asks no gate).
VerifiedIsResolved ==
  \A e \in Epochs :
    swapStatus[e] = "Verified" ~> swapStatus[e] \in {"Executed", "Reconciled", "Recoverable"}

\* Every candidate of an epoch whose swap route ended well becomes Processed,
\* unless settlement is stopped for good first.
SettledIsProcessed ==
  \A e \in Epochs :
    swapStatus[e] \in {"Executed", "NoPublicResidual"} ~>
      (\A i \in Members(e) : status[i] = "Processed") \/ ~RequireNotHalted("Settle")

\* No order waits for ever outside a sealed set: it is sealed, cancelled, or
\* expires, halted or not (expireIntent is permissionless and asks no gate).
OrdersAreDecided ==
  \A i \in Intents :
    status[i] \in {"Submitted", "Authorised"} ~>
      consumedBy[i] # NoEpoch \/ status[i] \in {"Cancelled", "Expired"}

==============================================================================
