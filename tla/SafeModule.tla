------------------------------ MODULE SafeModule -----------------------------
(***************************************************************************)
(* contracts/accounts/ShrudSafeModule.sol: what a treasury does with an    *)
(* order through a Safe-bound module.  The Safe's signatures, the module's *)
(* installation and the asset's registration are the environment's: a step *)
(* is a call for which they hold.  They could only remove steps.           *)
(***************************************************************************)
EXTENDS ClearingVault

\* The header hash, the nonce and _submitted make a second submission of the
\* same order impossible, as the book's own test for status None does.
SubmitIntent(i, life) ==
  /\ RequireLive("Submit")
  /\ life \in 1 .. Lifetime
  /\ RecordSubmission(i, life)
  /\ UNCHANGED <<pauseVars, escrow>>

\* Authorises and locks in one transaction.  It asks neither whether the order
\* has expired nor whether its epoch is still open.
ActivateIntent(m, i) ==
  /\ RequireLive("Activate")
  /\ RecordAuthorisation(i)
  /\ LockEscrow(m, i)
  /\ UNCHANGED pauseVars

\* Mutant: a cancellation that forgets the refund.
CancelIntent_NoRefund(m, i) ==
  /\ RequireNotHalted("Activate")
  /\ RecordCancellation(i)
  /\ UNCHANGED <<pauseVars, escrow>>

\* The module that cancels need not be the one that submitted: only the refund
\* of an authorised order asks for it.
CancelIntent(m, i) ==
  /\ RequireNotHalted("Activate")
  /\ RecordCancellation(i)
  /\ IF status[i] = "Authorised" THEN RefundCancelled(m, i) ELSE UNCHANGED escrow
  /\ UNCHANGED pauseVars
==============================================================================
