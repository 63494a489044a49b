----------------------------- MODULE EmergencyExit ---------------------------
(***************************************************************************)
(* contracts/recovery/ShrudEmergencyExit.sol: the two doors by which a     *)
(* Safe takes its escrow out.  The contract's _exited flag is set in the   *)
(* transaction that makes the escrow Exited and nowhere else, so the       *)
(* escrow's state stands for both.                                         *)
(***************************************************************************)
EXTENDS ClearingVault

\* Door one: the network is halted.
ExitHalted(i) ==
  /\ RequireHalted
  /\ EmergencyRelease(i)
  /\ UNCHANGED <<pauseVars, bookVars>>

\* Door two: the epoch was declared recoverable.  The release it ends in asks
\* for the halt all the same.
ExitTimedOut(i) ==
  /\ epochStatus[EpochOf[i]] = "Recoverable"
  /\ EmergencyRelease(i)
  /\ UNCHANGED <<pauseVars, bookVars>>
==============================================================================
