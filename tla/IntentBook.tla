----------------------------- MODULE IntentBook ------------------------------
(***************************************************************************)
(* contracts/intents/ShrudIntentBook.sol: the public record of orders and  *)
(* of clearing epochs.  Each operator below is one writer function of the  *)
(* book; the contracts that may call it conjoin it to their own action, so *)
(* that one Solidity transaction is one TLA+ step.                         *)
(*                                                                         *)
(* An intent id is the hash of its header (ShrudSafeModule.computeIntentId)*)
(* so the module that owns it and the epoch it names are functions of the  *)
(* id: ModuleOf and EpochOf.  Ids are numbers because sealEpoch compares   *)
(* them.                                                                   *)
(*                                                                         *)
(* Time is kept as the time that remains: timeLeft[i] is expiry minus the  *)
(* current timestamp, stopped at -1, where the order has expired.  The     *)
(* clock itself is therefore unbounded.                                    *)
(***************************************************************************)
EXTENDS Integers, Sequences

CONSTANTS
  Intents,        \* intent ids
  Epochs,         \* epoch ids
  Modules,        \* the Safe-bound modules the factory has authorised
  NoEpoch,        \* bytes32(0) as an epoch id
  ModuleOf,       \* header.module of each intent
  EpochOf,        \* header.epochId of each intent
  MaxCandidates,  \* ShrudOrderFamily.MAX_CANDIDATES
  Lifetime        \* MAX_INTENT_LIFETIME, in ticks

ASSUME BookAssumption ==
  /\ Intents \subseteq Nat \ {0}
  /\ NoEpoch \notin Epochs
  /\ ModuleOf \in [Intents -> Modules]
  /\ EpochOf \in [Intents -> Epochs]
  /\ MaxCandidates \in Nat \ {0}
  /\ Lifetime \in Nat \ {0}

VARIABLES
  status,       \* header.status of each intent
  timeLeft,     \* header.expiry minus block.timestamp, at least -1
  consumedBy,   \* _consumedBy
  epochStatus,  \* EpochRecord.status of each epoch
  candidates,   \* _candidates
  committed     \* is _published[epoch] written

bookVars == <<status, timeLeft, consumedBy, epochStatus, candidates, committed>>

IntentStatus == {"None", "Submitted", "Authorised", "Processed", "Expired", "Cancelled"}

\* The members of the EpochStatus enum that some code path assigns: Sealed,
\* Computing and TimedOut are declared and never written.
EpochStatus == {"None", "Open", "PriceFixed", "ResidualReady", "NoPublicResidual",
                "Settling", "Settled", "Recoverable"}

BookTypeOK ==
  /\ status \in [Intents -> IntentStatus]
  /\ timeLeft \in [Intents -> -1 .. Lifetime]
  /\ consumedBy \in [Intents -> Epochs \cup {NoEpoch}]
  /\ epochStatus \in [Epochs -> EpochStatus]
  /\ candidates \in [Epochs -> Seq(Intents)]
  /\ committed \in [Epochs -> BOOLEAN]

BookInit ==
  /\ status = [i \in Intents |-> "None"]
  /\ timeLeft = [i \in Intents |-> -1]
  /\ consumedBy = [i \in Intents |-> NoEpoch]
  /\ epochStatus = [e \in Epochs |-> "None"]
  /\ candidates = [e \in Epochs |-> << >>]
  /\ committed = [e \in Epochs |-> FALSE]

Count(e) == Len(candidates[e])
Members(e) == {candidates[e][k] : k \in 1 .. Count(e)}

\* One tick of the chain's clock brings every expiry one closer.
AgeIntents ==
  timeLeft' = [i \in Intents |-> IF timeLeft[i] < 0 THEN -1 ELSE timeLeft[i] - 1]

-----------------------------------------------------------------------------
(* Orders. *)

RecordSubmission(i, life) ==
  /\ status[i] = "None"
  /\ status' = [status EXCEPT ![i] = "Submitted"]
  /\ timeLeft' = [timeLeft EXCEPT ![i] = life]
  /\ UNCHANGED <<consumedBy, epochStatus, candidates, committed>>

RecordAuthorisation(i) ==
  /\ status[i] = "Submitted"
  /\ status' = [status EXCEPT ![i] = "Authorised"]
  /\ UNCHANGED <<timeLeft, consumedBy, epochStatus, candidates, committed>>

\* Mutant: a cancellation that does not look at the consumed marker.
RecordCancellation_Consumed(i) ==
  /\ status[i] \in {"Submitted", "Authorised"}
  /\ status' = [status EXCEPT ![i] = "Cancelled"]
  /\ UNCHANGED <<timeLeft, consumedBy, epochStatus, candidates, committed>>

RecordCancellation(i) ==
  /\ status[i] \in {"Submitted", "Authorised"}
  /\ consumedBy[i] = NoEpoch
  /\ status' = [status EXCEPT ![i] = "Cancelled"]
  /\ UNCHANGED <<timeLeft, consumedBy, epochStatus, candidates, committed>>

\* Mutant: an expiry that does not look at the consumed marker.
RecordExpiry_Consumed(i) ==
  /\ status[i] \in {"Submitted", "Authorised"}
  /\ timeLeft[i] < 0
  /\ status' = [status EXCEPT ![i] = "Expired"]
  /\ UNCHANGED <<timeLeft, consumedBy, epochStatus, candidates, committed>>

\* expireIntent, open to any caller and behind no pause gate.
RecordExpiry(i) ==
  /\ status[i] \in {"Submitted", "Authorised"}
  /\ timeLeft[i] < 0
  /\ consumedBy[i] = NoEpoch
  /\ status' = [status EXCEPT ![i] = "Expired"]
  /\ UNCHANGED <<timeLeft, consumedBy, epochStatus, candidates, committed>>

\* recordProcessed for every order of P.
RecordProcessed(P) ==
  /\ \A i \in P : status[i] # "None"
  /\ status' = [i \in Intents |-> IF i \in P THEN "Processed" ELSE status[i]]

-----------------------------------------------------------------------------
(* Epochs. *)

BookOpenEpoch(e) ==
  /\ epochStatus[e] = "None"
  /\ epochStatus' = [epochStatus EXCEPT ![e] = "Open"]
  /\ UNCHANGED <<status, timeLeft, consumedBy, candidates, committed>>

\* The loop's comparison of each id with the one before it.  It also excludes
\* a repeated id, so the marker the loop sets for one candidate is never the
\* one it reads for another.
StrictlySorted(s) == \A j, k \in 1 .. Len(s) : j < k => s[j] < s[k]

\* Mutant: a seal that forgets which epoch the header names.
Sealable_AnyEpoch(i, e) ==
  /\ status[i] = "Authorised"
  /\ consumedBy[i] = NoEpoch
  /\ timeLeft[i] >= 0

\* What sealEpoch demands of one candidate.
Sealable(i, e) ==
  /\ status[i] = "Authorised"
  /\ EpochOf[i] = e
  /\ consumedBy[i] = NoEpoch
  /\ timeLeft[i] >= 0

BookSealEpoch(e, s) ==
  /\ epochStatus[e] = "Open"
  /\ Len(s) \in 1 .. MaxCandidates
  /\ StrictlySorted(s)
  /\ \A k \in 1 .. Len(s) : Sealable(s[k], e)
  /\ consumedBy' = [i \in Intents |-> IF \E k \in 1 .. Len(s) : s[k] = i
                                      THEN e ELSE consumedBy[i]]
  /\ candidates' = [candidates EXCEPT ![e] = s]
  /\ epochStatus' = [epochStatus EXCEPT ![e] = "PriceFixed"]
  /\ UNCHANGED <<status, timeLeft, committed>>

\* commitPublishedHandles followed by setEpochStatus(ResidualReady).
BookCommit(e) ==
  /\ epochStatus[e] # "None"
  /\ ~committed[e]
  /\ committed' = [committed EXCEPT ![e] = TRUE]
  /\ epochStatus' = [epochStatus EXCEPT ![e] = "ResidualReady"]
  /\ UNCHANGED <<status, timeLeft, consumedBy, candidates>>

\* setEpochStatus: any known epoch, any next status.
SetEpochStatus(e, next) ==
  /\ epochStatus[e] # "None"
  /\ epochStatus' = [epochStatus EXCEPT ![e] = next]
==============================================================================
