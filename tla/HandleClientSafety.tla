--------------------------- MODULE HandleClientSafety ---------------------------
(* What a reader of a handle may conclude from how its call ended. *)
EXTENDS HandleClient

TypeOK ==
  /\ computation \in Computations /\ granted \subseteq Grants /\ indexed \subseteq granted
  /\ pc \in [Clients -> Ends \cup InCall] /\ kind \in [Clients -> Kinds]
  /\ attempt \in [Clients -> 0 .. Polls + 1] /\ elapsed \in [Clients -> Nat]
  /\ delay \in [Clients -> 1 .. MaxDelay] /\ spent \in [Clients -> Nat]
  /\ slow \in [Clients -> 0 .. MaxSlow] /\ before \subseteq granted
  /\ mishaps \in 0 .. MaxMishaps

\* "You may not read this" is never said to an account that the chain allowed
\* when it asked, however far the gateway's view is behind (the chain is asked
\* before the refusal is final, and grants are permanent).  It may be said to a
\* viewer, whom isAllowed does not count, until the gateway has the grant.
RefusalIsTrue ==
  \A c \in Clients : pc[c] = "refused" => <<c, "allow">> \notin before

\* Each loop gives up when its budget is spent and not before, and neither
\* outlasts it by a whole delay: the wait stops short of it, the decryption may
\* end one pause after it.  A decryption has both, one after the other.
BudgetIsSpent ==
  /\ TypeOK
  /\ \A c \in Clients :
    /\ elapsed[c] <= Timeout
    /\ pc[c] = "notReady" => elapsed[c] + MaxDelay > Timeout
    /\ spent[c] < Timeout + MaxDelay
    /\ pc[c] = "lagging" => spent[c] + slow[c] >= Timeout

\* An account with a grant, a viewer's or a full one, gets the value in the end,
\* or the computation failed (retried 404s, the parsed response, the retried
\* refusal; a viewer who is refused has to ask again).
GrantedIsServed ==
  \A c \in Clients :
    (Held(c, granted) # {}) ~> (pc[c] = "value" \/ computation = "failed")
=============================================================================
