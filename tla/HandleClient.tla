------------------------------ MODULE HandleClient ------------------------------
(***************************************************************************)
(* Reading a Nox handle (packages/nox-client).  Nothing calls back: the    *)
(* client polls the gateway's status endpoint with a bounded backoff, then *)
(* asks the SDK for the value, and takes a refusal for lag as long as the  *)
(* chain says that the account may read.  The runner, the gateway's two    *)
(* indexes (of handles and of grants) and the chain move in between.       *)
(*                                                                         *)
(* Time is what a call itself slept; what its requests took is `slow`,     *)
(* which the wait does not count and the decryption's deadline does.       *)
(***************************************************************************)
EXTENDS Naturals, FiniteSets, FiniteSetsExt

CONSTANTS
  Clients,
  Anyone,       \* the account a public decryption asks for
  InitialDelay, MaxDelay, Multiplier, Timeout, \* PollPolicy
  MaxSlow,      \* bound: the time a call's requests take, together
  MaxMishaps    \* bound: answers of the gateway that say nothing of the handle

ASSUME PolicyAssumption ==
  /\ {InitialDelay, MaxDelay, Multiplier} \subseteq Nat \ {0}
  /\ InitialDelay <= MaxDelay
  /\ {Timeout, MaxSlow, MaxMishaps} \subseteq Nat
  /\ Anyone \notin Clients

VARIABLES
  computation, \* the runner's and the ingestor's: what there is of the handle
  granted,     \* chain: who may read the handle, by which right
  indexed,     \* the gateway's view of granted
  pc,          \* where each client's call is, or how its last one ended
  kind,        \* what it asked for
  attempt,     \* the polls of its wait, this one included
  elapsed,     \* what the wait slept
  delay,       \* the next pause of the decryption loop
  spent,       \* what the decryption loop slept
  slow,        \* what the requests of the decryption loop took
  before,      \* history: the rights each client had when its call began
  mishaps      \* history

world == <<computation, granted, indexed>>
call == <<kind, attempt, elapsed, delay, spent, slow, before>>
vars == <<world, pc, call, mishaps>>

\* allow names an account that computes with the handle and may read it, addViewer
\* one that may only read it; allowPublicDecryption names nobody.
Rights == {"allow", "view"}
Grants == (Clients \X Rights) \cup {<<Anyone, "view">>}
Held(c, grants) == {g \in grants : g[1] = c}
Kinds == {"waitReady", "decrypt", "publicDecrypt"}
Computations == {"unseen", "pending", "ready", "failed"}
Ends == {"idle", "ready", "failed", "value", "refused", "notReady", "lagging", "error"}
InCall == {"poll", "ask", "check"}

-----------------------------------------------------------------------------
(* backoffSchedule: delays that grow up to a cap while their sum fits. *)

Delay[n \in Nat] ==
  IF n <= 1 THEN InitialDelay ELSE Min({Delay[n - 1] * Multiplier, MaxDelay})

Elapsed[n \in Nat] == IF n = 0 THEN 0 ELSE Elapsed[n - 1] + Delay[n]

\* Mutant: a last delay that ends after the budget.
Polls_Beyond == 1 + Cardinality({n \in 1 .. Timeout : Elapsed[n] <= Timeout})

Polls == Cardinality({n \in 1 .. Timeout : Elapsed[n] <= Timeout})

-----------------------------------------------------------------------------
(* What the status endpoint's answer means. *)

\* Mutant: a response shape that the parser does not know.
Parsed_Unknown == IF computation = "ready" THEN "unknown" ELSE computation

\* parseHandleState, of the entry of this handle; a handle that the ingestor has
\* not seen is in no entry, or a 404.
Parsed == IF computation = "unseen" THEN "unknown" ELSE computation

\* classifyFailure: a rate limit, a server error and a 404 say nothing yet.
Retryable == {"429", "5xx", "404"}

-----------------------------------------------------------------------------
(* The client. *)

End(c, how) == pc' = [pc EXCEPT ![c] = how]

Call(c, k) ==
  /\ pc[c] \in Ends
  /\ kind' = [kind EXCEPT ![c] = k] /\ attempt' = [attempt EXCEPT ![c] = 1]
  /\ elapsed' = [elapsed EXCEPT ![c] = 0] /\ delay' = [delay EXCEPT ![c] = InitialDelay]
  /\ spent' = [spent EXCEPT ![c] = 0] /\ slow' = [slow EXCEPT ![c] = 0]
  /\ before' = (before \ Held(c, before)) \cup Held(c, granted)
  /\ End(c, IF Polls = 0 THEN "notReady" ELSE "poll")
  /\ UNCHANGED <<world, mishaps>>

\* waitForHandle returns, of a failed computation too; a decryption does not look
\* at what it returns.
Resolved(c, state) ==
  /\ End(c, IF kind[c] = "waitReady" THEN state ELSE "ask")
  /\ UNCHANGED <<attempt, elapsed>>

\* The pause, and the next poll: after the last pause there is none.
Pause(c) ==
  /\ elapsed' = [elapsed EXCEPT ![c] = @ + Delay[attempt[c]]]
  /\ IF attempt[c] = Polls
     THEN End(c, "notReady") /\ UNCHANGED attempt
     ELSE attempt' = [attempt EXCEPT ![c] = @ + 1] /\ UNCHANGED pc

Poll(c) ==
  /\ pc[c] = "poll"
  /\ IF Parsed \in {"ready", "failed"} THEN Resolved(c, Parsed) ELSE Pause(c)
  /\ UNCHANGED <<world, kind, delay, spent, slow, before, mishaps>>

\* The gateway fails: retried when that may pass; any other answer, and a request
\* that got none, ends the call.
PollFails(c, status) ==
  /\ pc[c] = "poll" /\ mishaps < MaxMishaps /\ mishaps' = mishaps + 1
  /\ IF status \in Retryable THEN Pause(c) ELSE End(c, "error") /\ UNCHANGED <<attempt, elapsed>>
  /\ UNCHANGED <<world, kind, delay, spent, slow, before>>

\* isAuthorisationRefusal: what the SDK says when the gateway knows of no grant.
Refused(account) == Held(account, indexed) = {}

\* NoxCompute.isAllowed, read through the caller's own node: it does not answer for
\* a viewer, isViewer would.
AllowedOnChain(c) == <<c, "allow">> \in granted

\* sdk.decrypt and sdk.publicDecrypt, which the gateway authorises by its own view
\* of the grants.  Only decrypt takes a refusal to the chain.
Ask(c) ==
  /\ pc[c] = "ask"
  /\ LET account == IF kind[c] = "publicDecrypt" THEN Anyone ELSE c
     IN End(c, CASE Refused(account) /\ kind[c] = "decrypt"      -> "check"
                 [] ~Refused(account) /\ computation = "ready" -> "value"
                 [] OTHER                                       -> "error")
  /\ UNCHANGED <<world, call, mishaps>>

\* Mutant: the gateway's word is final.
CheckChain_Trusting(c) ==
  /\ pc[c] = "check" /\ End(c, "refused") /\ UNCHANGED <<world, call, mishaps>>

\* isAllowedOnChain, the deadline, and another pause.
CheckChain(c) ==
  /\ pc[c] = "check"
  /\ \/ /\ ~AllowedOnChain(c) /\ End(c, "refused")
        /\ UNCHANGED <<delay, spent>>
     \/ /\ AllowedOnChain(c) /\ spent[c] + slow[c] >= Timeout /\ End(c, "lagging")
        /\ UNCHANGED <<delay, spent>>
     \/ /\ AllowedOnChain(c) /\ spent[c] + slow[c] < Timeout /\ End(c, "ask")
        /\ spent' = [spent EXCEPT ![c] = @ + delay[c]]
        /\ delay' = [delay EXCEPT ![c] = Min({@ * Multiplier, MaxDelay})]
  /\ UNCHANGED <<world, kind, attempt, elapsed, slow, before, mishaps>>

\* A request of the loop takes its time.
Slow(c) ==
  /\ pc[c] \in {"ask", "check"} /\ slow[c] < MaxSlow
  /\ slow' = [slow EXCEPT ![c] = @ + 1]
  /\ UNCHANGED <<world, pc, kind, attempt, elapsed, delay, spent, before, mishaps>>

\* Anything else that fails on the way to the value is thrown as it is.
AskFails(c) ==
  /\ pc[c] \in {"ask", "check"} /\ mishaps < MaxMishaps /\ mishaps' = mishaps + 1
  /\ End(c, "error")
  /\ UNCHANGED <<world, call>>

ClientStep(c) == Poll(c) \/ Ask(c) \/ CheckChain(c)

-----------------------------------------------------------------------------
(* The runner, the gateway and the chain. *)

\* The ingestor sees the handle, the runner computes it.
Compute ==
  /\ \/ computation = "unseen" /\ computation' = "pending"
     \/ computation = "pending" /\ computation' = "ready"
  /\ UNCHANGED <<granted, indexed, pc, call, mishaps>>

FailToCompute ==
  /\ computation = "pending" /\ computation' = "failed"
  /\ UNCHANGED <<granted, indexed, pc, call, mishaps>>

\* Grants are permanent.
Grant(g) ==
  /\ g \notin granted /\ granted' = granted \cup {g}
  /\ UNCHANGED <<computation, indexed, pc, call, mishaps>>

IndexGrant(g) ==
  /\ g \in granted \ indexed /\ indexed' = indexed \cup {g}
  /\ UNCHANGED <<computation, granted, pc, call, mishaps>>

Init ==
  /\ computation = "unseen" /\ granted = {} /\ indexed = {}
  /\ pc = [c \in Clients |-> "idle"] /\ kind = [c \in Clients |-> "decrypt"]
  /\ attempt = [c \in Clients |-> 0] /\ elapsed = [c \in Clients |-> 0]
  /\ delay = [c \in Clients |-> InitialDelay] /\ spent = [c \in Clients |-> 0]
  /\ slow = [c \in Clients |-> 0] /\ before = {}
  /\ mishaps = 0

Next ==
  \/ \E c \in Clients :
       \/ \E k \in Kinds : Call(c, k)
       \/ \E status \in Retryable \cup {"4xx", "noAnswer"} : PollFails(c, status)
       \/ ClientStep(c) \/ Slow(c) \/ AskFails(c)
  \/ Compute \/ FailToCompute
  \/ \E g \in Grants : Grant(g) \/ IndexGrant(g)

Spec == Init /\ [][Next]_vars

\* A call goes on by itself, a client that wants the value asks again, and the
\* gateway and the runner get there in the end.
FairSpec ==
  /\ Spec
  /\ \A c \in Clients : WF_vars(ClientStep(c)) /\ SF_vars(Call(c, "decrypt"))
  /\ WF_vars(Compute)
  /\ \A g \in Grants : WF_vars(IndexGrant(g))
=============================================================================
