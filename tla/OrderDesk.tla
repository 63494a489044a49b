------------------------------- MODULE OrderDesk -------------------------------
(***************************************************************************)
(* The submission sequence of the web application (use-submit-order.ts,    *)
(* orders.ts, the trade page): several open pages of one Safe, each        *)
(* running read - sign - send - wait against a chain the others change in  *)
(* between.                                                                *)
(*                                                                         *)
(* The page simulates nothing.  The wallet is assumed to estimate a call   *)
(* before it sends it and to refuse one that reverts as the chain stands;  *)
(* what is mined later may revert all the same, and the receipt that says  *)
(* so is awaited but not read.  A page that gives up waiting shows an      *)
(* error and leaves its transaction in the account's queue.                *)
(***************************************************************************)
EXTENDS Naturals, Sequences, FiniteSets

CONSTANTS
  Pages, Wallets,
  WalletOf,   \* the wallet each page is connected with
  MaxRuns,    \* bound: how often the pages press the button, together
  MaxTime,    \* bound: the clock
  Window      \* EPOCH_WINDOW_SECONDS, and the expirySeconds the page asks for

ASSUME DeskAssumption ==
  /\ IsFiniteSet(Pages) /\ WalletOf \in [Pages -> Wallets]
  /\ MaxRuns \in Nat /\ MaxTime \in Nat /\ Window \in Nat \ {0}

VARIABLES
  now,
  epochs,    \* chain: the book's status of each epoch
  nextNonce, \* chain: the module's nextNonce per owner
  status,    \* chain: the book's status of each order
  header,    \* chain: the public header of each order submitted
  gate,      \* chain: what the Safe and the network let through
  queue,     \* the transactions each account has sent and nobody mined yet
  pc,        \* page: where its run is
  run,       \* page: how many runs it started; <<page, run>> names the order
  draft,     \* page: the header under construction
  raced,     \* history: the chain changed under the page's pending transaction
  unsettled  \* history: the orders of earlier runs that ended with an error or raced

chainVars == <<epochs, nextNonce, status, header, gate>>
vars == <<now, epochs, nextNonce, status, header, gate, queue,
          pc, run, draft, raced, unsettled>>

Orders == Pages \X (1 .. MaxRuns)
Started == {o \in Orders : o[2] <= run[o[1]]}
Times == 0 .. MaxTime
EpochStatus == {"None", "Open", "Sealed"}
OrderStatus == {"None", "Submitted", "Authorised", "Sealed", "Cancelled"}

Waiting == {"opening", "submitting", "activating"}
Idle == {"ready", "done", "error"}
Busy == {"epoch", "open", "nonce", "build", "encrypt", "submit", "sign", "activate"} \cup Waiting

Order(p) == <<p, run[p]>>

\* currentEpochId: the hour, as every participant's page computes it.
CurrentEpoch == now \div Window

Epochs == 0 .. MaxTime \div Window
Header == [epoch : Epochs, nonce : Nat, expiry : Nat]

\* intentDigest: the identifier and every public field; and what the page signs.
Digest(o, h) == [order |-> o, epoch |-> h.epoch, nonce |-> h.nonce, expiry |-> h.expiry]
Signature(p) == Digest(Order(p), draft[p])

-----------------------------------------------------------------------------
(* What the contracts ask of the three calls. *)

\* "open", or "threshold" when one signature does not satisfy the Safe any more,
\* or "closed" when the module is not installed or the network is paused.
Gates == {"open", "threshold", "closed"}

CanOpen(e) == gate # "closed" /\ epochs[e] = "None"

\* Mutant: a module that takes any nonce.
CanSubmit_AnyNonce(o, h) == gate # "closed" /\ status[o] = "None" /\ now < h.expiry

\* submitIntent: onlySafeOwner, _consumeNonce, the expiry, a fresh id.
CanSubmit(o, h) ==
  /\ gate # "closed" /\ status[o] = "None" /\ now < h.expiry
  /\ h.nonce = nextNonce[WalletOf[o[1]]]

\* activateIntent: the digest of the order as the book has it, signed by the Safe's
\* current threshold; nothing about the epoch.  The Safe stays shielded with its
\* operator's term running, which the setup page sees to and this page never asks.
CanActivate(o, signed) ==
  gate = "open" /\ status[o] = "Submitted" /\ signed = Digest(o, header[o])

-----------------------------------------------------------------------------
(* The page. *)

Go(p, next) == pc' = [pc EXCEPT ![p] = next]

\* Mutant: a button that stays enabled while a run is under way.
Ready_Always(p) == Cardinality(Started) < MaxRuns

\* The form: ready unless busy.
Ready(p) == Cardinality(Started) < MaxRuns /\ pc[p] \in Idle

Run(p) ==
  /\ Ready(p)
  /\ run' = [run EXCEPT ![p] = @ + 1]
  /\ draft' = [draft EXCEPT ![p] = [epoch |-> CurrentEpoch, nonce |-> 0, expiry |-> 0]]
  /\ raced' = [raced EXCEPT ![p] = FALSE]
  /\ unsettled' = IF raced[p] THEN unsettled \cup {Order(p)} ELSE unsettled
  /\ Go(p, "epoch")
  /\ UNCHANGED <<now, chainVars, queue>>

ReadEpoch(p) ==
  /\ pc[p] = "epoch"
  /\ Go(p, IF epochs[draft[p].epoch] = "None" THEN "open" ELSE "nonce")
  /\ UNCHANGED <<now, chainVars, queue, run, draft, raced, unsettled>>

ReadNonce(p) ==
  /\ pc[p] = "nonce"
  /\ draft' = [draft EXCEPT ![p].nonce = nextNonce[WalletOf[p]]]
  /\ Go(p, "build")
  /\ UNCHANGED <<now, chainVars, queue, run, raced, unsettled>>

\* buildOrder: the draft, with an expiry of the page's own clock.
Build(p) ==
  /\ pc[p] = "build"
  /\ draft' = [draft EXCEPT ![p].expiry = now + Window]
  /\ Go(p, "encrypt")
  /\ UNCHANGED <<now, chainVars, queue, run, raced, unsettled>>

\* encryptOrder: three slow round trips to the gateway, one after the other,
\* whose proofs outlive the draft's expiry.
Encrypt(p) ==
  /\ pc[p] = "encrypt" /\ Go(p, "submit")
  /\ UNCHANGED <<now, chainVars, queue, run, draft, raced, unsettled>>

Sign(p) ==
  /\ pc[p] = "sign" /\ Go(p, "activate")
  /\ UNCHANGED <<now, chainVars, queue, run, draft, raced, unsettled>>

\* The catch clause.
Fail(p) ==
  /\ Go(p, "error")
  /\ unsettled' = unsettled \cup {Order(p)}
  /\ raced' = [raced EXCEPT ![p] = FALSE]
  /\ UNCHANGED <<now, chainVars, queue, run, draft>>

\* The wallet refuses, the gateway or the node fails, a receipt takes too long.
GiveUp(p) == pc[p] \in Busy /\ Fail(p)

\* The call would revert as the chain stands: the wallet refuses, writeContract throws.
EstimateFails(p) ==
  /\ \/ pc[p] = "open" /\ ~CanOpen(draft[p].epoch)
     \/ pc[p] = "submit" /\ ~CanSubmit(Order(p), draft[p])
     \/ pc[p] = "activate" /\ ~CanActivate(Order(p), Signature(p))
  /\ Fail(p)

\* writeContract: the wallet's estimate holds now, the transaction joins the account's queue.
Send(p, kind, waiting) ==
  /\ queue' = [queue EXCEPT ![WalletOf[p]] =
       Append(@, [kind |-> kind, page |-> p, order |-> Order(p), header |-> draft[p]])]
  /\ raced' = [raced EXCEPT ![p] = FALSE]
  /\ Go(p, waiting)
  /\ UNCHANGED <<now, chainVars, run, draft, unsettled>>

SendOpen(p) == pc[p] = "open" /\ CanOpen(draft[p].epoch) /\ Send(p, "open", "opening")
SendSubmit(p) == pc[p] = "submit" /\ CanSubmit(Order(p), draft[p]) /\ Send(p, "submit", "submitting")

\* Mutant: an activation sent without an estimate.
SendActivate_Blind(p) == pc[p] = "activate" /\ Send(p, "activate", "activating")

SendActivate(p) ==
  /\ pc[p] = "activate" /\ CanActivate(Order(p), Signature(p))
  /\ Send(p, "activate", "activating")

PageStep(p) ==
  \/ ReadEpoch(p) \/ SendOpen(p) \/ ReadNonce(p) \/ Build(p) \/ Encrypt(p)
  \/ SendSubmit(p) \/ Sign(p) \/ SendActivate(p) \/ EstimateFails(p)

-----------------------------------------------------------------------------
(* The chain. *)

\* Somebody else changed the chain while these pages wait for the receipt of
\* their activation.
Disturb(others) ==
  raced' = [p \in Pages |-> raced[p] \/ (p \in others /\ pc[p] = "activating")]

\* The page that waits for this transaction goes on, whatever its status.
AfterReceipt == [open |-> "nonce", submit |-> "sign", activate |-> "done"]
WaitsFor == [open |-> "opening", submit |-> "submitting", activate |-> "activating"]

Receipt(t) ==
  pc' = IF Order(t.page) = t.order /\ pc[t.page] = WaitsFor[t.kind]
        THEN [pc EXCEPT ![t.page] = AfterReceipt[t.kind]] ELSE pc

MineOpen(t) ==
  /\ t.kind = "open"
  /\ epochs' = IF CanOpen(t.header.epoch) THEN [epochs EXCEPT ![t.header.epoch] = "Open"]
                                          ELSE epochs
  /\ UNCHANGED <<nextNonce, status, header, gate>>

MineSubmit(t) ==
  /\ t.kind = "submit"
  /\ IF CanSubmit(t.order, t.header)
     THEN /\ status' = [status EXCEPT ![t.order] = "Submitted"]
          /\ header' = [header EXCEPT ![t.order] = t.header]
          /\ nextNonce' = [nextNonce EXCEPT ![WalletOf[t.page]] = @ + 1]
          /\ UNCHANGED <<epochs, gate>>
     ELSE UNCHANGED chainVars

MineActivate(t) ==
  /\ t.kind = "activate"
  /\ status' = IF CanActivate(t.order, Digest(t.order, t.header))
               THEN [status EXCEPT ![t.order] = "Authorised"] ELSE status
  /\ UNCHANGED <<epochs, nextNonce, header, gate>>

\* An account's transactions are mined in the order it sent them.
Mine(w) ==
  /\ queue[w] # <<>>
  /\ LET t == Head(queue[w])
     IN /\ MineOpen(t) \/ MineSubmit(t) \/ MineActivate(t)
        /\ Receipt(t)
        /\ Disturb(Pages \ {t.page})
  /\ queue' = [queue EXCEPT ![w] = Tail(@)]
  /\ UNCHANGED <<now, run, draft, unsettled>>

\* Whoever seals takes live orders of the epoch (sealEpoch).
Seal(e, chosen) ==
  /\ gate # "closed" /\ epochs[e] = "Open" /\ chosen # {}
  /\ \A o \in chosen : status[o] = "Authorised" /\ header[o].epoch = e /\ now <= header[o].expiry
  /\ epochs' = [epochs EXCEPT ![e] = "Sealed"]
  /\ status' = [o \in Orders |-> IF o \in chosen THEN "Sealed" ELSE status[o]]
  /\ Disturb(Pages)
  /\ UNCHANGED <<now, nextNonce, header, gate, queue, pc, run, draft, unsettled>>

\* cancelIntent, signed elsewhere: the application has no button for it.
Cancel(o) ==
  /\ status[o] \in {"Submitted", "Authorised"}
  /\ status' = [status EXCEPT ![o] = "Cancelled"]
  /\ Disturb(Pages)
  /\ UNCHANGED <<now, epochs, nextNonce, header, gate, queue, pc, run, draft, unsettled>>

\* The Safe's owners, its threshold or the installation change; a pause does too.
ChangeSafe ==
  /\ gate' \in Gates \ {gate}
  /\ Disturb(Pages)
  /\ UNCHANGED <<now, epochs, nextNonce, status, header, queue, pc, run, draft, unsettled>>

Tick ==
  /\ now < MaxTime /\ now' = now + 1
  /\ UNCHANGED <<chainVars, queue, pc, run, draft, raced, unsettled>>

Init ==
  /\ now = 0 /\ epochs = [e \in Epochs |-> "None"]
  /\ nextNonce = [w \in Wallets |-> 0]
  /\ status = [o \in Orders |-> "None"]
  /\ header = [o \in Orders |-> [epoch |-> 0, nonce |-> 0, expiry |-> 0]]
  /\ gate = "open" /\ queue = [w \in Wallets |-> <<>>]
  /\ pc = [p \in Pages |-> "ready"] /\ run = [p \in Pages |-> 0]
  /\ draft = [p \in Pages |-> [epoch |-> 0, nonce |-> 0, expiry |-> 0]]
  /\ raced = [p \in Pages |-> FALSE] /\ unsettled = {}

Next ==
  \/ \E p \in Pages : Run(p) \/ PageStep(p) \/ GiveUp(p)
  \/ \E w \in Wallets : Mine(w)
  \/ \E e \in Epochs : \E chosen \in SUBSET Orders : Seal(e, chosen)
  \/ \E o \in Orders : Cancel(o)
  \/ ChangeSafe \/ Tick

Spec == Init /\ [][Next]_vars
=============================================================================
