---------------------------- MODULE OrderDeskSafety ----------------------------
(* What a page may tell its user about an order, and what the book may hold. *)
EXTENDS OrderDesk

Transaction == [kind : {"open", "submit", "activate"}, page : Pages, order : Orders,
                header : Header]

TypeOK ==
  /\ now \in Times
  /\ epochs \in [Epochs -> EpochStatus]
  /\ nextNonce \in [Wallets -> Nat]
  /\ status \in [Orders -> OrderStatus]
  /\ header \in [Orders -> Header]
  /\ gate \in Gates
  /\ queue \in [Wallets -> Seq(Transaction)]
  /\ pc \in [Pages -> Idle \cup Busy]
  /\ run \in [Pages -> 0 .. MaxRuns]
  /\ draft \in [Pages -> Header]
  /\ raced \in [Pages -> BOOLEAN]
  /\ unsettled \subseteq Orders

OnBook(w) == {o \in Orders : WalletOf[o[1]] = w /\ status[o] # "None"}

NumberedInOrder ==
  \A w \in Wallets :
    /\ \A o \in OnBook(w) : header[o].nonce < nextNonce[w]
    /\ \A o, q \in OnBook(w) : header[o].nonce = header[q].nonce => o = q
    /\ \A n \in 0 .. nextNonce[w] - 1 : \E o \in OnBook(w) : header[o].nonce = n

\* The orders an owner has on the book carry exactly the nonces below the
\* module's next one, each once: two pages of one owner that read the same
\* nonce, or a retry that overtakes a pending submission, never both land.
NoncesAreSequential == TypeOK /\ NumberedInOrder

\* A page that reports success has an activated order unless somebody else
\* changed the chain between the estimate and the block (the receipt's status
\* is not looked at: only the estimate protects the report).
DoneUnlessRaced ==
  \A p \in Pages :
    pc[p] = "done" => raced[p] \/ status[Order(p)] \notin {"None", "Submitted"}

\* An order left on the book without its activation belongs to a run that is
\* under way, that ended in an error shown to the user, or whose report was raced.
OrphansAreExplained ==
  \A o \in Orders : status[o] = "Submitted" =>
    \/ o \in unsettled
    \/ Order(o[1]) = o /\ (pc[o[1]] \in Busy \/ raced[o[1]])
=============================================================================
