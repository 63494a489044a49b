---------------------------- MODULE OrderDesk_proofs ----------------------------
(***************************************************************************)
(* Proofs about OrderDesk: for any set of pages and wallets and any bound, *)
(* the nonces on the book are sequential, an unraced report of success is  *)
(* true, and an order without its activation is accounted for.             *)
(***************************************************************************)
EXTENDS OrderDeskSafety, TLAPS, FiniteSetTheorems

-----------------------------------------------------------------------------
(* Lemmas about the operators the model is built from. *)

\* The hour of an earlier time is not a later hour.
LEMMA EarlierHour ==
  ASSUME NEW W \in Nat \ {0}, NEW M \in Nat, NEW n \in 0 .. M
  PROVE  n \div W \in 0 .. M \div W
<1>1. n \div W \in Nat /\ M \div W \in Nat
  BY SMT
<1>2. (n \div W) * W <= n /\ M < (M \div W + 1) * W
  BY SMT
<1>3. ASSUME n \div W >= M \div W + 1 PROVE FALSE
  <2>1. (n \div W) * W >= (M \div W + 1) * W
    BY <1>1, <1>3, SMT
  <2> QED BY <1>1, <1>2, <2>1, SMT
<1> QED BY <1>1, <1>3, SMT

\* A page that has run k times has started k orders.
LEMMA StartedBound ==
  ASSUME TypeOK, NEW p \in Pages, Cardinality(Started) < MaxRuns
  PROVE  run[p] + 1 \in 1 .. MaxRuns
<1> DEFINE Own == {p} \X (1 .. run[p])
<1>1. run[p] \in Nat /\ run[p] <= MaxRuns /\ MaxRuns \in Nat
  BY DeskAssumption DEF TypeOK
<1>2. IsFiniteSet({p}) /\ Cardinality({p}) = 1
  BY FS_Singleton
<1>3. IsFiniteSet(1 .. run[p]) /\ Cardinality(1 .. run[p]) = run[p]
  <2>1. /\ IsFiniteSet(1 .. run[p])
        /\ Cardinality(1 .. run[p]) = IF 1 > run[p] THEN 0 ELSE run[p] - 1 + 1
    BY <1>1, 1 \in Int, run[p] \in Int, FS_Interval
  <2> QED BY <1>1, <2>1, SMT
<1>4. Cardinality(Own) = run[p]
  <2>1. Cardinality(Own) = Cardinality({p}) * Cardinality(1 .. run[p])
    BY <1>2, <1>3, FS_Product
  <2> QED BY <1>1, <1>2, <1>3, <2>1
<1>5. IsFiniteSet(Started)
  <2>1. IsFiniteSet(1 .. MaxRuns)
    BY <1>1, FS_Interval
  <2>2. IsFiniteSet(Orders)
    BY <2>1, DeskAssumption, FS_Product DEF Orders
  <2> QED BY <2>2, FS_Subset DEF Started
<1>6. Own \subseteq Started
  BY <1>1, SMT DEF Started, Orders
<1>7. Cardinality(Own) <= Cardinality(Started) /\ Cardinality(Started) \in Nat
  BY <1>5, <1>6, FS_Subset, FS_CardinalityType
<1> QED BY <1>1, <1>4, <1>7

\* What an account's queue holds.
InFlight(w) == {queue[w][i] : i \in 1 .. Len(queue[w])}

\* Appending a transaction adds that one, mining takes none but the first away.
LEMMA AppendContents ==
  ASSUME NEW S, NEW s \in Seq(S), NEW x \in S
  PROVE  /\ Append(s, x) \in Seq(S)
         /\ \A i \in 1 .. Len(Append(s, x)) :
              Append(s, x)[i] = x \/ \E j \in 1 .. Len(s) : Append(s, x)[i] = s[j]
  BY SMT

\* Taking the first away leaves only what was there.
LEMMA TailContents ==
  ASSUME NEW S, NEW s \in Seq(S), s # <<>>
  PROVE  /\ Tail(s) \in Seq(S) /\ Head(s) \in S
         /\ 1 \in 1 .. Len(s) /\ Head(s) = s[1]
         /\ \A i \in 1 .. Len(Tail(s)) : \E j \in 1 .. Len(s) : Tail(s)[i] = s[j]
  BY SMT

-----------------------------------------------------------------------------
(* The inductive invariant. *)

PageOK == \A p \in Pages : pc[p] # "ready" \/ raced[p] => run[p] \in 1 .. MaxRuns

Explained(o) ==
  o \in unsettled \/ (Order(o[1]) = o /\ (pc[o[1]] \in Busy \/ raced[o[1]]))

\* A transaction belongs to its page's wallet and to an order the page started;
\* a submission is explained until the order exists, and an activation of the
\* page's present order carries the draft the page waits with.
TransactionOK(w, t) ==
  /\ t.order[1] = t.page /\ WalletOf[t.page] = w /\ t.order[2] <= run[t.page]
  /\ t.kind = "submit" => status[t.order] # "None" \/ Explained(t.order)
  /\ t.kind = "activate" /\ t.order = Order(t.page) =>
       pc[t.page] \in {"activating", "done", "error"} /\ t.header = draft[t.page]

QueueOK == \A w \in Wallets : \A t \in InFlight(w) : TransactionOK(w, t)

\* What the wallet's estimate found still holds while nobody else interferes.
EstimateHolds ==
  \A p \in Pages : pc[p] = "activating" /\ ~raced[p] => CanActivate(Order(p), Signature(p))

IInv ==
  /\ TypeOK /\ PageOK /\ QueueOK /\ EstimateHolds
  /\ NumberedInOrder /\ DoneUnlessRaced /\ OrphansAreExplained

\* The order a page works on is one of the orders.
LEMMA OrderType ==
  ASSUME TypeOK, NEW p \in Pages, run[p] \in 1 .. MaxRuns
  PROVE  Order(p) \in Orders
  BY DEF Order, Orders

\* The first transaction of a queue, and what is left of the queue without it.
LEMMA Mined ==
  ASSUME TypeOK, TypeOK', QueueOK, NEW w \in Wallets, Mine(w)
  PROVE  /\ Head(queue[w]) \in Transaction /\ Head(queue[w]) \in InFlight(w)
         /\ TransactionOK(w, Head(queue[w]))
         /\ \A v \in Wallets : InFlight(v)' \subseteq InFlight(v)
<1>1. queue[w] \in Seq(Transaction) /\ queue[w] # <<>>
  BY DEF TypeOK, Mine
<1>2. /\ Head(queue[w]) \in Transaction
      /\ 1 \in 1 .. Len(queue[w]) /\ Head(queue[w]) = queue[w][1]
      /\ \A i \in 1 .. Len(Tail(queue[w])) :
           \E j \in 1 .. Len(queue[w]) : Tail(queue[w])[i] = queue[w][j]
  BY <1>1, TailContents
<1>3. queue' = [queue EXCEPT ![w] = Tail(@)]
  BY DEF Mine
<1>4. Head(queue[w]) \in InFlight(w)
  BY <1>2 DEF InFlight
<1>5. ASSUME NEW v \in Wallets PROVE InFlight(v)' \subseteq InFlight(v)
  BY <1>2, <1>3 DEF InFlight, TypeOK
<1> QED BY <1>2, <1>4, <1>5 DEF QueueOK

\* After a transaction is sent the queues hold what they held, and it.
LEMMA Sent ==
  ASSUME TypeOK, PageOK, NEW p \in Pages, NEW kind \in {"open", "submit", "activate"},
         pc[p] # "ready", NEW next, Send(p, kind, next)
  PROVE  LET t == [kind |-> kind, page |-> p, order |-> Order(p), header |-> draft[p]]
         IN /\ t \in Transaction
            /\ queue' \in [Wallets -> Seq(Transaction)]
            /\ \A v \in Wallets : \A u \in InFlight(v)' : u \in InFlight(v) \/ (u = t /\ v = WalletOf[p])
<1> DEFINE t == [kind |-> kind, page |-> p, order |-> Order(p), header |-> draft[p]]
           q == queue[WalletOf[p]]
<1>1. t \in Transaction
  BY OrderType DEF PageOK, TypeOK, Transaction
<1>2. WalletOf[p] \in Wallets /\ q \in Seq(Transaction)
  BY DeskAssumption DEF TypeOK
<1>3. queue' = [queue EXCEPT ![WalletOf[p]] = Append(q, t)]
  BY DEF Send
<1> HIDE DEF t, q
<1>4. /\ Append(q, t) \in Seq(Transaction)
      /\ \A i \in 1 .. Len(Append(q, t)) :
           Append(q, t)[i] = t \/ \E j \in 1 .. Len(q) : Append(q, t)[i] = q[j]
  BY <1>1, <1>2, AppendContents
<1>5. queue' \in [Wallets -> Seq(Transaction)]
  BY <1>2, <1>3, <1>4 DEF TypeOK
<1>6. ASSUME NEW v \in Wallets, NEW u \in InFlight(v)'
      PROVE  u \in InFlight(v) \/ (u = t /\ v = WalletOf[p])
  <2>1. CASE v = WalletOf[p]
    BY <1>2, <1>3, <1>4, <2>1 DEF InFlight, TypeOK, q
  <2>2. CASE v # WalletOf[p]
    BY <1>3, <2>2 DEF InFlight, TypeOK
  <2> QED BY <2>1, <2>2
<1> QED BY <1>1, <1>5, <1>6 DEF t

-----------------------------------------------------------------------------
(* Every step keeps the invariant: first the types. *)

\* The initial state is typed, and no page has begun.
LEMMA TypeInit == Init => TypeOK /\ PageOK
<1> USE DeskAssumption
<1>1. 0 \in Times /\ 0 \in Epochs
  BY EarlierHour DEF Times, Epochs
<1>2. ASSUME Init PROVE TypeOK
  <2>1. queue \in [Wallets -> Seq(Transaction)]
    BY <1>2 DEF Init
  <2> QED BY <1>1, <1>2, <2>1 DEF Init, TypeOK, EpochStatus, OrderStatus, Gates, Header, Idle, Orders
<1> QED BY <1>2 DEF Init, PageOK

\* A page's own step sends nothing, or sends one transaction.
LEMMA TypePage ==
  ASSUME TypeOK, PageOK, NEW p \in Pages, Run(p) \/ PageStep(p) \/ GiveUp(p)
  PROVE  TypeOK' /\ PageOK'
<1> USE DeskAssumption DEF TypeOK, PageOK, Go
<1>1. CASE Run(p)
  <2>1. run[p] + 1 \in 1 .. MaxRuns
    BY <1>1, StartedBound DEF Run, Ready
  <2>2. CurrentEpoch \in Epochs
    BY EarlierHour DEF CurrentEpoch, Epochs, Times
  <2>3. unsettled' \subseteq Orders
    BY <1>1, OrderType DEF Run
  <2>4. draft' \in [Pages -> Header]
    BY <1>1, <2>2 DEF Run, Header
  <2>5. /\ run' \in [Pages -> 0 .. MaxRuns] /\ pc' \in [Pages -> Idle \cup Busy]
        /\ raced' \in [Pages -> BOOLEAN]
    BY <1>1, <2>1 DEF Run, Busy
  <2>6. PageOK'
    BY <1>1, <2>1 DEF Run
  <2> QED BY <1>1, <2>3, <2>4, <2>5, <2>6 DEF Run, chainVars
<1>2. CASE ReadEpoch(p) \/ Encrypt(p) \/ Sign(p)
  BY <1>2 DEF ReadEpoch, Encrypt, Sign, chainVars, Busy
<1>3. CASE ReadNonce(p)
  <2>1. draft' \in [Pages -> Header]
    BY <1>3 DEF ReadNonce, Header
  <2> QED BY <1>3, <2>1 DEF ReadNonce, chainVars, Busy
<1>4. CASE Build(p)
  <2>1. now + Window \in Nat
    BY DEF Times
  <2>2. draft' \in [Pages -> Header]
    BY <1>4, <2>1 DEF Build, Header
  <2> QED BY <1>4, <2>2 DEF Build, chainVars, Busy
<1>5. CASE EstimateFails(p) \/ GiveUp(p)
  <2>1. pc[p] # "ready" /\ Fail(p)
    BY <1>5 DEF EstimateFails, GiveUp, Busy, Waiting
  <2>2. Order(p) \in Orders
    BY <2>1, OrderType
  <2> QED BY <2>1, <2>2 DEF Fail, chainVars, Idle
<1>6. ASSUME NEW kind \in {"open", "submit", "activate"}, NEW next \in Waiting,
             pc[p] # "ready", Send(p, kind, next)
      PROVE  TypeOK' /\ PageOK'
  <2>1. queue' \in [Wallets -> Seq(Transaction)]
    BY <1>6, Sent
  <2> QED BY <1>6, <2>1 DEF Send, chainVars, Busy
<1>7. CASE SendOpen(p) \/ SendSubmit(p) \/ SendActivate(p)
  BY <1>6, <1>7 DEF SendOpen, SendSubmit, SendActivate, Waiting
<1> QED BY <1>1, <1>2, <1>3, <1>4, <1>5, <1>7 DEF PageStep

\* A receipt moves only the page that waits for it.
LEMMA ReceiptMoves ==
  ASSUME TypeOK, NEW t \in Transaction, Receipt(t)
  PROVE  \/ pc' = pc
         \/ /\ Order(t.page) = t.order /\ t.page \in Pages
            /\ \/ t.kind = "open" /\ pc[t.page] = "opening" /\ pc' = [pc EXCEPT ![t.page] = "nonce"]
               \/ t.kind = "submit" /\ pc[t.page] = "submitting" /\ pc' = [pc EXCEPT ![t.page] = "sign"]
               \/ t.kind = "activate" /\ pc[t.page] = "activating" /\ pc' = [pc EXCEPT ![t.page] = "done"]
<1>1. t.kind \in {"open", "submit", "activate"} /\ t.page \in Pages
  BY DEF Transaction
<1>2. /\ WaitsFor["open"] = "opening" /\ AfterReceipt["open"] = "nonce"
      /\ WaitsFor["submit"] = "submitting" /\ AfterReceipt["submit"] = "sign"
      /\ WaitsFor["activate"] = "activating" /\ AfterReceipt["activate"] = "done"
  BY DEF WaitsFor, AfterReceipt
<1> QED BY <1>1, <1>2, Zenon DEF Receipt

\* A mined transaction keeps the types.
LEMMA TypeMine ==
  ASSUME TypeOK, PageOK, NEW w \in Wallets, Mine(w)
  PROVE  TypeOK' /\ PageOK'
<1> DEFINE t == Head(queue[w])
<1>1. queue[w] \in Seq(Transaction) /\ queue[w] # <<>>
  BY DEF TypeOK, Mine
<1>2. t \in Transaction /\ Tail(queue[w]) \in Seq(Transaction)
  BY <1>1, TailContents
<1>3. /\ MineOpen(t) \/ MineSubmit(t) \/ MineActivate(t)
      /\ Receipt(t) /\ Disturb(Pages \ {t.page})
  BY DEF Mine
<1>4. queue' \in [Wallets -> Seq(Transaction)]
  BY <1>2 DEF Mine, TypeOK
<1> HIDE DEF t
<1>5. pc' \in [Pages -> Idle \cup Busy] /\ \A p \in Pages : pc[p] = "ready" <=> pc'[p] = "ready"
  BY <1>2, <1>3, ReceiptMoves DEF TypeOK, Idle, Busy, Waiting
<1>6. raced' \in [Pages -> BOOLEAN]
  BY <1>3 DEF Disturb
<1>7. /\ epochs' \in [Epochs -> EpochStatus] /\ nextNonce' \in [Wallets -> Nat]
      /\ status' \in [Orders -> OrderStatus] /\ header' \in [Orders -> Header]
      /\ gate' \in Gates
  <2> USE DEF TypeOK, EpochStatus, OrderStatus
  <2>1. CASE MineOpen(t)
    BY <2>1 DEF MineOpen
  <2>2. CASE MineSubmit(t)
    <3>1. t.header \in Header /\ WalletOf[t.page] \in Wallets
      BY <1>2, DeskAssumption DEF Transaction
    <3>2. CASE CanSubmit(t.order, t.header)
      <4>1. nextNonce[WalletOf[t.page]] + 1 \in Nat
        BY <3>1
      <4>2. /\ status' = [status EXCEPT ![t.order] = "Submitted"]
            /\ header' = [header EXCEPT ![t.order] = t.header]
            /\ nextNonce' = [nextNonce EXCEPT ![WalletOf[t.page]] = @ + 1]
            /\ epochs' = epochs /\ gate' = gate
        BY <2>2, <3>2 DEF MineSubmit
      <4>3. nextNonce' \in [Wallets -> Nat]
        BY <3>1, <4>1, <4>2
      <4>4. header' \in [Orders -> Header]
        BY <3>1, <4>2
      <4> QED BY <4>2, <4>3, <4>4
    <3>3. CASE ~CanSubmit(t.order, t.header)
      BY <2>2, <3>3 DEF MineSubmit, chainVars
    <3> QED BY <3>2, <3>3
  <2>3. CASE MineActivate(t)
    BY <2>3 DEF MineActivate
  <2> QED BY <1>3, <2>1, <2>2, <2>3
<1>8. PageOK'
  BY <1>3, <1>5 DEF PageOK, Disturb, Mine
<1> QED BY <1>4, <1>5, <1>6, <1>7, <1>8 DEF Mine, TypeOK

\* So does what others do, and the clock.
LEMMA TypeChain ==
  ASSUME TypeOK, PageOK,
         \/ \E e \in Epochs : \E chosen \in SUBSET Orders : Seal(e, chosen)
         \/ \E o \in Orders : Cancel(o)
         \/ ChangeSafe \/ Tick
  PROVE  TypeOK' /\ PageOK'
<1> USE DeskAssumption DEF TypeOK, PageOK, Disturb
<1>1. ASSUME NEW e \in Epochs, NEW chosen \in SUBSET Orders, Seal(e, chosen)
      PROVE  TypeOK' /\ PageOK'
  BY <1>1 DEF Seal, EpochStatus, OrderStatus
<1>2. ASSUME NEW o \in Orders, Cancel(o) PROVE TypeOK' /\ PageOK'
  BY <1>2 DEF Cancel, OrderStatus
<1>3. CASE ChangeSafe
  BY <1>3 DEF ChangeSafe
<1>4. CASE Tick
  BY <1>4 DEF Tick, Times, chainVars
<1> QED BY <1>1, <1>2, <1>3, <1>4

-----------------------------------------------------------------------------
(* A page's steps leave the chain alone. *)

\* A page only reads the chain and adds to a queue.
LEMMA PageLeavesChain ==
  ASSUME NEW p \in Pages, Run(p) \/ PageStep(p) \/ GiveUp(p)
  PROVE  UNCHANGED <<nextNonce, status, header, gate>>
  BY DEF Run, PageStep, ReadEpoch, SendOpen, ReadNonce, Build, Encrypt, SendSubmit, Sign,
         SendActivate, EstimateFails, GiveUp, Fail, Send, chainVars

\* What a page does is to press the button, to advance within a run, to fail or to send.
Advance(p) ==
  /\ pc[p] \in {"epoch", "nonce", "build", "encrypt", "sign"}
  /\ pc'[p] \in Busy \ {"activating"}
  /\ \A q \in Pages \ {p} : pc'[q] = pc[q] /\ draft'[q] = draft[q]
  /\ UNCHANGED <<queue, run, raced, unsettled>>

\* The nine steps of a page are of these six kinds.
LEMMA PageCases ==
  ASSUME TypeOK, NEW p \in Pages, Run(p) \/ PageStep(p) \/ GiveUp(p)
  PROVE  \/ Run(p) \/ Advance(p) \/ (pc[p] \in Busy /\ Fail(p))
         \/ SendOpen(p) \/ SendSubmit(p) \/ SendActivate(p)
<1> USE DEF Advance, Busy, TypeOK
<1>1. CASE ReadEpoch(p)
  BY <1>1 DEF ReadEpoch, Go
<1>2. CASE ReadNonce(p)
  BY <1>2 DEF ReadNonce, Go
<1>3. CASE Build(p)
  BY <1>3 DEF Build, Go
<1>4. CASE Encrypt(p) \/ Sign(p)
  BY <1>4 DEF Encrypt, Sign, Go
<1>5. CASE EstimateFails(p) \/ GiveUp(p)
  BY <1>5 DEF EstimateFails, GiveUp
<1> QED BY <1>1, <1>2, <1>3, <1>4, <1>5 DEF PageStep

\* An explained order stays explained.
LEMMA ExplainedByPage ==
  ASSUME TypeOK, NEW p \in Pages, Run(p) \/ PageStep(p) \/ GiveUp(p),
         NEW o \in Orders, Explained(o)
  PROVE  Explained(o)'
<1> o[1] \in Pages
  BY DEF Orders
<1> USE DEF Explained, TypeOK
<1>1. CASE Run(p)
  <2>1. pc[p] \notin Busy
    BY <1>1 DEF Run, Ready, Idle, Busy, Waiting
  <2> QED BY <1>1, <2>1 DEF Run, Go, Order
<1>2. CASE Advance(p)
  BY <1>2 DEF Advance, Order
<1>3. CASE pc[p] \in Busy /\ Fail(p)
  BY <1>3 DEF Fail, Go, Order
<1>4. CASE SendOpen(p) \/ SendSubmit(p) \/ SendActivate(p)
  BY <1>4 DEF SendOpen, SendSubmit, SendActivate, Send, Go, Order, Busy, Waiting
<1> QED BY <1>1, <1>2, <1>3, <1>4, PageCases

\* Whatever a page does, the queued transactions stay what TransactionOK says.
LEMMA QueuePage ==
  ASSUME TypeOK, PageOK, QueueOK, NEW p \in Pages, Run(p) \/ PageStep(p) \/ GiveUp(p)
  PROVE  QueueOK'
<1>1. status' = status
  BY PageLeavesChain
<1>2. ASSUME NEW w \in Wallets, NEW t \in InFlight(w)
      PROVE  /\ t \in Transaction /\ t.order \in Orders /\ t.page \in Pages
             /\ TransactionOK(w, t)
  <2>1. t \in Transaction
    BY DEF InFlight, TypeOK
  <2> QED BY <2>1 DEF QueueOK, Transaction
<1>3. ASSUME NEW w \in Wallets, NEW t \in InFlight(w), Explained(t.order)
      PROVE  Explained(t.order)'
  BY <1>2, <1>3, ExplainedByPage
<1>4. CASE Run(p)
  <2> SUFFICES ASSUME NEW w \in Wallets, NEW t \in InFlight(w) PROVE TransactionOK(w, t)'
    BY <1>4 DEF QueueOK, Run, InFlight
  <2>1. t.page \in Pages /\ TransactionOK(w, t) /\ t \in Transaction
    BY <1>2
  <2>2. /\ run'[p] = run[p] + 1
        /\ \A q \in Pages \ {p} : run'[q] = run[q] /\ pc'[q] = pc[q] /\ draft'[q] = draft[q]
    BY <1>4 DEF Run, Go, TypeOK
  <2>3. run[p] \in Nat /\ t.order[2] \in Nat
    BY <2>1 DEF TypeOK, Transaction, Orders
  <2>4. t.order[2] <= run'[t.page]
    BY <2>1, <2>2, <2>3 DEF TransactionOK
  <2>5. ASSUME t.order = Order(t.page)' PROVE t.page # p
    BY <2>1, <2>2, <2>3, <2>5 DEF TransactionOK, Order
  <2> QED BY <1>1, <1>3, <2>1, <2>2, <2>4, <2>5 DEF TransactionOK, Order
<1>5. CASE Advance(p)
  <2> SUFFICES ASSUME NEW w \in Wallets, NEW t \in InFlight(w) PROVE TransactionOK(w, t)'
    BY <1>5 DEF QueueOK, Advance, InFlight
  <2>1. t.page \in Pages /\ TransactionOK(w, t)
    BY <1>2
  <2> QED BY <1>1, <1>3, <1>5, <2>1 DEF TransactionOK, Order, Advance
<1>6. CASE pc[p] \in Busy /\ Fail(p)
  <2> SUFFICES ASSUME NEW w \in Wallets, NEW t \in InFlight(w) PROVE TransactionOK(w, t)'
    BY <1>6 DEF QueueOK, Fail, InFlight
  <2>1. t.page \in Pages /\ TransactionOK(w, t)
    BY <1>2
  <2> QED BY <1>1, <1>3, <1>6, <2>1 DEF TransactionOK, Order, Fail, Go, TypeOK
<1>7. ASSUME NEW kind \in {"open", "submit", "activate"}, NEW next \in Waiting,
             pc[p] \in {"open", "submit", "activate"}, Send(p, kind, next),
             kind = "activate" => next = "activating"
      PROVE  QueueOK'
  <2> DEFINE n == [kind |-> kind, page |-> p, order |-> Order(p), header |-> draft[p]]
  <2>1. \A v \in Wallets : \A u \in InFlight(v)' : u \in InFlight(v) \/ (u = n /\ v = WalletOf[p])
    BY <1>7, Sent
  <2>2. /\ pc' = [pc EXCEPT ![p] = next] /\ UNCHANGED <<run, draft, unsettled>>
    BY <1>7 DEF Send, Go
  <2>3. ASSUME NEW w \in Wallets, NEW t \in InFlight(w) PROVE TransactionOK(w, t)'
    <3>1. t.page \in Pages /\ TransactionOK(w, t)
      BY <1>2
    <3>2. /\ \A q \in Pages : Order(q)' = Order(q) /\ draft'[q] = draft[q]
          /\ \A q \in Pages \ {p} : pc'[q] = pc[q]
          /\ run' = run
      BY <2>2 DEF Order, TypeOK
    <3>3. t.kind = "activate" /\ t.order = Order(t.page) => t.page # p
      BY <1>7, <3>1 DEF TransactionOK
    <3>4. t.kind = "submit" => status'[t.order] # "None" \/ Explained(t.order)'
      BY <1>1, <1>3, <3>1 DEF TransactionOK
    <3>5. t.kind = "activate" /\ t.order = Order(t.page)' =>
            pc'[t.page] \in {"activating", "done", "error"} /\ t.header = draft'[t.page]
      <4> HAVE t.kind = "activate" /\ t.order = Order(t.page)'
      <4>1. t.order = Order(t.page)
        BY <3>1, <3>2
      <4>2. pc'[t.page] = pc[t.page] /\ draft'[t.page] = draft[t.page]
        BY <3>1, <3>2, <3>3, <4>1
      <4> QED BY <3>1, <4>1, <4>2 DEF TransactionOK
    <3>6. t.order[1] = t.page /\ WalletOf[t.page] = w /\ t.order[2] <= run'[t.page]
      BY <3>1, <3>2 DEF TransactionOK
    <3> QED BY <3>4, <3>5, <3>6 DEF TransactionOK
  <2>4. ASSUME NEW t, t = n PROVE TransactionOK(WalletOf[p], t)'
    <3>1. Order(p)' = Order(p) /\ Order(p)[1] = p /\ Order(p)[2] <= run'[p] /\ draft' = draft
      BY <2>2 DEF Order, TypeOK
    <3>2. pc'[p] = next /\ next \in Busy
      BY <2>2 DEF TypeOK, Busy
    <3>3. Explained(Order(p))'
      BY <3>1, <3>2 DEF Explained
    <3>4. /\ t.order = Order(p) /\ t.page = p /\ t.kind = kind /\ t.header = draft[p]
      BY <2>4
    <3> QED BY <1>7, <3>1, <3>2, <3>3, <3>4 DEF TransactionOK
  <2> HIDE DEF n
  <2> SUFFICES ASSUME NEW v \in Wallets, NEW u \in InFlight(v)' PROVE TransactionOK(v, u)'
    BY DEF QueueOK
  <2>5. CASE u \in InFlight(v)
    BY <2>3, <2>5
  <2>6. CASE u = n /\ v = WalletOf[p]
    BY <2>4, <2>6
  <2> QED BY <2>1, <2>5, <2>6
<1>8. CASE SendOpen(p) \/ SendSubmit(p) \/ SendActivate(p)
  BY <1>7, <1>8 DEF SendOpen, SendSubmit, SendActivate, Waiting
<1> QED BY <1>4, <1>5, <1>6, <1>8, PageCases

\* A page sends an activation only when it would succeed, and reports nothing itself.
LEMMA ReportsPage ==
  ASSUME IInv, NEW p \in Pages, Run(p) \/ PageStep(p) \/ GiveUp(p)
  PROVE  EstimateHolds' /\ DoneUnlessRaced'
<1> USE DEF IInv, EstimateHolds, DoneUnlessRaced, TypeOK
<1>1. /\ UNCHANGED <<nextNonce, status, header, gate>>
      /\ \A o : \A signed : CanActivate(o, signed)' = CanActivate(o, signed)
  BY PageLeavesChain DEF CanActivate, Digest
<1>2. CASE Run(p)
  BY <1>1, <1>2 DEF Run, Go, Order, Signature, Digest
<1>3. CASE Advance(p)
  BY <1>1, <1>3 DEF Advance, Order, Signature, Digest, Busy, Waiting
<1>4. CASE pc[p] \in Busy /\ Fail(p)
  BY <1>1, <1>4 DEF Fail, Go, Order, Signature, Digest
<1>5. CASE SendOpen(p) \/ SendSubmit(p)
  BY <1>1, <1>5 DEF SendOpen, SendSubmit, Send, Go, Order, Signature, Digest
<1>6. CASE SendActivate(p)
  BY <1>1, <1>6 DEF SendActivate, Send, Go, Order, Signature, Digest
<1> QED BY <1>2, <1>3, <1>4, <1>5, <1>6, PageCases

\* A page's step keeps the invariant.
LEMMA StepPage ==
  ASSUME IInv, NEW p \in Pages, Run(p) \/ PageStep(p) \/ GiveUp(p)
  PROVE  IInv'
<1>1. UNCHANGED <<nextNonce, status, header, gate>>
  BY PageLeavesChain
<1>2. NumberedInOrder'
  BY <1>1 DEF IInv, NumberedInOrder, OnBook
<1>3. OrphansAreExplained'
  <2>1. \A o \in Orders : status[o] = "Submitted" => Explained(o)'
    BY ExplainedByPage DEF IInv, OrphansAreExplained, Explained
  <2> QED BY <1>1, <2>1 DEF OrphansAreExplained, Explained
<1> QED BY <1>2, <1>3, TypePage, QueuePage, ReportsPage DEF IInv

-----------------------------------------------------------------------------
(* Steps of the chain. *)

\* What a mined transaction does to the orders: a submission makes a fresh one,
\* an activation authorises one, and nothing else changes any.
LEMMA MineStatus ==
  ASSUME TypeOK, NEW t \in Transaction, MineOpen(t) \/ MineSubmit(t) \/ MineActivate(t)
  PROVE  /\ gate' = gate
         /\ \A o \in Orders : \/ status'[o] = status[o] /\ header'[o] = header[o]
                              \/ /\ o = t.order /\ t.kind = "submit"
                                 /\ status[o] = "None" /\ status'[o] = "Submitted"
                              \/ /\ o = t.order /\ t.kind = "activate" /\ header'[o] = header[o]
                                 /\ status[o] = "Submitted" /\ status'[o] = "Authorised"
<1> USE DEF TypeOK
<1>1. CASE MineOpen(t)
  BY <1>1 DEF MineOpen
<1>2. CASE MineSubmit(t)
  BY <1>2 DEF MineSubmit, CanSubmit, chainVars
<1>3. CASE MineActivate(t)
  BY <1>3 DEF MineActivate, CanActivate
<1> QED BY <1>1, <1>2, <1>3

\* A submission takes the module's next nonce, and only then the nonce moves.
LEMMA MineNonces ==
  ASSUME TypeOK, NumberedInOrder, NEW t \in Transaction, t.order[1] = t.page,
         MineOpen(t) \/ MineSubmit(t) \/ MineActivate(t)
  PROVE  NumberedInOrder'
<1> USE DEF TypeOK
<1>1. CASE MineOpen(t)
  BY <1>1 DEF MineOpen, NumberedInOrder, OnBook
<1>2. CASE MineActivate(t)
  <2>1. \A w \in Wallets : OnBook(w)' = OnBook(w)
    BY <1>2 DEF MineActivate, CanActivate, OnBook
  <2>2. nextNonce' = nextNonce /\ header' = header
    BY <1>2 DEF MineActivate
  <2> QED BY <2>1, <2>2 DEF NumberedInOrder
<1>3. CASE MineSubmit(t) /\ ~CanSubmit(t.order, t.header)
  BY <1>3 DEF MineSubmit, chainVars, NumberedInOrder, OnBook
<1>4. CASE MineSubmit(t) /\ CanSubmit(t.order, t.header)
  <2> DEFINE v == WalletOf[t.page]
  <2>1. t.order \in Orders /\ v \in Wallets /\ t.header \in Header /\ nextNonce[v] \in Nat
    BY DeskAssumption DEF Transaction
  <2>2. status[t.order] = "None" /\ t.header.nonce = nextNonce[v]
    BY <1>4 DEF CanSubmit
  <2>3. /\ status' = [status EXCEPT ![t.order] = "Submitted"]
        /\ header' = [header EXCEPT ![t.order] = t.header]
        /\ nextNonce' = [nextNonce EXCEPT ![v] = @ + 1]
    BY <1>4 DEF MineSubmit
  <2>4. /\ OnBook(v)' = OnBook(v) \cup {t.order}
        /\ \A w \in Wallets \ {v} : OnBook(w)' = OnBook(w) /\ t.order \notin OnBook(w)
        /\ t.order \notin OnBook(v)
    BY <2>1, <2>2, <2>3 DEF OnBook
  <2>5. /\ \A o \in Orders \ {t.order} : header'[o] = header[o]
        /\ header'[t.order] = t.header
        /\ nextNonce'[v] = nextNonce[v] + 1
        /\ \A w \in Wallets \ {v} : nextNonce'[w] = nextNonce[w]
    BY <2>1, <2>3
  <2>6. \A w \in Wallets : OnBook(w) \subseteq Orders
    BY DEF OnBook
  <2> SUFFICES ASSUME NEW w \in Wallets
               PROVE  /\ \A o \in OnBook(w)' : header'[o].nonce < nextNonce'[w]
                      /\ \A o, q \in OnBook(w)' : header'[o].nonce = header'[q].nonce => o = q
                      /\ \A n \in 0 .. nextNonce'[w] - 1 :
                           \E o \in OnBook(w)' : header'[o].nonce = n
    BY DEF NumberedInOrder
  <2>7. CASE w # v
    <3>1. /\ OnBook(w)' = OnBook(w) /\ nextNonce'[w] = nextNonce[w]
          /\ \A o \in OnBook(w) : header'[o] = header[o]
      BY <2>4, <2>5, <2>6, <2>7
    <3>2. /\ \A o \in OnBook(w) : header[o].nonce < nextNonce[w]
          /\ \A o, q \in OnBook(w) : header[o].nonce = header[q].nonce => o = q
          /\ \A n \in 0 .. nextNonce[w] - 1 : \E o \in OnBook(w) : header[o].nonce = n
      BY DEF NumberedInOrder
    <3>3. \A n \in 0 .. nextNonce'[w] - 1 : \E o \in OnBook(w)' : header'[o].nonce = n
      <4> SUFFICES ASSUME NEW n \in 0 .. nextNonce[w] - 1
                   PROVE  \E o \in OnBook(w)' : header'[o].nonce = n
        BY <3>1
      <4>1. PICK o \in OnBook(w) : header[o].nonce = n
        BY <3>2
      <4> QED BY <3>1, <4>1
    <3>4. ASSUME NEW o \in OnBook(w)' PROVE header'[o].nonce < nextNonce'[w]
      <4>1. o \in OnBook(w) /\ header'[o] = header[o] /\ nextNonce'[w] = nextNonce[w]
        BY <3>1
      <4>2. header[o].nonce < nextNonce[w]
        BY <3>2, <4>1
      <4> QED BY <4>1, <4>2
    <3>5. ASSUME NEW o \in OnBook(w)', NEW q \in OnBook(w)',
                 header'[o].nonce = header'[q].nonce
          PROVE  o = q
      BY <3>1, <3>2, <3>5
    <3> QED BY <3>3, <3>4, <3>5
  <2>8. CASE w = v
    <3>1. ASSUME NEW o \in OnBook(v)
          PROVE  /\ header'[o] = header[o] /\ header[o].nonce \in Nat
                 /\ header[o].nonce < nextNonce[v]
      <4>1. o \in Orders /\ o # t.order
        BY <2>4, <2>6, <2>1
      <4>2. header[o] \in Header
        BY <4>1
      <4>3. header[o].nonce \in Nat
        BY <4>2 DEF Header
      <4>4. header[o].nonce < nextNonce[v]
        BY <2>1 DEF NumberedInOrder
      <4> QED BY <2>5, <4>1, <4>3, <4>4
    <3>2. ASSUME NEW o \in OnBook(v)' PROVE header'[o].nonce < nextNonce'[v]
      <4>1. CASE o = t.order
        BY <2>1, <2>2, <2>5, <4>1
      <4>2. CASE o \in OnBook(v)
        <5>1. /\ header'[o] = header[o] /\ header[o].nonce \in Nat
              /\ header[o].nonce < nextNonce[v]
          BY <3>1, <4>2
        <5> QED BY <2>1, <2>5, <5>1
      <4> QED BY <2>4, <4>1, <4>2
    <3>3. ASSUME NEW o \in OnBook(v)', NEW q \in OnBook(v)',
                 header'[o].nonce = header'[q].nonce
          PROVE  o = q
      <4>1. CASE o \in OnBook(v) /\ q \in OnBook(v)
        <5>1. header[o].nonce = header[q].nonce
          BY <3>1, <3>3, <4>1
        <5> QED BY <2>1, <4>1, <5>1 DEF NumberedInOrder
      <4>2. CASE o = t.order /\ q \in OnBook(v)
        BY <2>1, <2>2, <2>5, <3>1, <3>3, <4>2
      <4>3. CASE o \in OnBook(v) /\ q = t.order
        BY <2>1, <2>2, <2>5, <3>1, <3>3, <4>3
      <4> QED BY <2>4, <4>1, <4>2, <4>3
    <3>4. ASSUME NEW n \in 0 .. nextNonce'[v] - 1
          PROVE  \E o \in OnBook(v)' : header'[o].nonce = n
      <4>1. CASE n = nextNonce[v]
        BY <2>2, <2>4, <2>5, <4>1
      <4>2. CASE n # nextNonce[v]
        <5>1. n \in 0 .. nextNonce[v] - 1
          BY <2>1, <2>5, <4>2
        <5>2. PICK o \in OnBook(v) : header[o].nonce = n
          BY <2>1, <5>1 DEF NumberedInOrder
        <5> QED BY <2>4, <3>1, <5>2
      <4> QED BY <4>1, <4>2
    <3> QED BY <2>8, <3>2, <3>3, <3>4
  <2> QED BY <2>7, <2>8
<1> QED BY <1>1, <1>2, <1>3, <1>4

\* A mined transaction keeps the invariant: only its own page can reach a report
\* through it, and every other page that waits to be activated has been raced.
LEMMA StepMine ==
  ASSUME IInv, NEW w \in Wallets, Mine(w)
  PROVE  IInv'
<1> DEFINE t == Head(queue[w])
<1>1. TypeOK' /\ PageOK'
  BY TypeMine DEF IInv
<1>2. /\ t \in Transaction /\ TransactionOK(w, t)
      /\ \A v \in Wallets : InFlight(v)' \subseteq InFlight(v)
  BY <1>1, Mined DEF IInv
<1>3. /\ MineOpen(t) \/ MineSubmit(t) \/ MineActivate(t)
      /\ Receipt(t) /\ Disturb(Pages \ {t.page})
      /\ UNCHANGED <<run, draft, unsettled>>
  BY DEF Mine
<1> HIDE DEF t
<1>4. t.order \in Orders /\ t.page \in Pages /\ t.order[1] = t.page
  BY <1>2 DEF Transaction, TransactionOK
<1>5. /\ \A p \in Pages : Order(p)' = Order(p) /\ draft'[p] = draft[p]
      /\ \A p \in Pages : raced[p] => raced'[p]
      /\ \A p \in Pages \ {t.page} : pc[p] = "activating" => raced'[p]
  BY <1>3 DEF Order, Disturb
<1>6. NumberedInOrder'
  BY <1>2, <1>3, <1>4, MineNonces DEF IInv
<1>7. /\ gate' = gate
      /\ \A o \in Orders : \/ status'[o] = status[o] /\ header'[o] = header[o]
                           \/ /\ o = t.order /\ t.kind = "submit"
                              /\ status[o] = "None" /\ status'[o] = "Submitted"
                           \/ /\ o = t.order /\ t.kind = "activate" /\ header'[o] = header[o]
                              /\ status[o] = "Submitted" /\ status'[o] = "Authorised"
  BY <1>2, <1>3, MineStatus DEF IInv
<1>8. \A p \in Pages :
        \/ pc'[p] = pc[p]
        \/ /\ p = t.page /\ Order(p) = t.order
           /\ \/ t.kind = "open" /\ pc[p] = "opening" /\ pc'[p] = "nonce"
              \/ t.kind = "submit" /\ pc[p] = "submitting" /\ pc'[p] = "sign"
              \/ t.kind = "activate" /\ pc[p] = "activating" /\ pc'[p] = "done"
  BY <1>2, <1>3, ReceiptMoves DEF IInv, TypeOK
<1>9. \A p \in Pages : run[p] \in 1 .. MaxRuns => Order(p) \in Orders
  BY OrderType DEF IInv
<1>10. EstimateHolds'
  <2> SUFFICES ASSUME NEW p \in Pages, pc'[p] = "activating", ~raced'[p]
               PROVE  CanActivate(Order(p), Signature(p))'
    BY DEF EstimateHolds
  <2>1. pc[p] = "activating" /\ ~raced[p] /\ p = t.page
    BY <1>5, <1>8
  <2>2. CanActivate(Order(p), Signature(p)) /\ Order(p) \in Orders
    BY <1>9, <2>1 DEF IInv, EstimateHolds, PageOK
  <2>3. ~(t.kind = "activate" /\ t.order = Order(p))
    BY <1>2, <1>3, <2>1, <1>4 DEF Receipt, WaitsFor, AfterReceipt, IInv, TypeOK
  <2>4. status'[Order(p)] = status[Order(p)] /\ header'[Order(p)] = header[Order(p)]
    BY <1>7, <2>2, <2>3 DEF CanActivate
  <2> QED BY <1>5, <1>7, <2>2, <2>4 DEF CanActivate, Signature, Digest
<1>11. DoneUnlessRaced'
  <2> SUFFICES ASSUME NEW p \in Pages, pc'[p] = "done", ~raced'[p]
               PROVE  status'[Order(p)] \notin {"None", "Submitted"}
    BY <1>5 DEF DoneUnlessRaced
  <2>1. ~raced[p] /\ Order(p) \in Orders
    BY <1>5, <1>8, <1>9 DEF IInv, PageOK
  <2>2. CASE pc[p] = "done"
    BY <1>7, <2>1, <2>2 DEF IInv, DoneUnlessRaced
  <2>3. CASE pc[p] # "done"
    <3>1. /\ p = t.page /\ Order(p) = t.order /\ t.kind = "activate" /\ pc[p] = "activating"
      BY <1>8, <2>3
    <3>2. CanActivate(Order(p), Signature(p)) /\ t.header = draft[p]
      BY <1>2, <2>1, <3>1 DEF IInv, EstimateHolds, TransactionOK
    <3>3. MineActivate(t) /\ CanActivate(t.order, Digest(t.order, t.header))
      BY <1>3, <3>1, <3>2 DEF MineOpen, MineSubmit, Signature
    <3> QED BY <1>4, <3>1, <3>3 DEF MineActivate, IInv, TypeOK
  <2> QED BY <2>2, <2>3
<1>12. ASSUME NEW o \in Orders, Explained(o), status'[o] \in {"None", "Submitted"}
       PROVE  Explained(o)'
  <2>1. CASE o \in unsettled
    BY <1>3, <2>1 DEF Explained
  <2>2. CASE Order(o[1]) = o /\ (pc[o[1]] \in Busy \/ raced[o[1]])
    <3>1. o[1] \in Pages
      BY DEF Orders
    <3>2. CASE raced[o[1]] \/ pc'[o[1]] \in Busy
      BY <1>5, <2>2, <3>1, <3>2 DEF Explained
    <3>3. CASE ~raced[o[1]] /\ pc'[o[1]] \notin Busy
      <4>1. pc'[o[1]] = "done"
        BY <1>8, <2>2, <3>1, <3>3 DEF Busy
      <4>2. raced'[o[1]] \/ status'[Order(o[1])'] \notin {"None", "Submitted"}
        BY <1>11, <3>1, <4>1 DEF DoneUnlessRaced
      <4>3. raced'[o[1]]
        BY <1>5, <1>12, <2>2, <3>1, <4>2
      <4> QED BY <1>5, <2>2, <3>1, <4>3 DEF Explained
    <3> QED BY <3>2, <3>3
  <2> QED BY <1>12, <2>1, <2>2 DEF Explained
<1>13. OrphansAreExplained'
  <2> SUFFICES ASSUME NEW o \in Orders, status'[o] = "Submitted" PROVE Explained(o)'
    BY DEF OrphansAreExplained, Explained
  <2>1. CASE status[o] = "Submitted"
    BY <1>12, <2>1 DEF IInv, OrphansAreExplained, Explained
  <2>2. CASE status[o] # "Submitted"
    BY <1>2, <1>7, <1>12, <2>2 DEF TransactionOK
  <2> QED BY <2>1, <2>2
<1>14. QueueOK'
  <2> SUFFICES ASSUME NEW v \in Wallets, NEW u \in InFlight(v), TransactionOK(v, u),
                      u \in Transaction
               PROVE  TransactionOK(v, u)'
    <3>1. \A v \in Wallets : InFlight(v) \subseteq Transaction
      BY DEF InFlight, IInv, TypeOK
    <3> QED BY <1>2, <3>1 DEF IInv, QueueOK
  <2>1. u.order \in Orders /\ u.page \in Pages
    BY DEF Transaction
  <2>2. u.kind = "submit" => status'[u.order] # "None" \/ Explained(u.order)'
    BY <1>7, <1>12, <2>1 DEF TransactionOK
  <2>3. u.kind = "activate" /\ u.order = Order(u.page)' =>
          pc'[u.page] \in {"activating", "done", "error"} /\ u.header = draft'[u.page]
    BY <1>5, <1>8, <2>1 DEF TransactionOK
  <2> QED BY <1>3, <2>2, <2>3 DEF TransactionOK
<1> QED BY <1>1, <1>6, <1>10, <1>11, <1>13, <1>14 DEF IInv

\* What others do keeps the invariant: it races every page that waits.
LEMMA StepChain ==
  ASSUME IInv,
         \/ \E e \in Epochs : \E chosen \in SUBSET Orders : Seal(e, chosen)
         \/ \E o \in Orders : Cancel(o)
         \/ ChangeSafe \/ Tick
  PROVE  IInv'
<1>1. TypeOK' /\ PageOK'
  BY TypeChain DEF IInv
\* No order appears, none becomes unauthorised again, and the pages only learn of a race.
<1> DEFINE Outside ==
      /\ UNCHANGED <<nextNonce, header, queue, pc, run, draft, unsettled>>
      /\ \A o \in Orders : \/ status'[o] = status[o]
                           \/ status'[o] \in {"Sealed", "Cancelled"} /\ status[o] # "None"
      /\ \/ \A p \in Pages : raced'[p] = (raced[p] \/ pc[p] = "activating")
         \/ raced' = raced /\ status' = status /\ gate' = gate
<1>2. Outside
  <2>1. ASSUME NEW e \in Epochs, NEW chosen \in SUBSET Orders, Seal(e, chosen) PROVE Outside
    BY <2>1 DEF Seal, Disturb
  <2>2. ASSUME NEW o \in Orders, Cancel(o) PROVE Outside
    BY <2>2 DEF Cancel, Disturb, IInv, TypeOK
  <2>3. CASE ChangeSafe
    BY <2>3 DEF ChangeSafe, Disturb
  <2>4. CASE Tick
    BY <2>4 DEF Tick, chainVars
  <2> QED BY <2>1, <2>2, <2>3, <2>4
<1>3. /\ \A p \in Pages : Order(p)' = Order(p) /\ (raced[p] => raced'[p])
      /\ \A p \in Pages : run[p] \in 1 .. MaxRuns => Order(p) \in Orders
      /\ \A o \in Orders : o[1] \in Pages
  BY <1>2, OrderType DEF IInv, Order, Orders
<1>4. NumberedInOrder'
  <2>1. \A v \in Wallets : OnBook(v)' = OnBook(v)
    BY <1>2 DEF OnBook
  <2> QED BY <1>2, <2>1 DEF IInv, NumberedInOrder
<1>5. EstimateHolds'
  BY <1>2, <1>3 DEF IInv, EstimateHolds, CanActivate, Signature, Digest
<1>6. DoneUnlessRaced'
  BY <1>2, <1>3 DEF IInv, DoneUnlessRaced, PageOK
<1>7. \A o \in Orders : Explained(o) => Explained(o)'
  BY <1>2, <1>3 DEF Explained
<1>8. OrphansAreExplained'
  BY <1>2, <1>7 DEF IInv, OrphansAreExplained, Explained
<1>9. QueueOK'
  <2> SUFFICES ASSUME NEW v \in Wallets, NEW u \in InFlight(v), TransactionOK(v, u),
                      u \in Transaction
               PROVE  TransactionOK(v, u)'
    <3>1. \A v \in Wallets : InFlight(v)' = InFlight(v) /\ InFlight(v) \subseteq Transaction
      BY <1>2 DEF InFlight, IInv, TypeOK
    <3> QED BY <3>1 DEF IInv, QueueOK
  <2>1. u.order \in Orders /\ u.page \in Pages
    BY DEF Transaction
  <2> QED BY <1>2, <1>3, <1>7, <2>1 DEF TransactionOK
<1> QED BY <1>1, <1>4, <1>5, <1>6, <1>8, <1>9 DEF IInv

-----------------------------------------------------------------------------
(* The theorems. *)

\* The invariant is one.
LEMMA Inductive == Spec => []IInv
<1>1. Init => IInv
  <2> SUFFICES ASSUME Init PROVE IInv
    OBVIOUS
  <2>1. \A w \in Wallets : InFlight(w) = {} /\ OnBook(w) = {} /\ nextNonce[w] = 0
    BY DEF Init, InFlight, OnBook
  <2>2. NumberedInOrder
    BY <2>1 DEF NumberedInOrder
  <2> QED BY <2>1, <2>2, TypeInit DEF Init, IInv, QueueOK, EstimateHolds, DoneUnlessRaced,
                                     OrphansAreExplained
<1>2. IInv /\ [Next]_vars => IInv'
  <2> SUFFICES ASSUME IInv, [Next]_vars PROVE IInv'
    OBVIOUS
  <2>1. CASE \E p \in Pages : Run(p) \/ PageStep(p) \/ GiveUp(p)
    BY <2>1, StepPage
  <2>2. CASE \E w \in Wallets : Mine(w)
    BY <2>2, StepMine
  <2>3. CASE \/ \E e \in Epochs : \E chosen \in SUBSET Orders : Seal(e, chosen)
             \/ \E o \in Orders : Cancel(o)
             \/ ChangeSafe \/ Tick
    BY <2>3, StepChain
  <2>4. CASE UNCHANGED vars
    <3> USE <2>4 DEF vars, chainVars
    <3>1. TypeOK' /\ PageOK'
      BY DEF IInv, TypeOK, PageOK
    <3>2. QueueOK'
      BY DEF IInv, QueueOK, InFlight, TransactionOK, Explained, Order
    <3>3. EstimateHolds'
      BY DEF IInv, EstimateHolds, CanActivate, Signature, Digest, Order
    <3>4. NumberedInOrder'
      BY DEF IInv, NumberedInOrder, OnBook
    <3>5. DoneUnlessRaced' /\ OrphansAreExplained'
      BY DEF IInv, DoneUnlessRaced, OrphansAreExplained, Order
    <3> QED BY <3>1, <3>2, <3>3, <3>4, <3>5 DEF IInv
  <2> QED BY <2>1, <2>2, <2>3, <2>4 DEF Next
<1> QED BY <1>1, <1>2, PTL DEF Spec

\* Type correctness of the pages, the queues and the chain they share.
THEOREM DeskTypeCorrect == Spec => []TypeOK
<1>1. IInv => TypeOK
  BY DEF IInv
<1> QED BY <1>1, Inductive, PTL

\* However many pages of an owner read the same nonce, and whatever order their
\* submissions are mined in, the book holds each nonce below the next one once.
THEOREM DeskNoncesAreSequential == Spec => []NoncesAreSequential
<1>1. IInv => NoncesAreSequential
  BY DEF IInv, NoncesAreSequential
<1> QED BY <1>1, Inductive, PTL

\* A page that reports success without reading the receipt's status is right
\* unless somebody else moved the chain between its estimate and the block.
THEOREM DeskDoneUnlessRaced == Spec => []DoneUnlessRaced
<1>1. IInv => DoneUnlessRaced
  BY DEF IInv
<1> QED BY <1>1, Inductive, PTL

\* An order left without its activation belongs to a run under way, to one that
\* ended in an error the page showed, or to one whose report was raced.
THEOREM DeskOrphansAreExplained == Spec => []OrphansAreExplained
<1>1. IInv => OrphansAreExplained
  BY DEF IInv
<1> QED BY <1>1, Inductive, PTL
=============================================================================
