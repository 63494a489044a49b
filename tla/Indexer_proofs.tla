----------------------------- MODULE Indexer_proofs -----------------------------
(***************************************************************************)
(* Proofs about the indexer for every value of its constants: any kinds,   *)
(* any number of ticks at once, any window, limit and length of the store. *)
(***************************************************************************)
EXTENDS IndexerSafety, FiniteSetTheorems, TLAPS

-----------------------------------------------------------------------------
(* How many copies a bag holds. *)

Copies(bag, S) == UNION {{e} \X (1 .. bag[e]) : e \in S}

\* The copies of an element are numbered.
LEMMA CopyOf ==
  ASSUME NEW bag, NEW S, NEW x
  PROVE  x \in Copies(bag, S) <=> \E e \in S : \E i \in 1 .. bag[e] : x = <<e, i>>
BY DEF Copies

\* A finite bag has finitely many copies.
LEMMA CopiesFinite ==
  ASSUME NEW bag, NEW S, IsFiniteSet(S), \A e \in S : bag[e] \in Nat
  PROVE  IsFiniteSet(Copies(bag, S)) /\ Total(bag, S) \in Nat /\ Total(bag, S) = Cardinality(Copies(bag, S))
<1> DEFINE T == {{e} \X (1 .. bag[e]) : e \in S}
           f == [e \in S |-> {e} \X (1 .. bag[e])]
<1>1. f \in Surjection(S, T)
  BY DEF Surjection
<1>2. IsFiniteSet(T)
  <2> HIDE DEF T, f
  <2> QED BY <1>1, FS_Surjection
<1>3. \A t \in T : IsFiniteSet(t)
  <2>1. ASSUME NEW e \in S PROVE IsFiniteSet({e} \X (1 .. bag[e]))
    <3>1. IsFiniteSet({e}) /\ IsFiniteSet(1 .. bag[e])
      <4>1. bag[e] \in Int /\ 1 \in Int
        OBVIOUS
      <4>2. IsFiniteSet(1 .. bag[e])
        BY <4>1, FS_Interval
      <4> QED BY <4>2, FS_Singleton
    <3> QED BY <3>1, FS_Product
  <2> QED BY <2>1
<1>4. IsFiniteSet(UNION T)
  <2> HIDE DEF T
  <2> QED BY <1>2, <1>3, FS_UNION
<1> QED BY <1>4, FS_CardinalityType DEF Copies, Total

\* A bag with more of everything, over more, has more copies.
LEMMA TotalMono ==
  ASSUME NEW bag, NEW more, NEW S, NEW T, IsFiniteSet(T), S \subseteq T,
         \A e \in S : bag[e] \in Nat /\ bag[e] <= more[e], \A e \in T : more[e] \in Nat
  PROVE  Total(bag, S) <= Total(more, T) /\ Total(bag, S) \in Nat /\ Total(more, T) \in Nat
<1>1. IsFiniteSet(S)
  BY FS_Subset
<1>2. Copies(bag, S) \subseteq Copies(more, T)
  <2>1. ASSUME NEW x \in Copies(bag, S) PROVE x \in Copies(more, T)
    <3>1. PICK e \in S : \E i \in 1 .. bag[e] : x = <<e, i>>
      BY CopyOf
    <3>2. 1 .. bag[e] \subseteq 1 .. more[e] /\ e \in T
      OBVIOUS
    <3> QED BY <3>1, <3>2, CopyOf
  <2> QED BY <2>1
<1> QED BY <1>1, <1>2, CopiesFinite, FS_Subset

\* Bags that agree have as many copies.
LEMMA TotalSame ==
  ASSUME NEW bag, NEW other, NEW S, IsFiniteSet(S), \A e \in S : bag[e] \in Nat /\ bag[e] = other[e]
  PROVE  Total(bag, S) = Total(other, S)
<1>1. Total(bag, S) <= Total(other, S) /\ Total(other, S) <= Total(bag, S)
  BY TotalMono
<1>2. Total(bag, S) \in Nat /\ Total(other, S) \in Nat
  BY CopiesFinite
<1> QED BY <1>1, <1>2

\* The copies over two disjoint sets.
LEMMA TotalSplit ==
  ASSUME NEW bag, NEW S, NEW T, IsFiniteSet(S), IsFiniteSet(T), S \cap T = {},
         \A e \in S \cup T : bag[e] \in Nat
  PROVE  Total(bag, S \cup T) = Total(bag, S) + Total(bag, T)
<1>1. IsFiniteSet(Copies(bag, S)) /\ IsFiniteSet(Copies(bag, T)) /\ IsFiniteSet(S \cup T)
  BY CopiesFinite, FS_Union
<1>2. Copies(bag, S \cup T) = Copies(bag, S) \cup Copies(bag, T)
  BY DEF Copies
<1>3. Copies(bag, S) \cap Copies(bag, T) = {}
  BY CopyOf
<1>4. Cardinality(Copies(bag, S) \cap Copies(bag, T)) = 0
  BY <1>3, FS_EmptySet
<1>5. /\ Cardinality(Copies(bag, S) \cup Copies(bag, T)) =
           Cardinality(Copies(bag, S)) + Cardinality(Copies(bag, T)) - 0
  BY <1>1, <1>4, FS_Union
<1>6. /\ Total(bag, S) = Cardinality(Copies(bag, S)) /\ Total(bag, T) = Cardinality(Copies(bag, T))
      /\ Total(bag, S \cup T) = Cardinality(Copies(bag, S \cup T))
  BY DEF Total, Copies
<1>7. Total(bag, S) \in Nat /\ Total(bag, T) \in Nat
  BY CopiesFinite
<1>8. Cardinality(Copies(bag, S \cup T)) = Total(bag, S) + Total(bag, T) - 0
  BY <1>2, <1>5, <1>6
<1> QED BY <1>6, <1>7, <1>8

\* The events are finitely many, and so are those from a block on.
LEMMA EventsFinite ==
  /\ IsFiniteSet(KindSet) /\ IsFiniteSet(Events)
  /\ \A S \in SUBSET Events : IsFiniteSet(S)
<1>1. Len(Kinds) \in Nat /\ DOMAIN Kinds = 1 .. Len(Kinds)
  BY IndexerAssumption DEF IndexerAssumption
<1>2. IsFiniteSet(DOMAIN Kinds)
  BY <1>1, FS_Interval
<1>3. [i \in DOMAIN Kinds |-> Kinds[i]] \in Surjection(DOMAIN Kinds, KindSet)
  BY DEF Surjection, KindSet
<1>4. IsFiniteSet(KindSet)
  BY <1>2, <1>3, FS_Surjection
<1>5. IsFiniteSet(Blocks)
  <2>1. 1 \in Int /\ MaxBlock \in Int
    BY IndexerAssumption DEF IndexerAssumption
  <2> QED BY <2>1, FS_Interval DEF Blocks
<1>6. IsFiniteSet(Events)
  BY <1>4, <1>5, FS_Product DEF Events
<1> QED BY <1>4, <1>6, FS_Subset

\* The copies of one block, counted by kind.
LEMMA BlockTotal ==
  ASSUME NEW part, NEW bag, NEW b \in Blocks, \A k \in KindSet : part[k] \in Nat,
         \A k \in KindSet : bag[<<b, k>>] = part[k]
  PROVE  Total(part, KindSet) <= Total(bag, {b} \X KindSet)
<1> DEFINE f == [x \in Copies(part, KindSet) |-> <<<<b, x[1]>>, x[2]>>]
<1>1. \A x \in Copies(part, KindSet) : \E k \in KindSet : \E i \in 1 .. part[k] : x = <<k, i>>
  BY CopyOf
<1>2. f \in [Copies(part, KindSet) -> Copies(bag, {b} \X KindSet)]
  <2>1. ASSUME NEW x \in Copies(part, KindSet) PROVE <<<<b, x[1]>>, x[2]>> \in Copies(bag, {b} \X KindSet)
    <3>1. PICK k \in KindSet : \E i \in 1 .. part[k] : x = <<k, i>>
      BY <1>1
    <3>2. <<b, k>> \in {b} \X KindSet /\ \E i \in 1 .. bag[<<b, k>>] : <<<<b, x[1]>>, x[2]>> = <<<<b, k>>, i>>
      BY <3>1
    <3> QED BY <3>2, CopyOf
  <2> QED BY <2>1
<1>3. f \in Injection(Copies(part, KindSet), Copies(bag, {b} \X KindSet))
  <2>1. ASSUME NEW x \in Copies(part, KindSet), NEW y \in Copies(part, KindSet), f[x] = f[y] PROVE x = y
    <3>1. <<b, x[1]>> = <<b, y[1]>> /\ x[2] = y[2]
      BY <2>1
    <3>2. x[1] = y[1]
      BY <3>1
    <3> QED BY <1>1, <3>1, <3>2
  <2> HIDE DEF f
  <2> QED BY <1>2, <2>1 DEF Injection, IsInjective
<1>4. {b} \X KindSet \subseteq Events
  BY DEF Events
<1>5. /\ IsFiniteSet(Copies(bag, {b} \X KindSet))
      /\ Total(bag, {b} \X KindSet) = Cardinality(Copies(bag, {b} \X KindSet))
  <2>1. \A e \in {b} \X KindSet : bag[e] \in Nat
    OBVIOUS
  <2> QED BY <1>4, <2>1, EventsFinite, CopiesFinite
<1>6. Total(part, KindSet) = Cardinality(Copies(part, KindSet))
  BY DEF Total, Copies
<1> HIDE DEF f
<1> QED BY <1>3, <1>5, <1>6, FS_Injection

\* From a block on: that block, and from the next on.
LEMMA FromSplit ==
  ASSUME NEW b \in Blocks
  PROVE  /\ From(b) = From(b + 1) \cup ({b} \X KindSet) /\ From(b + 1) \cap ({b} \X KindSet) = {}
         /\ From(b + 1) \subseteq Events /\ {b} \X KindSet \subseteq Events
BY DEF From, Events, Blocks

\* There are more copies from an earlier block on.
LEMMA FromMono ==
  ASSUME NEW bag \in [Events -> Nat], NEW b \in Nat, NEW c \in Nat, c <= b
  PROVE  Total(bag, From(b)) <= Total(bag, From(c)) /\ Total(bag, From(b)) \in Nat
<1>1. From(b) \subseteq From(c) /\ IsFiniteSet(From(c)) /\ \A e \in From(c) : bag[e] \in Nat
  BY EventsFinite DEF From, Events, Blocks
<1> QED BY <1>1, TotalMono

\* What a trim keeps: no event gains a copy, and an event loses its last one, or
\* a block its Keep newer ones, only to Keep copies of events as new.
LEMMA TrimKeepsNewest ==
  ASSUME NEW bag \in [Events -> Nat], NEW left \in Trimmed(bag)
  PROVE  /\ left \in [Events -> Nat]
         /\ \A e \in Events : left[e] <= bag[e]
         /\ \A e \in Events : left[e] = bag[e] \/ Total(left, From(e[1])) >= Keep
         /\ \A c \in Blocks : Total(bag, From(c)) >= Keep => Total(left, From(c)) >= Keep
<1>0. Keep \in Nat
  BY IndexerAssumption DEF IndexerAssumption
<1>1. CASE Total(bag, Events) <= Keep
  <2>1. left = bag
    BY <1>1 DEF Trimmed
  <2> QED BY <2>1
<1>2. CASE ~(Total(bag, Events) <= Keep)
  <2>1. PICK b \in Blocks : /\ Total(bag, From(b)) > Keep /\ Total(bag, From(b + 1)) <= Keep
                            /\ left \in Cut(bag, b, Keep - Total(bag, From(b + 1)))
    BY <1>2 DEF Trimmed
  <2> DEFINE room == Keep - Total(bag, From(b + 1))
  <2>2. room \in Nat /\ Total(bag, From(b + 1)) \in Nat
    <3>1. Total(bag, From(b + 1)) \in Nat
      BY FromMono DEF Blocks
    <3> QED BY <1>0, <2>1, <3>1
  <2>3. PICK part \in [KindSet -> 0 .. room] :
           /\ \A k \in KindSet : part[k] <= bag[<<b, k>>]
           /\ Total(part, KindSet) = room
           /\ left = [e \in Events |-> IF e[1] > b THEN bag[e] ELSE IF e[1] < b THEN 0 ELSE part[e[2]]]
    BY <2>1 DEF Cut
  <2>4. \A e \in Events : /\ e[1] \in Nat /\ e[2] \in KindSet /\ e[1] \in Blocks
                          /\ e[1] = b => e = <<b, e[2]>>
    BY DEF Events, Blocks
  <2>5. \A k \in KindSet : part[k] \in Nat /\ part[k] <= bag[<<b, k>>] /\ left[<<b, k>>] = part[k]
    BY <2>2, <2>3 DEF Events, Blocks
  <2>6. left \in [Events -> Nat] /\ \A e \in Events : left[e] <= bag[e]
    <3>1. ASSUME NEW e \in Events PROVE left[e] \in Nat /\ left[e] <= bag[e]
      <4>1. e[1] \in Nat /\ b \in Nat /\ bag[e] \in Nat
        BY <2>4 DEF Blocks
      <4>2. CASE e[1] = b
        BY <2>4, <2>5, <4>2
      <4>3. CASE e[1] > b
        BY <2>3, <4>1, <4>3
      <4>4. CASE e[1] < b
        <5>1. left[e] = 0
          BY <2>3, <4>1, <4>4
        <5> QED BY <4>1, <5>1
      <4> QED BY <4>1, <4>2, <4>3, <4>4
    <3> QED BY <2>3, <3>1
  <2>7. Total(left, From(b)) >= Keep
    <3>1. Total(left, From(b + 1)) = Total(bag, From(b + 1))
      <4>1. \A e \in From(b + 1) : e \in Events /\ bag[e] = left[e] /\ bag[e] \in Nat
        BY <2>3, <2>4 DEF From, Blocks
      <4> QED BY <4>1, TotalSame, EventsFinite DEF From
    <3>2. Total(part, KindSet) <= Total(left, {b} \X KindSet)
      BY <2>5, BlockTotal
    <3>3. Total(left, From(b)) = Total(left, From(b + 1)) + Total(left, {b} \X KindSet)
      BY <2>6, FromSplit, TotalSplit, EventsFinite
    <3>4. Total(left, {b} \X KindSet) \in Nat
      BY <2>6, FromSplit, EventsFinite, CopiesFinite
    <3> QED BY <1>0, <2>2, <2>3, <3>1, <3>2, <3>3, <3>4
  <2>8. \A c \in Blocks : c <= b => Total(left, From(c)) >= Keep
    <3>1. ASSUME NEW c \in Blocks, c <= b PROVE Total(left, From(c)) >= Keep
      <4>1. Total(left, From(b)) <= Total(left, From(c)) /\ Total(left, From(b)) \in Nat
        BY <2>6, <3>1, FromMono DEF Blocks
      <4>2. Total(left, From(c)) \in Nat
        BY <2>6, FromMono DEF Blocks
      <4> QED BY <1>0, <2>7, <4>1, <4>2
    <3> QED BY <3>1
  <2>9. \A c \in Blocks : c > b => Total(left, From(c)) = Total(bag, From(c))
    <3>1. ASSUME NEW c \in Blocks, c > b PROVE Total(left, From(c)) = Total(bag, From(c))
      <4>1. \A e \in From(c) : e \in Events /\ bag[e] = left[e] /\ bag[e] \in Nat
        BY <2>3, <2>4, <3>1 DEF From, Blocks
      <4> QED BY <4>1, TotalSame, EventsFinite DEF From
    <3> QED BY <3>1
  <2>10. \A e \in Events : left[e] = bag[e] \/ Total(left, From(e[1])) >= Keep
    <3>1. ASSUME NEW e \in Events, e[1] > b PROVE left[e] = bag[e]
      BY <2>3, <3>1
    <3>2. ASSUME NEW e \in Events, ~(e[1] > b) PROVE Total(left, From(e[1])) >= Keep
      <4>1. e[1] <= b /\ e[1] \in Blocks
        BY <2>4, <3>2 DEF Blocks
      <4> QED BY <2>8, <4>1
    <3> QED BY <3>1, <3>2
  <2>11. \A c \in Blocks : Total(bag, From(c)) >= Keep => Total(left, From(c)) >= Keep
    <3>1. ASSUME NEW c \in Blocks, Total(bag, From(c)) >= Keep PROVE Total(left, From(c)) >= Keep
      <4>1. CASE c > b
        BY <2>9, <3>1, <4>1
      <4>2. CASE c <= b
        BY <2>8, <4>2
      <4> QED BY <4>1, <4>2 DEF Blocks
    <3> QED BY <3>1
  <2> QED BY <2>6, <2>10, <2>11
<1> QED BY <1>1, <1>2

-----------------------------------------------------------------------------
(* Type correctness. *)

\* The community module's minimum and maximum, of two naturals.
LEMMA MinOfTwo ==
  ASSUME NEW a \in Nat, NEW b \in Nat
  PROVE  Min({a, b}) \in {a, b} /\ Min({a, b}) <= a /\ Min({a, b}) <= b
<1> DEFINE P(x) == x \in {a, b} /\ \A y \in {a, b} : x <= y
<1>1. \E x : P(x)
  <2>1. CASE a <= b
    <3>1. P(a) BY <2>1
    <3> QED BY <3>1
  <2>2. CASE b <= a
    <3>1. P(b) BY <2>2
    <3> QED BY <3>1
  <2> QED BY <2>1, <2>2
<1>2. P(Min({a, b}))
  BY <1>1 DEF Min
<1> QED BY <1>2

LEMMA MaxOfTwo ==
  ASSUME NEW a \in Nat, NEW b \in Nat
  PROVE  Max({a, b}) \in {a, b} /\ Max({a, b}) >= a /\ Max({a, b}) >= b
<1> DEFINE P(x) == x \in {a, b} /\ \A y \in {a, b} : x >= y
<1>1. \E x : P(x)
  <2>1. CASE a >= b
    <3>1. P(a) BY <2>1
    <3> QED BY <3>1
  <2>2. CASE b >= a
    <3>1. P(b) BY <2>2
    <3> QED BY <3>1
  <2> QED BY <2>1, <2>2
<1>2. P(Max({a, b}))
  BY <1>1 DEF Max
<1> QED BY <1>2

\* The numbers that the constants are.
LEMMA Bounds ==
  /\ Start \in Nat /\ MaxBlock \in Nat /\ MaxMishaps \in Nat
  /\ StartRange \in Nat \ {0} /\ Limit \in Nat \ {0} /\ Keep \in Nat \ {0}
BY IndexerAssumption DEF IndexerAssumption

LEMMA KindsListed == DOMAIN Kinds = 1 .. Len(Kinds) /\ Len(Kinds) \in Nat \ {0} /\ 1 \in DOMAIN Kinds
BY IndexerAssumption DEF IndexerAssumption

\* What a window is: it begins after the cursor and ends at the head or before.
LEMMA WindowIs ==
  ASSUME NEW h \in Nat, NEW c \in Nat, c < h, h <= MaxBlock, range \in Nat \ {0}
  PROVE  /\ Window(h, c) \in Task
         /\ Window(h, c).pc = "logs" /\ Window(h, c).head = h /\ Window(h, c).cursor = c
         /\ Window(h, c).kind = 1 /\ Window(h, c).inner = Window(h, c).to
         /\ c < Window(h, c).to /\ Window(h, c).to <= h
<1> DEFINE to == Min({c + range, h})
<1>1. to \in Nat /\ c < to /\ to <= h
  BY MinOfTwo, c + range \in Nat
<1>2. Window(h, c) = [pc |-> "logs", head |-> h, cursor |-> c, to |-> to, inner |-> to, kind |-> 1]
  BY DEF Window
<1>3. 1 \in DOMAIN Kinds
  BY KindsListed
<1> HIDE DEF to
<1> QED BY <1>1, <1>2, <1>3, Bounds DEF Task

\* What the type invariant says of one tick.
TickOK(k) ==
  /\ k \in Task
  /\ k.pc = "logs" => /\ k.cursor < k.inner /\ k.inner <= k.to
                      /\ k.to <= k.head /\ k.head <= head

\* A tick at rest is well typed.
LEMMA IdleOK == TickOK(Idle)
<1>1. 1 \in DOMAIN Kinds /\ MaxBlock \in Nat
  BY Bounds, KindsListed
<1> QED BY <1>1 DEF TickOK, Idle, Task

\* One tick moves, the rest of the types is given.
LEMMA TickKeepsTypes ==
  ASSUME TypeOK, NEW t \in Ticks, head' = head, log' = log, last' \in 0 .. head,
         caughtUp' \in BOOLEAN, polling' \in BOOLEAN, stored' \in [Events -> Nat], range' \in Nat \ {0},
         task' = [task EXCEPT ![t] = task'[t]], TickOK(task'[t]),
         mishaps' \in [{"failed", "throttled", "overlapped"} -> Nat], skipped' \subseteq Events
  PROVE  TypeOK'
<1>1. \A u \in Ticks : TickOK(task'[u])
  BY DEF TypeOK, TickOK
<1>2. task' \in [Ticks -> Task]
  BY <1>1 DEF TypeOK, TickOK
<1> QED BY <1>1, <1>2 DEF TypeOK, TickOK

\* A mishap adds one to its own count.
LEMMA MishapTyped ==
  ASSUME TypeOK, NEW what \in {"failed", "throttled", "overlapped"}, Mishap(what)
  PROVE  /\ mishaps' \in [{"failed", "throttled", "overlapped"} -> Nat]
         /\ mishaps'[what] = mishaps[what] + 1
         /\ \A w \in {"failed", "throttled", "overlapped"} \ {what} : mishaps'[w] = mishaps[w]
BY DEF TypeOK, Mishap

\* The types after each action of a tick, and what the action makes of the tick.
LEMMA StartTickTypes ==
  ASSUME TypeOK, NEW t \in Ticks, StartTick(t)
  PROVE  /\ TypeOK' /\ task' = [task EXCEPT ![t] = task'[t]] /\ task'[t].pc = "head" /\ task[t].pc = "idle"
<1>1. /\ task' = [task EXCEPT ![t].pc = "head"]
      /\ UNCHANGED <<head, log, last, caughtUp, stored, range, polling, skipped>>
      /\ UNCHANGED mishaps \/ Mishap("overlapped")
      /\ task[t].pc = "idle"
  BY DEF StartTick, stateVars, Idle
<1>2. task'[t] = [task[t] EXCEPT !.pc = "head"] /\ task[t] \in Task
  BY <1>1 DEF TypeOK
<1>3. task'[t].pc = "head" /\ TickOK(task'[t])
  BY <1>2 DEF TickOK, Task
<1>4. task' = [task EXCEPT ![t] = task'[t]]
  BY <1>1 DEF TypeOK
<1>5. mishaps' \in [{"failed", "throttled", "overlapped"} -> Nat]
  BY <1>1, MishapTyped DEF TypeOK
<1> QED BY <1>1, <1>3, <1>4, <1>5, TickKeepsTypes DEF TypeOK

LEMMA FailTickTypes ==
  ASSUME TypeOK, NEW t \in Ticks, FailTick(t)
  PROVE  TypeOK' /\ task' = [task EXCEPT ![t] = task'[t]] /\ task'[t] = Idle
<1>1. /\ task' = [task EXCEPT ![t] = Idle] /\ polling' = TRUE
      /\ UNCHANGED <<head, log, last, caughtUp, stored, range, skipped>>
      /\ Mishap("failed")
  BY DEF FailTick, stateVars
<1>2. task'[t] = Idle /\ task' = [task EXCEPT ![t] = task'[t]]
  BY <1>1 DEF TypeOK
<1>3. mishaps' \in [{"failed", "throttled", "overlapped"} -> Nat]
  BY <1>1, MishapTyped
<1> QED BY <1>1, <1>2, <1>3, IdleOK, TickKeepsTypes DEF TypeOK

\* A tick that reads the head starts at the cursor or ends.
LEMMA ReadHeadTypes ==
  ASSUME TypeOK, NEW t \in Ticks, ReadHead(t)
  PROVE  /\ TypeOK' /\ task' = [task EXCEPT ![t] = task'[t]]
         /\ task'[t] = Idle \/ (task'[t] = Window(head, Cursor) /\ Cursor \in Nat /\ Cursor < head)
<1>1. /\ task'[t] = Idle \/ (task'[t] = Window(head, Cursor) /\ Cursor < head)
      /\ task' = [task EXCEPT ![t] = task'[t]]
      /\ UNCHANGED <<head, log, last, stored, range, mishaps, skipped>>
      /\ caughtUp' \in BOOLEAN /\ polling' \in BOOLEAN
  BY DEF ReadHead, TypeOK
<1>2. Cursor \in Nat /\ head \in Nat /\ head <= MaxBlock /\ range \in Nat \ {0}
  BY Bounds DEF TypeOK, Blocks, Cursor
<1>3. TickOK(task'[t])
  <2>1. CASE task'[t] = Idle
    BY <2>1, IdleOK
  <2>2. CASE task'[t] = Window(head, Cursor) /\ Cursor < head
    <3> DEFINE w == Window(head, Cursor)
    <3>1. /\ w \in Task /\ w.head = head /\ w.cursor < w.inner /\ w.inner = w.to
          /\ w.to \in Nat /\ w.to <= w.head
      <4>1. w \in Task /\ w.head = head /\ w.cursor < w.inner /\ w.inner = w.to
        BY <1>2, <2>2, WindowIs
      <4>2. w.to \in Nat /\ w.to <= w.head
        BY <1>2, <2>2, WindowIs, Bounds DEF Task
      <4> QED BY <4>1, <4>2
    <3> HIDE DEF w
    <3>2. TickOK(w)
      BY <1>2, <3>1 DEF TickOK
    <3> QED BY <2>2, <3>2 DEF w
  <2> QED BY <1>1, <2>1, <2>2
<1> QED BY <1>1, <1>2, <1>3, TickKeepsTypes DEF TypeOK

\* Narrowing moves the end of the request and leaves the end of the window.
LEMMA NarrowTypes ==
  ASSUME TypeOK, NEW t \in Ticks, task[t].pc = "logs", Width(t) > 1, Narrow(t),
         mishaps' \in [{"failed", "throttled", "overlapped"} -> Nat]
  PROVE  /\ TypeOK' /\ task' = [task EXCEPT ![t] = task'[t]]
         /\ \E n \in Nat : task'[t] = [task[t] EXCEPT !.inner = n]
<1>1. /\ task' = [task EXCEPT ![t].inner = task[t].cursor + range']
      /\ range' = Max({1, Width(t) \div 2})
      /\ UNCHANGED <<head, log, last, caughtUp, stored, polling, skipped>>
  BY DEF Narrow
<1>2. TickOK(task[t])
  BY DEF TypeOK, TickOK
<1>3. /\ task[t].cursor \in Nat /\ task[t].inner \in Nat /\ task[t].to \in Nat
      /\ task[t].inner <= task[t].to /\ task[t].to <= MaxBlock
  BY <1>2, Bounds DEF TickOK, Task
<1>4. range' \in Nat \ {0} /\ task[t].cursor + range' <= task[t].inner
  <2> DEFINE w == Width(t)
  <2>1. w \in Nat /\ w = task[t].inner - task[t].cursor
    BY <1>3 DEF Width
  <2>2. w \div 2 \in Nat /\ w \div 2 <= w
    BY <2>1
  <2>3. range' \in {1, w \div 2} /\ range' >= 1
    BY <1>1, <2>2, MaxOfTwo
  <2> HIDE DEF w
  <2> QED BY <1>3, <2>1, <2>2, <2>3 DEF w
<1>5. task'[t] = [task[t] EXCEPT !.inner = task[t].cursor + range'] /\ task' = [task EXCEPT ![t] = task'[t]]
  BY <1>1 DEF TypeOK
<1>6. TickOK(task'[t])
  <2> DEFINE n == task[t].cursor + range'
             k == [task[t] EXCEPT !.inner = n]
  <2>1. n \in 0 .. MaxBlock /\ task[t].cursor < n /\ n <= task[t].to
    <3>1. MaxBlock \in Nat
      BY Bounds
    <3>2. ASSUME NEW c \in Nat, NEW r \in Nat \ {0}, NEW i \in Nat, NEW o \in Nat, NEW m \in Nat,
                 c + r <= i, i <= o, o <= m
          PROVE  c + r \in 0 .. m /\ c < c + r /\ c + r <= o
      BY <3>2
    <3> QED BY <1>3, <1>4, <3>1, <3>2
  <2> HIDE DEF n
  <2>2. task[t] \in Task
    BY <1>2 DEF TickOK
  <2>3. /\ k \in Task /\ k.pc = task[t].pc /\ k.cursor = task[t].cursor /\ k.inner = n
        /\ k.to = task[t].to /\ k.head = task[t].head
    BY <2>1, <2>2 DEF Task
  <2> HIDE DEF k
  <2>4. TickOK(k)
    BY <1>2, <2>1, <2>3 DEF TickOK
  <2> QED BY <1>5, <2>4 DEF n, k
<1>7. task[t].cursor + range' \in Nat
  BY <1>3, <1>4
<1> QED BY <1>1, <1>4, <1>5, <1>6, <1>7, TickKeepsTypes DEF TypeOK

\* The ends of the request and of the window of a tick that reads.
LEMMA ReadingTick ==
  ASSUME TypeOK, NEW t \in Ticks, task[t].pc = "logs"
  PROVE  /\ task[t] \in Task /\ task[t].kind \in DOMAIN Kinds
         /\ task[t].cursor \in Nat /\ task[t].inner \in Nat /\ task[t].to \in Nat /\ task[t].head \in Nat
         /\ task[t].cursor < task[t].inner /\ task[t].inner <= task[t].to
         /\ task[t].to <= task[t].head /\ task[t].head <= head /\ head <= MaxBlock /\ head \in Nat
BY Bounds DEF TypeOK, Task, Blocks

\* What a request pushes is in the store, once more.
LEMMA PushedIs ==
  ASSUME TypeOK, NEW t \in Ticks
  PROVE  /\ Pushed(t) \in [Events -> Nat]
         /\ \A e \in Events : Pushed(t)[e] = stored[e] \/
              (/\ Pushed(t)[e] = stored[e] + 1
               /\ e[2] = Kinds[task[t].kind] /\ task[t].cursor < e[1] /\ e[1] <= task[t].inner)
         /\ \A e \in Emitted : e[2] = Kinds[task[t].kind] /\ task[t].cursor < e[1] /\ e[1] <= task[t].inner
              => Pushed(t)[e] = stored[e] + 1
<1>1. stored \in [Events -> Nat] /\ task[t].cursor \in Nat /\ task[t].inner \in Nat
      /\ \A e \in Events : e[1] \in Nat
  <2>1. task[t] \in Task /\ stored \in [Events -> Nat]
    BY DEF TypeOK
  <2>2. task[t].cursor \in Nat /\ task[t].inner \in Nat
    BY <2>1, Bounds DEF Task
  <2>3. \A e \in Events : e[1] \in Nat
    BY Bounds DEF Events, Blocks
  <2> QED BY <2>1, <2>2, <2>3
<1> DEFINE c == task[t].cursor
           i == task[t].inner
           k == Kinds[task[t].kind]
<1>2. Pushed(t) = [e \in Events |->
         IF e[2] = k /\ e[2] \in log[e[1]] /\ e[1] \in c + 1 .. i THEN stored[e] + 1 ELSE stored[e]]
  BY DEF Pushed
<1>3. \A e \in Events : e[1] \in c + 1 .. i <=> (c < e[1] /\ e[1] <= i)
  BY <1>1
<1> HIDE DEF c, i, k
<1>4. Pushed(t) \in [Events -> Nat]
  BY <1>1, <1>2
<1>5. \A e \in Events : Pushed(t)[e] = stored[e] \/
         (Pushed(t)[e] = stored[e] + 1 /\ e[2] = k /\ c < e[1] /\ e[1] <= i)
  BY <1>2, <1>3
<1>6. \A e \in Emitted : e[2] = k /\ c < e[1] /\ e[1] <= i => Pushed(t)[e] = stored[e] + 1
  BY <1>2, <1>3 DEF Emitted
<1> QED BY <1>4, <1>5, <1>6 DEF c, i, k

\* What a narrowed request leaves out, of the kind it asked for.
LEMMA LeftOutIs ==
  ASSUME TypeOK, NEW t \in Ticks, task[t].pc = "logs"
  PROVE  LeftOut(t) = {e \in Events : /\ task[t].inner < e[1] /\ e[1] <= task[t].to
                                      /\ e[2] = Kinds[task[t].kind]}
<1>1. /\ task[t].inner \in Nat /\ task[t].to \in Nat /\ task[t].to <= MaxBlock /\ MaxBlock \in Nat
      /\ task[t].kind \in DOMAIN Kinds
  BY ReadingTick, Bounds
<1>2. Kinds[task[t].kind] \in KindSet
  BY <1>1 DEF KindSet
<1>3. task[t].inner + 1 .. task[t].to = {b \in Blocks : task[t].inner < b /\ b <= task[t].to}
  BY <1>1 DEF Blocks
<1> QED BY <1>2, <1>3 DEF LeftOut, Events

\* The next kind is asked for.
LEMMA ReadLogsTypes ==
  ASSUME TypeOK, NEW t \in Ticks, ReadLogs(t)
  PROVE  /\ TypeOK' /\ task' = [task EXCEPT ![t] = task'[t]]
         /\ task'[t] = [task[t] EXCEPT !.kind = task[t].kind + 1]
<1>1. /\ task' = [task EXCEPT ![t].kind = @ + 1] /\ task[t].pc = "logs" /\ task[t].kind < Len(Kinds)
      /\ stored' = Pushed(t) /\ skipped' = skipped \cup LeftOut(t)
      /\ UNCHANGED <<head, log, last, caughtUp, range, polling, mishaps>>
  BY DEF ReadLogs
<1>2. task'[t] = [task[t] EXCEPT !.kind = task[t].kind + 1] /\ task' = [task EXCEPT ![t] = task'[t]]
  BY <1>1 DEF TypeOK
<1>3. task[t].kind + 1 \in DOMAIN Kinds
  BY <1>1, ReadingTick, Bounds
<1>4. TickOK(task'[t])
  <2> DEFINE k == [task[t] EXCEPT !.kind = task[t].kind + 1]
  <2>1. TickOK(task[t])
    BY DEF TypeOK, TickOK
  <2>2. /\ k \in Task /\ k.pc = task[t].pc /\ k.cursor = task[t].cursor /\ k.inner = task[t].inner
        /\ k.to = task[t].to /\ k.head = task[t].head
    BY <1>1, <1>3, ReadingTick DEF Task
  <2> HIDE DEF k
  <2>3. TickOK(k)
    BY <2>1, <2>2 DEF TickOK
  <2> QED BY <1>2, <2>3 DEF k
<1>5. LeftOut(t) \subseteq Events
  BY <1>1, LeftOutIs
<1> QED BY <1>1, <1>2, <1>4, <1>5, PushedIs, TickKeepsTypes DEF TypeOK

\* The cursor moves to the end of the window, and the tick goes on or ends.
LEMMA FinishWindowTypes ==
  ASSUME TypeOK, NEW t \in Ticks, FinishWindow(t)
  PROVE  /\ TypeOK' /\ task' = [task EXCEPT ![t] = task'[t]] /\ last' = task[t].to
         /\ \/ task'[t] = Idle /\ task[t].to = task[t].head
            \/ task'[t] = Window(task[t].head, task[t].to) /\ task[t].to < task[t].head
<1>1. /\ task[t].pc = "logs" /\ stored' \in Trimmed(Pushed(t)) /\ skipped' = skipped \cup LeftOut(t)
      /\ last' = task[t].to /\ UNCHANGED <<head, log, range, mishaps>>
  BY DEF FinishWindow, Advance
<1>2. /\ task' = [task EXCEPT ![t] = task'[t]] /\ caughtUp' \in BOOLEAN /\ polling' \in BOOLEAN
      /\ \/ task'[t] = Idle /\ ~(task[t].to < task[t].head)
         \/ task'[t] = Window(task[t].head, task[t].to) /\ task[t].to < task[t].head
  BY DEF FinishWindow, TypeOK
<1>3. /\ task[t].to \in Nat /\ task[t].head \in Nat /\ task[t].to <= task[t].head
      /\ task[t].head <= head /\ head <= MaxBlock /\ head \in Nat
  BY <1>1, ReadingTick
<1>4. range \in Nat \ {0}
  BY DEF TypeOK
<1>5. TickOK(task'[t])
  <2>1. CASE task'[t] = Idle
    BY <2>1, IdleOK
  <2>2. CASE task'[t] = Window(task[t].head, task[t].to) /\ task[t].to < task[t].head
    <3> DEFINE h == task[t].head
               w == Window(h, task[t].to)
    <3>1. h \in Nat /\ h <= head /\ h <= MaxBlock
      BY <1>3, Bounds
    <3>2. /\ w \in Task /\ w.head = h /\ w.cursor < w.inner /\ w.inner = w.to
          /\ w.to <= w.head
      BY <1>3, <1>4, <2>2, <3>1, WindowIs
    <3>3. w.to \in Nat
      BY <3>2, Bounds DEF Task
    <3> HIDE DEF w, h
    <3>4. TickOK(w)
      BY <3>1, <3>2, <3>3 DEF TickOK
    <3> QED BY <2>2, <3>4 DEF w, h
  <2> QED BY <1>2, <2>1, <2>2
<1>6. LeftOut(t) \subseteq Events /\ stored' \in [Events -> Nat] /\ last' \in 0 .. head
  BY <1>1, <1>3, LeftOutIs, PushedIs, TrimKeepsNewest
<1> QED BY <1>1, <1>2, <1>3, <1>5, <1>6, TickKeepsTypes DEF TypeOK

\* The types after a block.
LEMMA MineTypes ==
  ASSUME TypeOK, NEW kinds \in SUBSET KindSet, Mine(kinds)
  PROVE  TypeOK'
<1>1. /\ head < MaxBlock /\ head' = head + 1 /\ log' = [log EXCEPT ![head'] = kinds]
      /\ UNCHANGED <<last, caughtUp, stored, range, task, polling, mishaps, skipped>>
  BY DEF Mine, stateVars
<1>2. head' \in Blocks /\ head <= head'
  BY <1>1, Bounds DEF TypeOK, Blocks
<1>3. log' \in [Blocks -> SUBSET KindSet]
  BY <1>1, <1>2 DEF TypeOK
<1>4. \A t \in Ticks : task[t].pc = "logs" => task[t].head <= head'
  <2>1. ASSUME NEW t \in Ticks, task[t].pc = "logs" PROVE task[t].head <= head'
    BY <1>1, <2>1, ReadingTick
  <2> QED BY <2>1
<1>5. last \in 0 .. head'
  BY <1>1 DEF TypeOK, Blocks
<1> QED BY <1>1, <1>2, <1>3, <1>4, <1>5 DEF TypeOK

\* A window that is refused keeps its cursor, its end and its kind.
LEMMA NarrowStep ==
  ASSUME TypeOK, NEW t \in Ticks, Reject(t) \/ Throttle(t)
  PROVE  /\ TypeOK' /\ task' = [task EXCEPT ![t] = task'[t]] /\ task[t].pc = "logs"
         /\ task'[t].pc = "logs" /\ task'[t].cursor = task[t].cursor
         /\ task'[t].to = task[t].to /\ task'[t].kind = task[t].kind
<1>1. /\ task[t].pc = "logs" /\ Width(t) > 1 /\ Narrow(t)
      /\ mishaps' \in [{"failed", "throttled", "overlapped"} -> Nat]
  <2>1. CASE Reject(t)
    <3>1. Width(t) \in Int /\ Limit >= 1 /\ Limit \in Nat
      BY <2>1, ReadingTick, Bounds DEF Reject, Width
    <3> QED BY <2>1, <3>1 DEF Reject, TypeOK
  <2>2. CASE Throttle(t)
    BY <2>2, MishapTyped DEF Throttle
  <2> QED BY <2>1, <2>2
<1>2. /\ TypeOK' /\ task' = [task EXCEPT ![t] = task'[t]]
      /\ \E n \in Nat : task'[t] = [task[t] EXCEPT !.inner = n]
  BY <1>1, NarrowTypes
<1>3. /\ task'[t].pc = task[t].pc /\ task'[t].cursor = task[t].cursor
      /\ task'[t].to = task[t].to /\ task'[t].kind = task[t].kind
  BY <1>2 DEF TypeOK, Task
<1> QED BY <1>1, <1>2, <1>3

\* The types at the start.
LEMMA InitTypes == Init => TypeOK
<1> SUFFICES ASSUME Init PROVE TypeOK
  OBVIOUS
<1>1. MaxBlock \in Nat /\ Start \in Nat /\ Start < MaxBlock /\ StartRange \in Nat \ {0}
  BY Bounds, IndexerAssumption DEF IndexerAssumption
<1>2. head \in {1, Start} /\ head >= 1 /\ head >= Start
  BY <1>1, MaxOfTwo DEF Init
<1>3. head \in Blocks /\ last \in 0 .. head
  BY <1>1, <1>2 DEF Init, Blocks
<1>4. \A t \in Ticks : task[t] = Idle /\ task[t] \in Task /\ task[t].pc # "logs"
  BY IdleOK DEF Init, TickOK, Idle
<1>5. log \in [Blocks -> SUBSET KindSet] /\ stored \in [Events -> Nat]
  BY DEF Init
<1>6. mishaps \in [{"failed", "throttled", "overlapped"} -> Nat]
  <2>1. mishaps = [failed |-> 0, throttled |-> 0, overlapped |-> 0]
    BY DEF Init
  <2> QED BY <2>1
<1>7. task \in [Ticks -> Task]
  BY <1>4 DEF Init
<1> QED BY <1>1, <1>3, <1>4, <1>5, <1>6, <1>7 DEF Init, TypeOK

-----------------------------------------------------------------------------
(* Nothing is lost. *)

\* The ticks that read, and the events a tick has behind it: those up to its
\* cursor, and in its window those of the kinds it has asked for.
Reading == {t \in Ticks : task[t].pc = "logs"}

Passed(t, e) ==
  \/ e[1] <= task[t].cursor
  \/ e[1] <= task[t].to /\ \E i \in 1 .. task[t].kind - 1 : Kinds[i] = e[2]

\* An event that the cursor or any tick has behind it is accounted for.
Covered(e) == Served(e) \/ e \in skipped

Coverage ==
  /\ last # 0
  /\ \A e \in Emitted :
       Start < e[1] /\ (e[1] <= last \/ \E t \in Reading : Passed(t, e)) => Covered(e)

CoverageInv == TypeOK /\ Coverage

\* A push and a trim leave what was accounted for accounted for.
LEMMA CoveredStays ==
  ASSUME TypeOK, NEW bag \in [Events -> Nat], \A e \in Events : stored[e] <= bag[e],
         stored' = bag \/ stored' \in Trimmed(bag), skipped \subseteq skipped'
  PROVE  \A e \in Events : Covered(e) \/ bag[e] > 0 => Covered(e)'
<1> SUFFICES ASSUME NEW e \in Events, Covered(e) \/ bag[e] > 0 PROVE Covered(e)'
  OBVIOUS
<1>1. CASE e \in skipped
  BY <1>1 DEF Covered
<1>2. CASE stored[e] > 0 \/ bag[e] > 0 \/ Total(stored, From(e[1])) >= Keep
  <2>1. e[1] \in Blocks /\ e[1] \in Nat /\ Keep \in Nat /\ stored \in [Events -> Nat]
    BY Bounds DEF Events, Blocks, TypeOK
  <2>2. From(e[1]) \subseteq Events /\ IsFiniteSet(From(e[1]))
    BY EventsFinite DEF From
  <2>3. /\ Total(stored, From(e[1])) <= Total(bag, From(e[1]))
        /\ Total(stored, From(e[1])) \in Nat /\ Total(bag, From(e[1])) \in Nat
    BY <2>1, <2>2, TotalMono
  <2>4. bag[e] > 0 \/ Total(bag, From(e[1])) >= Keep
    BY <1>2, <2>1, <2>3
  <2>5. stored'[e] > 0 \/ Total(stored', From(e[1])) >= Keep
    <3>1. CASE stored' = bag
      BY <2>4, <3>1
    <3>2. CASE stored' \in Trimmed(bag)
      <4>1. /\ stored'[e] = bag[e] \/ Total(stored', From(e[1])) >= Keep
            /\ Total(bag, From(e[1])) >= Keep => Total(stored', From(e[1])) >= Keep
        BY <2>1, <3>2, TrimKeepsNewest
      <4> QED BY <2>4, <4>1
    <3> QED BY <3>1, <3>2
  <2> QED BY <2>5 DEF Covered, Served, From, Events, Blocks, KindSet
<1> QED BY <1>1, <1>2 DEF Covered, Served

\* A tick whose window is as it was, or that reads nothing, has nothing new behind it.
LEMMA CoverageFrame ==
  ASSUME CoverageInv, NEW t \in Ticks, task' = [task EXCEPT ![t] = task'[t]],
         last' # 0, UNCHANGED log, \A e \in Events : Covered(e) => Covered(e)',
         \A e \in Emitted : Start < e[1] /\ e[1] <= last' => e[1] <= last \/ Covered(e)',
         \A e \in Emitted : Start < e[1] /\ task'[t].pc = "logs" /\ Passed(t, e)' =>
           e[1] <= last \/ (t \in Reading /\ Passed(t, e)) \/ Covered(e)'
  PROVE  Coverage'
<1>1. ASSUME NEW e \in Emitted', Start < e[1], e[1] <= last' \/ \E u \in Reading' : Passed(u, e)'
      PROVE  Covered(e)'
  <2>1. e \in Emitted /\ e \in Events
    BY <1>1 DEF Emitted, Events, Blocks, KindSet
  <2>2. ASSUME NEW u \in Reading', Passed(u, e)', u # t PROVE u \in Reading /\ Passed(u, e)
    <3>1. u \in Ticks /\ task'[u] = task[u] /\ task'[u].pc = "logs"
      BY <2>2 DEF CoverageInv, TypeOK, Reading
    <3> QED BY <2>2, <3>1 DEF Reading, Passed
  <2>3. t \in Reading' => task'[t].pc = "logs"
    BY DEF Reading
  <2>4. e[1] <= last \/ (\E u \in Reading : Passed(u, e)) \/ Covered(e)'
    BY <1>1, <2>1, <2>2, <2>3
  <2> QED BY <1>1, <2>1, <2>4 DEF CoverageInv, Coverage
<1> QED BY <1>1 DEF Coverage

\* Nothing is emitted before the start.
LEMMA CoverageInit ==
  ASSUME Start # 0, Init
  PROVE  CoverageInv
<1>1. TypeOK
  BY InitTypes
<1>2. last # 0 /\ \A e \in Emitted : FALSE
  BY DEF Init, Emitted, Events
<1> QED BY <1>1, <1>2 DEF CoverageInv, Coverage

\* A reader steps over the events of its window: those it pushed, those it left
\* out, and those the trim drops are all accounted for.
LEMMA RequestCovers ==
  ASSUME CoverageInv, NEW t \in Ticks, task[t].pc = "logs",
         stored' = Pushed(t) \/ stored' \in Trimmed(Pushed(t)), skipped' = skipped \cup LeftOut(t)
  PROVE  /\ \A e \in Events : Covered(e) => Covered(e)'
         /\ \A e \in Emitted :
              e[2] = Kinds[task[t].kind] /\ task[t].cursor < e[1] /\ e[1] <= task[t].to => Covered(e)'
<1>1. TypeOK
  BY DEF CoverageInv
<1>2. Pushed(t) \in [Events -> Nat] /\ \A e \in Events : stored[e] <= Pushed(t)[e] /\ stored[e] \in Nat
  BY <1>1, PushedIs DEF TypeOK
<1>3. \A e \in Events : Covered(e) \/ Pushed(t)[e] > 0 => Covered(e)'
  BY <1>1, <1>2, CoveredStays
<1>4. ASSUME NEW e \in Emitted, e[2] = Kinds[task[t].kind], task[t].cursor < e[1], e[1] <= task[t].to
      PROVE  Covered(e)'
  <2>1. e \in Events /\ e[1] \in Nat
    BY DEF Emitted, Events, Blocks
  <2>2. CASE e[1] <= task[t].inner
    <3>1. Pushed(t)[e] = stored[e] + 1
      BY <1>1, <1>4, <2>2, PushedIs
    <3> QED BY <1>2, <1>3, <2>1, <3>1
  <2>3. CASE task[t].inner < e[1]
    <3>1. e \in LeftOut(t)
      BY <1>1, <1>4, <2>1, <2>3, LeftOutIs
    <3> QED BY <3>1 DEF Covered
  <2>4. task[t].inner \in Nat
    BY <1>1, ReadingTick
  <2> QED BY <2>1, <2>2, <2>3, <2>4
<1>5. \A e \in Events : Covered(e) => Covered(e)'
  BY <1>3
<1>6. \A e \in Emitted :
        e[2] = Kinds[task[t].kind] /\ task[t].cursor < e[1] /\ e[1] <= task[t].to => Covered(e)'
  BY <1>4
<1> QED BY <1>5, <1>6

\* The request of one kind,
LEMMA CoverageReadLogs ==
  ASSUME CoverageInv, NEW t \in Ticks, ReadLogs(t)
  PROVE  Coverage'
<1>1. /\ task[t].pc = "logs" /\ stored' = Pushed(t) /\ skipped' = skipped \cup LeftOut(t)
      /\ UNCHANGED <<log, last>>
  BY DEF ReadLogs
<1>2. TypeOK /\ last # 0
  BY DEF CoverageInv, Coverage
<1>3. /\ task' = [task EXCEPT ![t] = task'[t]]
      /\ task'[t] = [task[t] EXCEPT !.kind = task[t].kind + 1]
  BY <1>2, ReadLogsTypes
<1>4. /\ task'[t].cursor = task[t].cursor /\ task'[t].to = task[t].to
      /\ task'[t].kind = task[t].kind + 1 /\ task[t].kind \in Nat
  BY <1>1, <1>2, <1>3, ReadingTick, KindsListed DEF Task
<1>5. ASSUME NEW e \in Emitted, Start < e[1], Passed(t, e)'
      PROVE  (t \in Reading /\ Passed(t, e)) \/ Covered(e)'
  <2>1. t \in Reading
    BY <1>1 DEF Reading
  <2>2. CASE e[1] <= task[t].cursor
    BY <2>1, <2>2 DEF Passed
  <2>3. CASE ~(e[1] <= task[t].cursor)
    <3>1. e[1] <= task[t].to /\ \E i \in 1 .. task[t].kind : Kinds[i] = e[2]
      BY <1>4, <1>5, <2>3 DEF Passed
    <3>2. PICK i \in 1 .. task[t].kind : Kinds[i] = e[2]
      BY <3>1
    <3>3. CASE i = task[t].kind
      <4>1. task[t].cursor < e[1]
        BY <1>1, <1>2, <2>3, ReadingTick DEF Emitted, Events, Blocks
      <4> QED BY <1>1, <3>1, <3>2, <3>3, <4>1, RequestCovers
    <3>4. CASE i # task[t].kind
      <4>1. i \in 1 .. task[t].kind - 1
        BY <1>4, <3>4
      <4> QED BY <2>1, <3>1, <3>2, <4>1 DEF Passed
    <3> QED BY <3>3, <3>4
  <2> QED BY <2>2, <2>3
<1> QED BY <1>1, <1>2, <1>3, <1>5, RequestCovers, CoverageFrame

\* the last kind of a window,
LEMMA CoverageFinishWindow ==
  ASSUME CoverageInv, NEW t \in Ticks, FinishWindow(t)
  PROVE  Coverage'
<1>1. /\ task[t].pc = "logs" /\ task[t].kind = Len(Kinds)
      /\ stored' \in Trimmed(Pushed(t)) /\ skipped' = skipped \cup LeftOut(t)
      /\ UNCHANGED log
  BY DEF FinishWindow
<1>2. TypeOK
  BY DEF CoverageInv
<1>3. /\ task' = [task EXCEPT ![t] = task'[t]] /\ last' = task[t].to
      /\ \/ task'[t] = Idle
         \/ task'[t] = Window(task[t].head, task[t].to) /\ task[t].to < task[t].head
  BY <1>2, FinishWindowTypes
<1>4. /\ task[t].cursor \in Nat /\ task[t].to \in Nat /\ task[t].head \in Nat /\ range \in Nat \ {0}
      /\ task[t].cursor < task[t].to /\ task[t].head <= MaxBlock
  <2>1. range \in Nat \ {0} /\ task[t].head <= head /\ head <= MaxBlock /\ head \in Nat
    BY <1>1, <1>2, ReadingTick DEF TypeOK
  <2>2. /\ task[t].cursor \in Nat /\ task[t].inner \in Nat /\ task[t].to \in Nat
        /\ task[t].cursor < task[t].inner /\ task[t].inner <= task[t].to /\ task[t].head \in Nat
    BY <1>1, <1>2, ReadingTick
  <2> QED BY <2>1, <2>2, Bounds
<1>5. ASSUME NEW e \in Emitted, e[1] <= task[t].to
      PROVE  (t \in Reading /\ Passed(t, e)) \/ Covered(e)'
  <2>1. e \in Events /\ e[1] \in Nat /\ e[2] \in KindSet /\ t \in Reading
    BY <1>1 DEF Emitted, Events, Blocks, Reading
  <2>2. PICK i \in DOMAIN Kinds : Kinds[i] = e[2]
    BY <2>1 DEF KindSet
  <2>3. CASE i = task[t].kind
    <3>1. CASE e[1] <= task[t].cursor
      BY <2>1, <3>1 DEF Passed
    <3>2. CASE task[t].cursor < e[1]
      BY <1>1, <1>5, <2>2, <2>3, <3>2, RequestCovers
    <3> QED BY <1>4, <2>1, <3>1, <3>2
  <2>4. CASE i # task[t].kind
    <3>1. i \in 1 .. task[t].kind - 1
      BY <1>1, <2>4, Bounds
    <3> QED BY <1>5, <2>1, <2>2, <3>1 DEF Passed
  <2> QED BY <2>3, <2>4
<1>6. ASSUME NEW e \in Emitted, task'[t].pc = "logs", Passed(t, e)'
      PROVE  e[1] <= task[t].to
  <2>1. task'[t] = Window(task[t].head, task[t].to) /\ task[t].to < task[t].head
    BY <1>3, <1>6 DEF Idle
  <2>2. task'[t].cursor = task[t].to /\ task'[t].kind = 1
    BY <1>4, <2>1, WindowIs
  <2> QED BY <1>6, <2>2 DEF Passed
<1>7. ASSUME NEW e \in Emitted, Start < e[1], e[1] <= task[t].to
      PROVE  Covered(e)'
  <2>1. CASE Covered(e)'
    BY <2>1
  <2>2. CASE t \in Reading /\ Passed(t, e)
    <3>1. Covered(e) /\ e \in Events
      BY <1>7, <2>2 DEF CoverageInv, Coverage, Emitted
    <3> QED BY <1>1, <3>1, RequestCovers
  <2> QED BY <1>5, <1>7, <2>1, <2>2
<1>8. \A e \in Events : Covered(e) => Covered(e)'
  BY <1>1, RequestCovers
<1>9. \A e \in Emitted : Start < e[1] /\ e[1] <= last' => e[1] <= last \/ Covered(e)'
  BY <1>3, <1>7
<1>10. \A e \in Emitted : Start < e[1] /\ task'[t].pc = "logs" /\ Passed(t, e)' =>
         e[1] <= last \/ (t \in Reading /\ Passed(t, e)) \/ Covered(e)'
  BY <1>6, <1>7
<1>11. last' # 0
  BY <1>3, <1>4
<1> QED BY <1>1, <1>3, <1>8, <1>9, <1>10, <1>11, CoverageFrame

\* The tick that starts, narrows, reads the head or fails, and the chain.
LEMMA CoverageOther ==
  ASSUME CoverageInv, NEW t \in Ticks, task' = [task EXCEPT ![t] = task'[t]],
         UNCHANGED <<log, last, stored, skipped>>,
         \/ task'[t].pc # "logs"
         \/ task'[t].cursor = last /\ task'[t].kind = 1
         \/ /\ t \in Reading /\ task'[t].cursor = task[t].cursor
            /\ task'[t].to = task[t].to /\ task'[t].kind = task[t].kind
  PROVE  Coverage'
<1>1. \A e \in Events : Covered(e) => Covered(e)'
  BY DEF Covered, Served, Total, From, Events, Blocks, KindSet
<1>2. last' # 0 /\ last' = last
  BY DEF CoverageInv, Coverage
<1>3. \A e \in Emitted : Start < e[1] /\ e[1] <= last' => e[1] <= last \/ Covered(e)'
  BY <1>2
<1>4. ASSUME NEW e \in Emitted, Start < e[1], task'[t].pc = "logs", Passed(t, e)'
      PROVE  e[1] <= last \/ (t \in Reading /\ Passed(t, e)) \/ Covered(e)'
  <2>1. CASE task'[t].cursor = last /\ task'[t].kind = 1
    BY <1>4, <2>1 DEF Passed
  <2>2. CASE /\ t \in Reading /\ task'[t].cursor = task[t].cursor
             /\ task'[t].to = task[t].to /\ task'[t].kind = task[t].kind
    BY <1>4, <2>2 DEF Passed
  <2> QED BY <1>4, <2>1, <2>2
<1> QED BY <1>1, <1>2, <1>3, <1>4, CoverageFrame

\* A new block is above every cursor.
LEMMA CoverageMine ==
  ASSUME CoverageInv, NEW kinds \in SUBSET KindSet, Mine(kinds)
  PROVE  Coverage'
<1>1. /\ head' = head + 1 /\ log' = [log EXCEPT ![head'] = kinds]
      /\ UNCHANGED <<last, stored, task, skipped>>
  BY DEF Mine, stateVars
<1>2. TypeOK /\ last # 0
  BY DEF CoverageInv, Coverage
<1>3. head \in Nat /\ last \in Nat /\ last <= head
  BY <1>2 DEF TypeOK, Blocks
<1>4. ASSUME NEW e \in Emitted', Start < e[1], e[1] <= last' \/ \E u \in Reading' : Passed(u, e)'
      PROVE  Covered(e)'
  <2>1. e \in Events /\ e[1] \in Nat /\ e[1] \in Blocks
    BY DEF Emitted, Events, Blocks, KindSet
  <2>2. e[1] <= last \/ \E u \in Reading : Passed(u, e)
    BY <1>1, <1>4 DEF Reading, Passed
  <2>3. e[1] <= head
    <3>1. ASSUME NEW u \in Reading, Passed(u, e) PROVE e[1] <= head
      <4>1. /\ task[u].cursor \in Nat /\ task[u].to \in Nat /\ task[u].cursor < task[u].to
            /\ task[u].to <= head
        BY <1>2, ReadingTick DEF Reading
      <4> QED BY <1>3, <2>1, <3>1, <4>1 DEF Passed
    <3> QED BY <1>3, <2>1, <2>2, <3>1
  <2>4. log'[e[1]] = log[e[1]]
    BY <1>1, <1>2, <1>3, <2>1, <2>3 DEF TypeOK
  <2>5. e \in Emitted
    BY <2>1, <2>4 DEF Emitted
  <2>6. Covered(e)
    BY <1>4, <2>2, <2>5 DEF CoverageInv, Coverage
  <2> QED BY <1>1, <2>6 DEF Covered, Served, Total, From, Events, Blocks, KindSet
<1> QED BY <1>1, <1>2, <1>4 DEF Coverage

\* Every step keeps it.
LEMMA CoverageNext ==
  ASSUME CoverageInv, [Next]_vars
  PROVE  CoverageInv'
<1>0. TypeOK /\ last # 0
  BY DEF CoverageInv, Coverage
<1>1. ASSUME NEW t \in Ticks, StartTick(t) PROVE CoverageInv'
  <2>1. /\ TypeOK' /\ task' = [task EXCEPT ![t] = task'[t]] /\ task'[t].pc = "head"
        /\ UNCHANGED <<log, last, stored, skipped>>
    BY <1>0, <1>1, StartTickTypes DEF StartTick, stateVars
  <2> QED BY <2>1, CoverageOther DEF CoverageInv
<1>2. ASSUME NEW t \in Ticks, ReadHead(t) PROVE CoverageInv'
  <2>1. /\ TypeOK' /\ task' = [task EXCEPT ![t] = task'[t]]
        /\ task'[t] = Idle \/ (task'[t] = Window(head, Cursor) /\ Cursor \in Nat /\ Cursor < head)
    BY <1>0, <1>2, ReadHeadTypes
  <2>2. UNCHANGED <<log, last, stored, skipped>>
    BY <1>2 DEF ReadHead
  <2>3. Cursor = last /\ head \in Nat /\ head <= MaxBlock /\ range \in Nat \ {0}
    BY <1>0, Bounds DEF Cursor, TypeOK, Blocks
  <2>4. task'[t].pc # "logs" \/ (task'[t].cursor = last /\ task'[t].kind = 1)
    <3>1. CASE task'[t] = Idle
      BY <3>1 DEF Idle
    <3>2. CASE task'[t] = Window(head, Cursor) /\ Cursor \in Nat /\ Cursor < head
      BY <2>3, <3>2, WindowIs
    <3> QED BY <2>1, <3>1, <3>2
  <2> QED BY <2>1, <2>2, <2>4, CoverageOther DEF CoverageInv
<1>3. ASSUME NEW t \in Ticks, Reject(t) \/ Throttle(t) PROVE CoverageInv'
  <2>1. /\ TypeOK' /\ task' = [task EXCEPT ![t] = task'[t]]
        /\ task[t].pc = "logs" /\ task'[t].cursor = task[t].cursor
        /\ task'[t].to = task[t].to /\ task'[t].kind = task[t].kind
    BY <1>0, <1>3, NarrowStep
  <2>2. t \in Reading
    BY <2>1 DEF Reading
  <2>4. UNCHANGED <<log, last, stored, skipped>>
    BY <1>3 DEF Reject, Throttle, Narrow
  <2> QED BY <2>1, <2>2, <2>4, CoverageOther DEF CoverageInv
<1>4. ASSUME NEW t \in Ticks, ReadLogs(t) PROVE CoverageInv'
  BY <1>0, <1>4, ReadLogsTypes, CoverageReadLogs DEF CoverageInv
<1>5. ASSUME NEW t \in Ticks, FinishWindow(t) PROVE CoverageInv'
  BY <1>0, <1>5, FinishWindowTypes, CoverageFinishWindow DEF CoverageInv
<1>6. ASSUME NEW t \in Ticks, FailTick(t) PROVE CoverageInv'
  <2>1. TypeOK' /\ task' = [task EXCEPT ![t] = task'[t]] /\ task'[t].pc # "logs"
    BY <1>0, <1>6, FailTickTypes DEF Idle
  <2>2. UNCHANGED <<log, last, stored, skipped>>
    BY <1>6 DEF FailTick, stateVars
  <2> QED BY <2>1, <2>2, CoverageOther DEF CoverageInv
<1>7. ASSUME NEW kinds \in SUBSET KindSet, Mine(kinds) PROVE CoverageInv'
  BY <1>0, <1>7, MineTypes, CoverageMine DEF CoverageInv
<1>8. CASE UNCHANGED vars
  BY <1>8 DEF vars, CoverageInv, TypeOK, Coverage, Covered, Served, Emitted, Reading, Passed
<1> QED BY <1>1, <1>2, <1>3, <1>4, <1>5, <1>6, <1>7, <1>8 DEF Next, TickStep

\* With a start block configured, every event above it and up to the reported
\* block is in the store, was pushed out by newer ones, or lay in a refused
\* window, whatever ticks overlap or fail (indexRange and follow).  Without one
\* the first tick begins at the head, and what lies below is never read.
THEOREM NothingIsLost ==
  ASSUME Start # 0
  PROVE  Spec => []CompleteBelowCursor
<1>1. Init => CoverageInv
  BY CoverageInit
<1>2. CoverageInv /\ [Next]_vars => CoverageInv'
  BY CoverageNext
<1>3. CoverageInv => CompleteBelowCursor
  BY DEF CoverageInv, Coverage, Covered, CompleteBelowCursor, Due
<1> QED BY <1>1, <1>2, <1>3, PTL DEF Spec

-----------------------------------------------------------------------------
(* A duplicate costs a mishap. *)

\* The cursor is below the event, or a tick will write it back there.
SlipsBack(e) == last < e[1] \/ \E t \in Reading : task[t].to < e[1]

\* The ticks under way that may still push the event, and those that will leave
\* the cursor below it.
Pushers(e) == {t \in Running : IF task[t].pc = "head" THEN SlipsBack(e) ELSE ~Passed(t, e)}

\* A tick that starts when none is running may push it.
Again(e) == IF Running = {} /\ last < e[1] THEN 1 ELSE 0

\* The copies there are and the copies there may still be have all been paid for.
CopiesInv ==
  /\ TypeOK
  /\ IsFiniteSet(Running)
  /\ \A e \in Events :
       stored[e] + Cardinality(Pushers(e)) + Again(e) <= 1 + mishaps.failed + mishaps.overlapped

\* The terms of the bound are naturals.
LEMMA PushersFinite ==
  ASSUME CopiesInv, NEW e \in Events
  PROVE  /\ IsFiniteSet(Pushers(e)) /\ Cardinality(Pushers(e)) \in Nat /\ Again(e) \in {0, 1}
         /\ stored[e] \in Nat /\ mishaps.failed \in Nat /\ mishaps.overlapped \in Nat /\ e[1] \in Nat
<1>1. Pushers(e) \subseteq Running /\ IsFiniteSet(Running)
  BY DEF Pushers, CopiesInv
<1>2. IsFiniteSet(Pushers(e)) /\ Cardinality(Pushers(e)) \in Nat
  BY <1>1, FS_Subset, FS_CardinalityType
<1> QED BY <1>2 DEF Again, CopiesInv, TypeOK, Events, Blocks

\* How much one tick weighs.
Weight(t, e) == IF t \in Pushers(e) THEN 1 ELSE 0

\* One tick moves: the others keep their weight, unless they lose it.
LEMMA CopiesFrame ==
  ASSUME CopiesInv, TypeOK', NEW t \in Ticks, task' = [task EXCEPT ![t] = task'[t]], NEW d \in Nat,
         mishaps'.failed + mishaps'.overlapped = mishaps.failed + mishaps.overlapped + d,
         \A e \in Events : SlipsBack(e)' => SlipsBack(e),
         \A e \in Events : stored'[e] + Weight(t, e)' + Again(e)' <= stored[e] + Weight(t, e) + Again(e) + d
  PROVE  CopiesInv'
<1>1. /\ \A u \in Ticks \ {t} : task'[u] = task[u]
      /\ Running' \subseteq Running \cup {t}
  BY DEF CopiesInv, TypeOK, Running
<1>2. IsFiniteSet(Running')
  <2>1. IsFiniteSet(Running \cup {t})
    BY FS_AddElement DEF CopiesInv
  <2> QED BY <1>1, <2>1, FS_Subset
<1>3. ASSUME NEW e \in Events
      PROVE  (stored[e] + Cardinality(Pushers(e)) + Again(e))' <= 1 + mishaps'.failed + mishaps'.overlapped
  <2> DEFINE rest == Pushers(e) \ {t}
             left == Pushers(e)' \ {t}
  <2>1. IsFiniteSet(Pushers(e)) /\ IsFiniteSet(Pushers(e)') /\ IsFiniteSet(rest)
    <3>1. Pushers(e)' \subseteq Running'
      BY DEF Pushers
    <3> QED BY <1>2, <3>1, PushersFinite, FS_Subset
  <2>2. left \subseteq rest
    <3>1. ASSUME NEW u \in Pushers(e)', u # t PROVE u \in Pushers(e)
      <4>1. u \in Running /\ task'[u] = task[u] /\ u \in Ticks
        BY <1>1, <3>1 DEF Pushers, Running
      <4>2. CASE task[u].pc = "head"
        BY <3>1, <4>1, <4>2 DEF Pushers
      <4>3. CASE task[u].pc # "head"
        <5>1. ~Passed(u, e)'
          BY <3>1, <4>1, <4>3 DEF Pushers
        <5>2. ~Passed(u, e)
          BY <4>1, <5>1 DEF Passed
        <5> QED BY <4>1, <4>3, <5>2 DEF Pushers
      <4> QED BY <4>2, <4>3
    <3> QED BY <3>1
  <2>3. Cardinality(left) <= Cardinality(rest) /\ Cardinality(left) \in Nat /\ Cardinality(rest) \in Nat
    BY <2>1, <2>2, FS_Subset, FS_CardinalityType
  <2>4. Cardinality(Pushers(e)) = Cardinality(rest) + Weight(t, e)
    <3>1. Cardinality(rest) = IF t \in Pushers(e) THEN Cardinality(Pushers(e)) - 1 ELSE Cardinality(Pushers(e))
      BY <2>1, FS_RemoveElement
    <3>2. Cardinality(Pushers(e)) \in Nat
      BY PushersFinite
    <3> QED BY <3>1, <3>2 DEF Weight
  <2>5. Cardinality(Pushers(e)') = Cardinality(left) + Weight(t, e)'
    <3>1. Cardinality(left) = IF t \in Pushers(e)' THEN Cardinality(Pushers(e)') - 1 ELSE Cardinality(Pushers(e)')
      BY <2>1, FS_RemoveElement
    <3>2. Cardinality(Pushers(e)') \in Nat
      BY <2>1, FS_CardinalityType
    <3> QED BY <3>1, <3>2 DEF Weight
  <2>6. /\ stored[e] + Cardinality(Pushers(e)) + Again(e) <= 1 + mishaps.failed + mishaps.overlapped
        /\ stored'[e] + Weight(t, e)' + Again(e)' <= stored[e] + Weight(t, e) + Again(e) + d
    BY DEF CopiesInv
  <2>7. /\ stored[e] \in Nat /\ stored'[e] \in Nat /\ Weight(t, e) \in Nat /\ Weight(t, e)' \in Nat
        /\ Again(e) \in Nat /\ Again(e)' \in Nat /\ mishaps.failed \in Nat /\ mishaps.overlapped \in Nat
        /\ mishaps'.failed \in Nat /\ mishaps'.overlapped \in Nat
    <3>1. stored' \in [Events -> Nat] /\ mishaps' \in [{"failed", "throttled", "overlapped"} -> Nat]
      BY DEF TypeOK
    <3> QED BY <3>1, PushersFinite DEF Weight, Again
  <2> HIDE DEF rest, left
  <2>8. /\ Cardinality(rest) + Weight(t, e) + stored[e] + Again(e) <= 1 + mishaps.failed + mishaps.overlapped
        /\ Cardinality(left) <= Cardinality(rest)
    BY <2>3, <2>4, <2>6, <2>7
  <2>9. stored'[e] + Cardinality(left) + Weight(t, e)' + Again(e)' <= 1 + mishaps'.failed + mishaps'.overlapped
    BY <2>3, <2>6, <2>7, <2>8
  <2> QED BY <2>3, <2>5, <2>7, <2>9
<1> QED BY <1>2, <1>3 DEF CopiesInv

\* A cursor that was not below the event is not written back below it.
LEMMA SlipsFrame ==
  ASSUME TypeOK, NEW t \in Ticks, task' = [task EXCEPT ![t] = task'[t]], NEW e \in Events,
         last' < e[1] => SlipsBack(e),
         task'[t].pc = "logs" /\ task'[t].to < e[1] => SlipsBack(e)
  PROVE  SlipsBack(e)' => SlipsBack(e)
<1>1. ASSUME NEW u \in Reading', task'[u].to < e[1] PROVE SlipsBack(e)
  <2>1. CASE u = t
    BY <1>1, <2>1 DEF Reading
  <2>2. CASE u # t
    <3>1. u \in Reading /\ task[u].to < e[1]
      BY <1>1, <2>2 DEF TypeOK, Reading
    <3> QED BY <3>1 DEF SlipsBack
  <2> QED BY <2>1, <2>2
<1> QED BY <1>1 DEF SlipsBack

\* What a tick weighs, by where it is.
LEMMA WeightIs ==
  ASSUME NEW t \in Ticks, NEW e
  PROVE  /\ task[t].pc = "idle" => Weight(t, e) = 0
         /\ task[t].pc = "head" => Weight(t, e) = (IF SlipsBack(e) THEN 1 ELSE 0)
         /\ task[t].pc = "logs" => Weight(t, e) = (IF Passed(t, e) THEN 0 ELSE 1)
         /\ task[t].pc # "idle" => Again(e) = 0
         /\ Weight(t, e) \in {0, 1} /\ Again(e) \in {0, 1}
BY DEF Weight, Pushers, Running, Again

LEMMA WeightNext ==
  ASSUME NEW t \in Ticks, NEW e
  PROVE  /\ task'[t].pc = "idle" => Weight(t, e)' = 0
         /\ task'[t].pc = "head" => Weight(t, e)' = (IF SlipsBack(e)' THEN 1 ELSE 0)
         /\ task'[t].pc = "logs" => Weight(t, e)' = (IF Passed(t, e)' THEN 0 ELSE 1)
         /\ task'[t].pc # "idle" => Again(e)' = 0
         /\ Weight(t, e)' \in {0, 1} /\ Again(e)' \in {0, 1}
         /\ last' < e[1] \/ Again(e)' = 0
BY DEF Weight, Pushers, Running, Again

\* Each action keeps the bound.  A start is paid for when nothing runs, or overlaps.
LEMMA CopiesStartTick ==
  ASSUME CopiesInv, NEW t \in Ticks, StartTick(t)
  PROVE  CopiesInv'
<1>0. TypeOK
  BY DEF CopiesInv
<1>1. /\ TypeOK' /\ task' = [task EXCEPT ![t] = task'[t]] /\ task'[t].pc = "head" /\ task[t].pc = "idle"
      /\ UNCHANGED <<last, stored>>
  BY <1>0, StartTickTypes DEF StartTick, stateVars
<1>2. \A e \in Events : SlipsBack(e)' => SlipsBack(e)
  BY <1>0, <1>1, SlipsFrame DEF SlipsBack
<1>3. CASE Running = {} /\ UNCHANGED mishaps
  <2>1. ASSUME NEW e \in Events
        PROVE  stored'[e] + Weight(t, e)' + Again(e)' <= stored[e] + Weight(t, e) + Again(e) + 0
    <3>1. SlipsBack(e)' => Again(e) = 1
      <4>1. SlipsBack(e) => last < e[1]
        BY <1>3 DEF SlipsBack, Reading, Running
      <4> QED BY <1>2, <1>3, <4>1 DEF Again
    <3>2. Weight(t, e)' = (IF SlipsBack(e)' THEN 1 ELSE 0) /\ Again(e)' = 0 /\ Weight(t, e) = 0
      BY <1>1, WeightIs, WeightNext
    <3>3. stored'[e] = stored[e] /\ stored[e] \in Nat /\ Again(e) \in {0, 1}
      BY <1>1, PushersFinite
    <3> QED BY <3>1, <3>2, <3>3
  <2>2. mishaps'.failed + mishaps'.overlapped = mishaps.failed + mishaps.overlapped + 0
    BY <1>0, <1>3 DEF TypeOK
  <2> QED BY <1>1, <1>2, <2>1, <2>2, CopiesFrame
<1>4. CASE Mishap("overlapped")
  <2>1. ASSUME NEW e \in Events
        PROVE  stored'[e] + Weight(t, e)' + Again(e)' <= stored[e] + Weight(t, e) + Again(e) + 1
    <3>1. Weight(t, e)' \in {0, 1} /\ Again(e)' = 0 /\ Weight(t, e) = 0
      BY <1>1, WeightIs, WeightNext
    <3>2. stored'[e] = stored[e] /\ stored[e] \in Nat /\ Again(e) \in {0, 1}
      BY <1>1, PushersFinite
    <3> QED BY <3>1, <3>2
  <2>2. mishaps'.failed + mishaps'.overlapped = mishaps.failed + mishaps.overlapped + 1
    BY <1>0, <1>4, MishapTyped DEF TypeOK
  <2> QED BY <1>1, <1>2, <2>1, <2>2, CopiesFrame
<1> QED BY <1>3, <1>4 DEF StartTick

\* A window that begins below the event begins where the cursor was.
LEMMA CopiesReadHead ==
  ASSUME CopiesInv, NEW t \in Ticks, ReadHead(t)
  PROVE  CopiesInv'
<1>0. TypeOK
  BY DEF CopiesInv
<1>1. /\ TypeOK' /\ task' = [task EXCEPT ![t] = task'[t]] /\ task[t].pc = "head"
      /\ task'[t] = Idle \/ (task'[t] = Window(head, Cursor) /\ Cursor \in Nat /\ Cursor < head)
      /\ UNCHANGED <<last, stored, mishaps>>
  BY <1>0, ReadHeadTypes DEF ReadHead
<1>2. /\ head \in Nat /\ head <= MaxBlock /\ range \in Nat \ {0} /\ last \in Nat
      /\ last # 0 => Cursor = last
      /\ \A e \in Events : e[1] \in Nat /\ 0 < e[1]
  BY <1>0, Bounds DEF TypeOK, Blocks, Cursor, Events
<1>3. CASE task'[t] = Idle
  <2>1. task'[t].pc = "idle"
    BY <1>3 DEF Idle
  <2>2. \A e \in Events : SlipsBack(e)' => SlipsBack(e)
    BY <1>0, <1>1, <2>1, SlipsFrame DEF SlipsBack
  <2>3. ASSUME NEW e \in Events
        PROVE  stored'[e] + Weight(t, e)' + Again(e)' <= stored[e] + Weight(t, e) + Again(e) + 0
    <3>1. last < e[1] => Weight(t, e) = 1
      BY <1>1, WeightIs DEF SlipsBack
    <3>2. Weight(t, e)' = 0 /\ Again(e)' \in {0, 1} /\ (last < e[1] \/ Again(e)' = 0)
      BY <1>1, <2>1, WeightNext
    <3>3. stored'[e] = stored[e] /\ stored[e] \in Nat /\ Again(e) \in {0, 1} /\ Weight(t, e) \in {0, 1}
      BY <1>1, PushersFinite, WeightIs
    <3> QED BY <3>1, <3>2, <3>3
  <2>4. mishaps'.failed + mishaps'.overlapped = mishaps.failed + mishaps.overlapped + 0
    BY <1>0, <1>1 DEF TypeOK
  <2> QED BY <1>1, <2>2, <2>3, <2>4, CopiesFrame
<1>4. CASE task'[t] = Window(head, Cursor) /\ Cursor \in Nat /\ Cursor < head
  <2>1. task'[t].pc = "logs" /\ task'[t].cursor = Cursor /\ Cursor < task'[t].to /\ task'[t].to \in Nat
    <3>1. Window(head, Cursor) \in Task
      BY <1>2, <1>4, WindowIs
    <3>2. task'[t].to \in Nat
      BY <1>4, <3>1, Bounds DEF Task
    <3> QED BY <1>2, <1>4, <3>2, WindowIs
  <2>2. \A e \in Events : Cursor < e[1] => last < e[1]
    BY <1>2
  <2>3. ASSUME NEW e \in Events PROVE SlipsBack(e)' => SlipsBack(e)
    <3>1. task'[t].to < e[1] => last < e[1]
      <4>1. e[1] \in Nat
        BY <1>2
      <4>2. task'[t].to < e[1] => Cursor < e[1]
        BY <1>4, <2>1, <4>1
      <4> QED BY <2>2, <4>2
    <3> QED BY <1>0, <1>1, <3>1, SlipsFrame DEF SlipsBack
  <2>4. ASSUME NEW e \in Events
        PROVE  stored'[e] + Weight(t, e)' + Again(e)' <= stored[e] + Weight(t, e) + Again(e) + 0
    <3>1. last < e[1] => Weight(t, e) = 1
      BY <1>1, WeightIs DEF SlipsBack
    <3>2. Cursor < e[1] \/ Weight(t, e)' = 0
      <4>1. Weight(t, e)' = (IF Passed(t, e)' THEN 0 ELSE 1)
        BY <2>1, WeightNext
      <4>2. e[1] <= task'[t].cursor => Passed(t, e)'
        BY DEF Passed
      <4>3. e[1] <= Cursor \/ Cursor < e[1]
        BY <1>2, <1>4
      <4> QED BY <2>1, <4>1, <4>2, <4>3
    <3>3. Again(e)' = 0 /\ Weight(t, e)' \in {0, 1}
      BY <2>1, WeightNext
    <3>4. stored'[e] = stored[e] /\ stored[e] \in Nat /\ Again(e) \in {0, 1} /\ Weight(t, e) \in {0, 1}
      BY <1>1, PushersFinite, WeightIs
    <3> QED BY <2>2, <3>1, <3>2, <3>3, <3>4
  <2>5. mishaps'.failed + mishaps'.overlapped = mishaps.failed + mishaps.overlapped + 0
    BY <1>0, <1>1 DEF TypeOK
  <2> QED BY <1>1, <2>3, <2>4, <2>5, CopiesFrame
<1> QED BY <1>1, <1>3, <1>4

\* Narrowing changes no cursor and no end.
LEMMA CopiesNarrow ==
  ASSUME CopiesInv, NEW t \in Ticks, Reject(t) \/ Throttle(t)
  PROVE  CopiesInv'
<1>0. TypeOK
  BY DEF CopiesInv
<1>1. /\ TypeOK' /\ task' = [task EXCEPT ![t] = task'[t]] /\ task[t].pc = "logs"
      /\ task'[t].pc = "logs" /\ task'[t].cursor = task[t].cursor
      /\ task'[t].to = task[t].to /\ task'[t].kind = task[t].kind
  BY <1>0, NarrowStep
<1>2. UNCHANGED <<last, stored>> /\ mishaps'.failed = mishaps.failed /\ mishaps'.overlapped = mishaps.overlapped
  <2>1. UNCHANGED mishaps \/ Mishap("throttled")
    BY DEF Reject, Throttle
  <2> QED BY <1>0, <2>1, MishapTyped DEF Reject, Throttle, Narrow
<1>3. \A e \in Events : SlipsBack(e)' => SlipsBack(e)
  BY <1>0, <1>1, <1>2, SlipsFrame DEF SlipsBack, Reading
<1>4. ASSUME NEW e \in Events
      PROVE  stored'[e] + Weight(t, e)' + Again(e)' <= stored[e] + Weight(t, e) + Again(e) + 0
  <2>1. Passed(t, e)' <=> Passed(t, e)
    BY <1>1 DEF Passed
  <2>2. Weight(t, e)' = Weight(t, e) /\ Again(e)' = 0 /\ Again(e) = 0
    BY <1>1, <2>1, WeightIs, WeightNext
  <2> QED BY <1>2, <2>2, PushersFinite, WeightIs
<1>5. mishaps'.failed + mishaps'.overlapped = mishaps.failed + mishaps.overlapped + 0
  BY <1>0, <1>2 DEF TypeOK
<1> QED BY <1>1, <1>3, <1>4, <1>5, CopiesFrame

\* What a reader pushes it had still to push.
LEMMA PushIsPaid ==
  ASSUME TypeOK, NEW t \in Ticks, task[t].pc = "logs", NEW e \in Events
  PROVE  /\ Pushed(t)[e] \in Nat /\ stored[e] \in Nat
         /\ Pushed(t)[e] = stored[e] \/
              (/\ Pushed(t)[e] = stored[e] + 1 /\ Weight(t, e) = 1
               /\ e[2] = Kinds[task[t].kind] /\ e[1] <= task[t].to)
<1>1. CASE Pushed(t)[e] = stored[e]
  BY <1>1 DEF TypeOK
<1>2. CASE /\ Pushed(t)[e] = stored[e] + 1
           /\ e[2] = Kinds[task[t].kind] /\ task[t].cursor < e[1] /\ e[1] <= task[t].inner
  <2>1. /\ e[1] \in Nat /\ task[t].cursor \in Nat /\ task[t].inner \in Nat /\ task[t].to \in Nat
        /\ task[t].inner <= task[t].to /\ task[t].kind \in DOMAIN Kinds
    BY ReadingTick DEF Events, Blocks
  <2>2. ~(e[1] <= task[t].cursor) /\ e[1] <= task[t].to
    BY <1>2, <2>1
  <2>3. \A i \in 1 .. task[t].kind - 1 : i \in DOMAIN Kinds /\ i # task[t].kind
    BY <2>1, KindsListed
  <2>4. ~ \E i \in 1 .. task[t].kind - 1 : Kinds[i] = e[2]
    BY <1>2, <2>1, <2>3, IndexerAssumption DEF IndexerAssumption
  <2>5. Weight(t, e) = 1
    BY <2>2, <2>4, WeightIs DEF Passed
  <2> QED BY <1>2, <2>2, <2>5 DEF TypeOK
<1> QED BY <1>1, <1>2, PushedIs

\* A push uses up what its tick had left to push,
LEMMA CopiesReadLogs ==
  ASSUME CopiesInv, NEW t \in Ticks, ReadLogs(t)
  PROVE  CopiesInv'
<1>0. TypeOK
  BY DEF CopiesInv
<1>1. /\ task[t].pc = "logs" /\ stored' = Pushed(t) /\ UNCHANGED <<last, mishaps>>
  BY DEF ReadLogs
<1>2. /\ TypeOK' /\ task' = [task EXCEPT ![t] = task'[t]]
      /\ task'[t] = [task[t] EXCEPT !.kind = task[t].kind + 1]
  BY <1>0, ReadLogsTypes
<1>3. /\ task'[t].cursor = task[t].cursor /\ task'[t].to = task[t].to /\ task'[t].pc = "logs"
      /\ task'[t].kind = task[t].kind + 1 /\ task[t].kind \in Nat /\ task[t].kind >= 1
  BY <1>0, <1>1, <1>2, ReadingTick, KindsListed DEF Task
<1>4. \A e \in Events : SlipsBack(e)' => SlipsBack(e)
  BY <1>0, <1>1, <1>2, <1>3, SlipsFrame DEF SlipsBack, Reading
<1>5. ASSUME NEW e \in Events
      PROVE  stored'[e] + Weight(t, e)' + Again(e)' <= stored[e] + Weight(t, e) + Again(e) + 0
  <2>1. Passed(t, e) => Passed(t, e)'
    BY <1>3 DEF Passed
  <2>2. /\ Again(e)' = 0 /\ Again(e) = 0 /\ Weight(t, e) = (IF Passed(t, e) THEN 0 ELSE 1)
        /\ Weight(t, e)' = (IF Passed(t, e)' THEN 0 ELSE 1)
    BY <1>1, <1>3, WeightIs, WeightNext
  <2>3. CASE Pushed(t)[e] = stored[e]
    BY <1>0, <1>1, <2>1, <2>2, <2>3, PushIsPaid
  <2>4. CASE /\ Pushed(t)[e] = stored[e] + 1 /\ Weight(t, e) = 1
             /\ e[2] = Kinds[task[t].kind] /\ e[1] <= task[t].to
    <3>1. task[t].kind \in 1 .. task'[t].kind - 1
      BY <1>3
    <3>2. Passed(t, e)'
      BY <1>3, <2>4, <3>1 DEF Passed
    <3> QED BY <1>0, <1>1, <2>2, <2>4, <3>2, PushIsPaid
  <2> QED BY <1>0, <1>1, <2>3, <2>4, PushIsPaid
<1>6. mishaps'.failed + mishaps'.overlapped = mishaps.failed + mishaps.overlapped + 0
  BY <1>0, <1>1 DEF TypeOK
<1> QED BY <1>2, <1>4, <1>5, <1>6, CopiesFrame

\* and so does the last one; a cursor left below the event was so left before.
LEMMA CopiesFinishWindow ==
  ASSUME CopiesInv, NEW t \in Ticks, FinishWindow(t)
  PROVE  CopiesInv'
<1>0. TypeOK
  BY DEF CopiesInv
<1>1. /\ task[t].pc = "logs" /\ stored' \in Trimmed(Pushed(t)) /\ UNCHANGED mishaps
  BY DEF FinishWindow
<1>2. /\ TypeOK' /\ task' = [task EXCEPT ![t] = task'[t]] /\ last' = task[t].to
      /\ \/ task'[t] = Idle
         \/ task'[t] = Window(task[t].head, task[t].to) /\ task[t].to < task[t].head
  BY <1>0, FinishWindowTypes
<1>3. /\ task[t].cursor \in Nat /\ task[t].to \in Nat /\ task[t].head \in Nat /\ range \in Nat \ {0}
      /\ task[t].cursor < task[t].to /\ task[t].head <= MaxBlock
      /\ \A e \in Events : e[1] \in Nat
  <2>1. /\ task[t].cursor \in Nat /\ task[t].inner \in Nat /\ task[t].to \in Nat /\ task[t].head \in Nat
        /\ task[t].cursor < task[t].inner /\ task[t].inner <= task[t].to
        /\ task[t].head <= head /\ head <= MaxBlock /\ head \in Nat
    BY <1>0, <1>1, ReadingTick
  <2>2. task[t].cursor < task[t].to /\ task[t].head <= MaxBlock
    BY <2>1, Bounds
  <2>3. range \in Nat \ {0} /\ \A e \in Events : e[1] \in Nat
    BY <1>0 DEF TypeOK, Events, Blocks
  <2> QED BY <2>1, <2>2, <2>3
<1>4. \/ task'[t].pc = "idle"
      \/ /\ task'[t].pc = "logs" /\ task'[t].cursor = task[t].to
         /\ task[t].to < task'[t].to /\ task'[t].to \in Nat
  <2>1. CASE task'[t] = Idle
    BY <2>1 DEF Idle
  <2>2. CASE task'[t] = Window(task[t].head, task[t].to) /\ task[t].to < task[t].head
    <3>1. Window(task[t].head, task[t].to) \in Task
      BY <1>3, <2>2, WindowIs
    <3>2. task'[t].to \in Nat
      BY <2>2, <3>1, Bounds DEF Task
    <3> QED BY <1>3, <2>2, <3>2, WindowIs
  <2> QED BY <1>2, <2>1, <2>2
<1>5. \A e \in Events : task[t].to < e[1] => SlipsBack(e)
  BY <1>1 DEF SlipsBack, Reading
<1>6. ASSUME NEW e \in Events PROVE SlipsBack(e)' => SlipsBack(e)
  <2>1. last' < e[1] => SlipsBack(e)
    BY <1>2, <1>5
  <2>2. task'[t].pc = "logs" /\ task'[t].to < e[1] => task[t].to < e[1]
    BY <1>3, <1>4
  <2> QED BY <1>0, <1>2, <1>5, <2>1, <2>2, SlipsFrame
<1>7. ASSUME NEW e \in Events
      PROVE  stored'[e] + Weight(t, e)' + Again(e)' <= stored[e] + Weight(t, e) + Again(e) + 0
  <2>1. stored'[e] \in Nat /\ stored'[e] <= Pushed(t)[e]
    BY <1>0, <1>1, <1>2, PushedIs, TrimKeepsNewest DEF TypeOK
  <2>2. /\ Weight(t, e) = (IF Passed(t, e) THEN 0 ELSE 1) /\ Again(e) = 0
        /\ Weight(t, e)' \in {0, 1} /\ Again(e)' \in {0, 1}
    BY <1>1, WeightIs, WeightNext
  <2>3. CASE task[t].to < e[1]
    <3>1. Pushed(t)[e] = stored[e] /\ stored[e] \in Nat
      BY <1>0, <1>1, <1>3, <2>3, PushIsPaid
    <3>2. ~Passed(t, e)
      BY <1>3, <2>3 DEF Passed
    <3>3. Weight(t, e)' + Again(e)' <= 1
      BY <1>4, <2>2, WeightNext
    <3> QED BY <2>1, <2>2, <3>1, <3>2, <3>3
  <2>4. CASE e[1] <= task[t].to
    <3>1. Again(e)' = 0
      BY <1>2, <1>3, <2>4, WeightNext
    <3>2. Weight(t, e)' = 0
      <4>1. CASE task'[t].pc = "idle"
        BY <4>1, WeightNext
      <4>2. CASE task'[t].pc = "logs" /\ task'[t].cursor = task[t].to
        <5>1. Passed(t, e)'
          BY <2>4, <4>2 DEF Passed
        <5> QED BY <4>2, <5>1, WeightNext
      <4> QED BY <1>4, <4>1, <4>2
    <3>3. Pushed(t)[e] <= stored[e] + Weight(t, e) /\ stored[e] \in Nat /\ Pushed(t)[e] \in Nat
      BY <1>0, <1>1, <2>2, PushIsPaid
    <3> QED BY <2>1, <2>2, <3>1, <3>2, <3>3
  <2> QED BY <1>3, <2>3, <2>4
<1>8. mishaps'.failed + mishaps'.overlapped = mishaps.failed + mishaps.overlapped + 0
  BY <1>0, <1>1 DEF TypeOK
<1> QED BY <1>2, <1>6, <1>7, <1>8, CopiesFrame

\* A failure pays for reading its window again.
LEMMA CopiesFailTick ==
  ASSUME CopiesInv, NEW t \in Ticks, FailTick(t)
  PROVE  CopiesInv'
<1>0. TypeOK
  BY DEF CopiesInv
<1>1. /\ TypeOK' /\ task' = [task EXCEPT ![t] = task'[t]] /\ task'[t].pc = "idle"
      /\ task[t].pc # "idle" /\ UNCHANGED <<last, stored>> /\ Mishap("failed")
  <2>1. TypeOK' /\ task' = [task EXCEPT ![t] = task'[t]] /\ task'[t] = Idle
    BY <1>0, FailTickTypes
  <2>2. task[t].pc # "idle" /\ UNCHANGED <<last, stored>> /\ Mishap("failed")
    BY DEF FailTick, stateVars
  <2> QED BY <2>1, <2>2 DEF Idle
<1>2. \A e \in Events : SlipsBack(e)' => SlipsBack(e)
  BY <1>0, <1>1, SlipsFrame DEF SlipsBack
<1>3. ASSUME NEW e \in Events
      PROVE  stored'[e] + Weight(t, e)' + Again(e)' <= stored[e] + Weight(t, e) + Again(e) + 1
  <2>1. Weight(t, e)' = 0 /\ Again(e)' \in {0, 1} /\ Again(e) = 0 /\ Weight(t, e) \in {0, 1}
    BY <1>1, WeightIs, WeightNext
  <2> QED BY <1>1, <2>1, PushersFinite
<1>4. mishaps'.failed + mishaps'.overlapped = mishaps.failed + mishaps.overlapped + 1
  BY <1>0, <1>1, MishapTyped DEF TypeOK
<1> QED BY <1>1, <1>2, <1>3, <1>4, CopiesFrame

\* Nothing is stored at the start.
LEMMA CopiesInit ==
  ASSUME Init
  PROVE  CopiesInv
<1>1. TypeOK
  BY InitTypes
<1>2. Running = {}
  BY DEF Init, Running, Idle
<1>3. ASSUME NEW e \in Events
      PROVE  stored[e] + Cardinality(Pushers(e)) + Again(e) <= 1 + mishaps.failed + mishaps.overlapped
  <2>1. Pushers(e) = {}
    BY <1>2 DEF Pushers
  <2>2. Cardinality(Pushers(e)) = 0
    BY <2>1, FS_EmptySet
  <2> QED BY <2>2 DEF Init, Again
<1> QED BY <1>1, <1>2, <1>3, FS_EmptySet DEF CopiesInv

\* Every step keeps it.
LEMMA CopiesNext ==
  ASSUME CopiesInv, [Next]_vars
  PROVE  CopiesInv'
<1>1. ASSUME NEW kinds \in SUBSET KindSet, Mine(kinds) PROVE CopiesInv'
  <2>1. TypeOK' /\ UNCHANGED <<last, stored, task, mishaps>>
    BY <1>1, MineTypes DEF CopiesInv, Mine, stateVars
  <2> QED BY <2>1 DEF CopiesInv, Running, Pushers, Again, SlipsBack, Reading, Passed
<1>2. CASE UNCHANGED vars
  BY <1>2 DEF vars, CopiesInv, TypeOK, Running, Pushers, Again, SlipsBack, Reading, Passed
<1> QED
  BY <1>1, <1>2, CopiesStartTick, CopiesReadHead, CopiesNarrow, CopiesReadLogs, CopiesFinishWindow,
     CopiesFailTick DEF Next, TickStep

\* An event is stored once, and once more for every tick that failed or began
\* while another ran (the unawaited interval and the shared cursor): narrowed
\* windows, and a cursor that a slower tick writes back, cost nothing more.
THEOREM DuplicatesArePaidFor == Spec => []CopiesAreExplained
<1>1. Init => CopiesInv
  BY CopiesInit
<1>2. CopiesInv /\ [Next]_vars => CopiesInv'
  BY CopiesNext
<1>3. CopiesInv => CopiesAreExplained
  <2> SUFFICES ASSUME CopiesInv, NEW e \in Events
               PROVE  stored[e] <= 1 + mishaps.failed + mishaps.overlapped
    BY DEF CopiesAreExplained
  <2>1. stored[e] + Cardinality(Pushers(e)) + Again(e) <= 1 + mishaps.failed + mishaps.overlapped
    BY DEF CopiesInv
  <2> QED BY <2>1, PushersFinite
<1> QED BY <1>1, <1>2, <1>3, PTL DEF Spec
=============================================================================
