-------------------------- MODULE HandleClient_proofs -------------------------
(***************************************************************************)
(* What a refusal means to a reader of a handle, and how long a call lasts, *)
(* for any backoff policy, any number of readers and any failures.         *)
(***************************************************************************)
EXTENDS HandleClientSafety, FiniteSetTheorems, TLAPS

\* Grants are permanent, so whom the chain allowed when its call began it still
\* allows; and a refusal is the chain's word, not the gateway's.
RefusalInv ==
  /\ before \subseteq granted
  /\ pc \in [Clients -> Ends \cup InCall]
  /\ RefusalIsTrue

LEMMA InitRefusal == Init => RefusalInv
BY DEF Init, RefusalInv, RefusalIsTrue, Ends, InCall

\* Every step of a call but the refusal of CheckChain ends it otherwise.
LEMMA ClientRefusal ==
  ASSUME RefusalInv, NEW c \in Clients,
         \/ \E status \in Retryable \cup {"4xx", "noAnswer"} : PollFails(c, status)
         \/ ClientStep(c) \/ Slow(c) \/ AskFails(c)
  PROVE  RefusalInv'
<1> USE DEF RefusalInv, RefusalIsTrue
<1>1. UNCHANGED <<granted, before>>
  BY DEF PollFails, ClientStep, Poll, Ask, CheckChain, Slow, AskFails, world, call
<1>2. \/ UNCHANGED pc
      \/ \E how \in (Ends \cup InCall) \ {"refused"} : End(c, how)
      \/ ~AllowedOnChain(c) /\ End(c, "refused")
  <2>1. ASSUME NEW status, PollFails(c, status)
        PROVE  UNCHANGED pc \/ \E how \in (Ends \cup InCall) \ {"refused"} : End(c, how)
    BY <2>1 DEF PollFails, Pause, Ends, InCall
  <2>2. CASE Poll(c)
    BY <2>2 DEF Poll, Resolved, Pause, Ends, InCall
  <2>3. CASE Ask(c)
    BY <2>3 DEF Ask, Ends, InCall
  <2>4. CASE CheckChain(c)
    BY <2>4 DEF CheckChain, Ends, InCall
  <2>5. CASE Slow(c) \/ AskFails(c)
    BY <2>5 DEF Slow, AskFails, Ends, InCall
  <2> QED
    BY <2>1, <2>2, <2>3, <2>4, <2>5 DEF ClientStep
<1>3. CASE UNCHANGED pc
  BY <1>1, <1>3
<1>4. ASSUME NEW how \in (Ends \cup InCall) \ {"refused"}, End(c, how) PROVE RefusalInv'
  BY <1>1, <1>4 DEF End
<1>5. CASE ~AllowedOnChain(c) /\ End(c, "refused")
  BY <1>1, <1>5 DEF AllowedOnChain, End, Ends
<1> QED
  BY <1>2, <1>3, <1>4, <1>5

LEMMA NextRefusal == RefusalInv /\ [Next]_vars => RefusalInv'
<1> SUFFICES ASSUME RefusalInv, [Next]_vars PROVE RefusalInv'
  OBVIOUS
<1> USE DEF RefusalInv, RefusalIsTrue
<1>1. ASSUME NEW c \in Clients, NEW k \in Kinds, Call(c, k) PROVE RefusalInv'
  <2>1. /\ granted' = granted
        /\ before' = (before \ Held(c, before)) \cup Held(c, granted)
        /\ \E how \in {"notReady", "poll"} : pc' = [pc EXCEPT ![c] = how]
    BY <1>1 DEF Call, End, world
  <2>2. before' \subseteq granted' /\ \A d \in Clients \ {c} :
          <<d, "allow">> \in before' => <<d, "allow">> \in before
    BY <2>1 DEF Held
  <2> QED
    BY <2>1, <2>2 DEF Ends, InCall
<1>2. ASSUME NEW c \in Clients,
             \/ \E status \in Retryable \cup {"4xx", "noAnswer"} : PollFails(c, status)
             \/ ClientStep(c) \/ Slow(c) \/ AskFails(c)
      PROVE  RefusalInv'
  BY <1>2, ClientRefusal
<1>3. CASE Compute \/ FailToCompute
  BY <1>3 DEF Compute, FailToCompute, call
<1>4. ASSUME NEW g \in Grants, Grant(g) \/ IndexGrant(g) PROVE RefusalInv'
  BY <1>4 DEF Grant, IndexGrant, call
<1>5. CASE UNCHANGED vars
  BY <1>5 DEF vars, world, call
<1> QED
  BY <1>1, <1>2, <1>3, <1>4, <1>5 DEF Next

\* "You may not read this" is never said to an account that the chain allowed when
\* it asked, however far the gateway's view is behind.
THEOREM RefusalsAreTrue == Spec => []RefusalIsTrue
<1>1. RefusalInv => RefusalIsTrue
  BY DEF RefusalInv
<1> QED
  BY <1>1, InitRefusal, NextRefusal, PTL DEF Spec

-----------------------------------------------------------------------------
(* Functions defined by recursion on the naturals. *)

\* A set of naturals that is not empty has a least element.
LEMMA Smallest ==
  ASSUME NEW T \in SUBSET Nat, T # {}
  PROVE  \E n \in T : \A m \in T : n <= m
<1> DEFINE R == OpToRel(<, Nat)
<1>1. PICK n \in T : \A m \in T : ~ (<<m, n>> \in R)
  <2>1. IsWellFoundedOn(R, Nat)
    BY NatLessThanWellFounded
  <2> HIDE DEF R
  <2> QED BY <2>1, WFMin
<1>2. \A m \in T : n <= m
  <2> TAKE m \in T
  <2>1. m \in Nat /\ n \in Nat
    OBVIOUS
  <2>2. ~(m < n)
    BY <1>1, <2>1 DEF OpToRel
  <2> QED BY <2>1, <2>2
<1> QED BY <1>2

\* Induction in first-order form: a set that holds zero and every successor holds Nat.
LEMMA Induction ==
  ASSUME NEW T, 0 \in T, \A n \in Nat : n \in T => n + 1 \in T
  PROVE  \A n \in Nat : n \in T
<1> SUFFICES ASSUME Nat \ T # {} PROVE FALSE
  OBVIOUS
<1>1. PICK n \in Nat \ T : \A m \in Nat \ T : n <= m
  BY Smallest
<1>2. n - 1 \in Nat /\ n - 1 + 1 = n
  BY n \in Nat, n # 0
<1> QED BY <1>1, <1>2

\* g follows the recursion that starts at x and steps by G, up to n.
Follows(g, x, G, n) ==
  g \in [0 .. n -> Nat] /\ g[0] = x /\ \A k \in Nat : k < n => g[k + 1] = G[<<k, g[k]>>]

\* Two that follow it agree as far as both go.
LEMMA FollowersAgree ==
  ASSUME NEW g, NEW h, NEW x, NEW G, NEW n \in Nat, NEW m \in Nat,
         Follows(g, x, G, n), Follows(h, x, G, m)
  PROVE  \A k \in Nat : k <= n /\ k <= m => g[k] = h[k]
<1> DEFINE T == {k \in Nat : k <= n /\ k <= m => g[k] = h[k]}
<1>1. 0 \in T
  BY DEF Follows
<1>2. ASSUME NEW k \in Nat, k \in T PROVE k + 1 \in T
  <2>1. SUFFICES ASSUME k + 1 <= n, k + 1 <= m PROVE g[k + 1] = h[k + 1]
    OBVIOUS
  <2>2. k < n /\ k < m /\ k <= n /\ k <= m
    BY <2>1
  <2>3. g[k] = h[k]
    BY <1>2, <2>2
  <2>4. g[k + 1] = G[<<k, g[k]>>] /\ h[k + 1] = G[<<k, h[k]>>]
    BY <2>2 DEF Follows
  <2> QED BY <2>3, <2>4
<1> HIDE DEF T
<1>3. \A k \in Nat : k \in T
  BY <1>1, <1>2, Induction
<1> QED BY <1>3 DEF T

\* There is one up to any place.
LEMMA FollowersExist ==
  ASSUME NEW x \in Nat, NEW G \in [Nat \X Nat -> Nat]
  PROVE  \A n \in Nat : \E g : Follows(g, x, G, n)
<1> DEFINE T == {n \in Nat : \E g : Follows(g, x, G, n)}
<1>1. 0 \in T
  <2>1. Follows([k \in 0 .. 0 |-> x], x, G, 0)
    BY DEF Follows
  <2> QED BY <2>1
<1>2. ASSUME NEW n \in Nat, n \in T PROVE n + 1 \in T
  <2>1. PICK g : Follows(g, x, G, n)
    BY <1>2
  <2> DEFINE h == [k \in 0 .. n + 1 |-> IF k <= n THEN g[k] ELSE G[<<n, g[n]>>]]
  <2>2. g \in [0 .. n -> Nat] /\ n \in 0 .. n /\ g[n] \in Nat
    BY <2>1 DEF Follows
  <2>3. G[<<n, g[n]>>] \in Nat
    BY <2>2
  <2>4. h \in [0 .. n + 1 -> Nat]
    BY <2>2, <2>3
  <2>5. h[0] = x
    BY <2>1 DEF Follows
  <2>6. ASSUME NEW k \in Nat, k < n + 1 PROVE h[k + 1] = G[<<k, h[k]>>]
    <3>1. CASE k < n
      BY <2>1, <3>1 DEF Follows
    <3>2. CASE k = n
      <4>1. n + 1 \in 0 .. n + 1 /\ ~(n + 1 <= n) /\ n \in 0 .. n + 1 /\ n <= n
        OBVIOUS
      <4>2. h[n + 1] = G[<<n, g[n]>>]
        BY <4>1
      <4>3. h[n] = g[n]
        BY <4>1
      <4> QED BY <3>2, <4>2, <4>3
    <3> QED BY <2>6, <3>1, <3>2
  <2> HIDE DEF h
  <2>7. Follows(h, x, G, n + 1)
    BY <2>4, <2>5, <2>6 DEF Follows
  <2> QED BY <2>7
<1> HIDE DEF T
<1>3. \A n \in Nat : n \in T
  BY <1>1, <1>2, Induction
<1> QED BY <1>3 DEF T

\* So there is one on all of Nat.
LEMMA RecursionExists ==
  ASSUME NEW x \in Nat, NEW G \in [Nat \X Nat -> Nat]
  PROVE  \E f \in [Nat -> Nat] : f[0] = x /\ \A n \in Nat : f[n + 1] = G[<<n, f[n]>>]
<1> DEFINE F(n) == CHOOSE g : Follows(g, x, G, n)
           f == [n \in Nat |-> F(n)[n]]
<1>1. \A n \in Nat : Follows(F(n), x, G, n)
  BY FollowersExist
<1> HIDE DEF F
<1>2. \A n \in Nat : F(n)[n] \in Nat
  <2> TAKE n \in Nat
  <2>1. F(n) \in [0 .. n -> Nat] /\ n \in 0 .. n
    BY <1>1 DEF Follows
  <2> QED BY <2>1
<1>3. F(0)[0] = x
  BY <1>1 DEF Follows
<1>4. ASSUME NEW n \in Nat PROVE F(n + 1)[n + 1] = G[<<n, F(n)[n]>>]
  <2>1. F(n + 1)[n] = F(n)[n]
    <3>1. n + 1 \in Nat /\ n <= n + 1 /\ n <= n
      OBVIOUS
    <3> QED BY <1>1, <3>1, FollowersAgree
  <2>2. F(n + 1)[n + 1] = G[<<n, F(n + 1)[n]>>]
    <3>1. n + 1 \in Nat /\ n < n + 1
      OBVIOUS
    <3>2. Follows(F(n + 1), x, G, n + 1)
      BY <1>1, <3>1
    <3> DEFINE h == F(n + 1)
    <3>3. Follows(h, x, G, n + 1)
      BY <3>2
    <3> HIDE DEF h
    <3>4. h[n + 1] = G[<<n, h[n]>>]
      BY <3>1, <3>3 DEF Follows
    <3> QED BY <3>4 DEF h
  <2> QED BY <2>1, <2>2
<1>5. f \in [Nat -> Nat] /\ f[0] = x /\ \A n \in Nat : f[n + 1] = G[<<n, f[n]>>]
  BY <1>2, <1>3, <1>4
<1> QED BY <1>5

-----------------------------------------------------------------------------
(* The schedule of the pauses. *)

\* The smaller of two.
LEMMA MinOfTwo ==
  ASSUME NEW a \in Nat, NEW b \in Nat
  PROVE  /\ Min({a, b}) \in {a, b} /\ Min({a, b}) <= a /\ Min({a, b}) <= b
BY DEF Min

\* A pause grows and stays within its cap.
LEMMA Grown ==
  ASSUME NEW d \in 1 .. MaxDelay
  PROVE  Min({d * Multiplier, MaxDelay}) \in 1 .. MaxDelay
<1>1. Multiplier \in Nat \ {0} /\ MaxDelay \in Nat \ {0}
  BY PolicyAssumption
<1>2. d * Multiplier \in Nat /\ d * Multiplier >= 1
  BY <1>1
<1> DEFINE e == d * Multiplier
<1> HIDE DEF e
<1>3. Min({e, MaxDelay}) \in {e, MaxDelay} /\ Min({e, MaxDelay}) <= MaxDelay
  BY <1>1, <1>2, MinOfTwo DEF e
<1>4. Min({e, MaxDelay}) \in 1 .. MaxDelay
  BY <1>1, <1>2, <1>3 DEF e
<1> QED BY <1>4 DEF e

\* The pauses are as their equation says.
LEMMA DelayUnfolds ==
  Delay = [n \in Nat |-> IF n <= 1 THEN InitialDelay ELSE Min({Delay[n - 1] * Multiplier, MaxDelay})]
<1> DEFINE G == [p \in Nat \X Nat |->
                   IF p[1] = 0 THEN InitialDelay ELSE Min({p[2] * Multiplier, MaxDelay})]
<1>1. InitialDelay \in Nat /\ Multiplier \in Nat /\ MaxDelay \in Nat
  BY PolicyAssumption
<1>2. ASSUME NEW p \in Nat \X Nat
      PROVE  (IF p[1] = 0 THEN InitialDelay ELSE Min({p[2] * Multiplier, MaxDelay})) \in Nat
  <2>1. p[2] * Multiplier \in Nat
    BY <1>1
  <2> DEFINE e == p[2] * Multiplier
  <2> HIDE DEF e
  <2>2. Min({e, MaxDelay}) \in {e, MaxDelay}
    BY <1>1, <2>1, MinOfTwo DEF e
  <2>3. Min({e, MaxDelay}) \in Nat
    BY <1>1, <2>1, <2>2 DEF e
  <2> QED BY <1>1, <2>3 DEF e
<1>3. G \in [Nat \X Nat -> Nat]
  BY <1>2
<1>4. PICK f \in [Nat -> Nat] : f[0] = InitialDelay /\ \A n \in Nat : f[n + 1] = G[<<n, f[n]>>]
  <2> HIDE DEF G
  <2> QED BY <1>1, <1>3, RecursionExists
<1> DEFINE H(g) == [n \in Nat |-> IF n <= 1 THEN InitialDelay ELSE Min({g[n - 1] * Multiplier, MaxDelay})]
<1>5. ASSUME NEW n \in Nat PROVE f[n] = H(f)[n]
  <2>1. CASE n = 0
    BY <1>4, <2>1
  <2>2. CASE n # 0
    <3>1. n - 1 \in Nat /\ n - 1 + 1 = n /\ <<n - 1, f[n - 1]>> \in Nat \X Nat
      BY <2>2
    <3>2. f[n] = G[<<n - 1, f[n - 1]>>]
      <4> HIDE DEF G
      <4> QED BY <1>4, <3>1
    <3> QED BY <2>2, <3>1, <3>2
  <2> QED BY <2>1, <2>2
<1>6. f = H(f)
  BY <1>5
<1>7. \E g : g = H(g)
  BY <1>6
<1>8. Delay = CHOOSE g : g = H(g)
  BY DEF Delay
<1>9. Delay = H(Delay)
  <2> HIDE DEF H
  <2> QED BY <1>7, <1>8
<1> QED BY <1>9

\* Every pause lies between one and the cap.
LEMMA DelayBounds ==
  /\ \A n \in Nat : Delay[n] \in 1 .. MaxDelay
<1>1. InitialDelay \in 1 .. MaxDelay
  BY PolicyAssumption
<1> DEFINE T == {n \in Nat : Delay[n] \in 1 .. MaxDelay}
<1>2. ASSUME NEW n \in Nat, n <= 1 PROVE Delay[n] = InitialDelay
  BY <1>2, DelayUnfolds
<1>3. 0 \in T
  BY <1>1, <1>2
<1>4. ASSUME NEW n \in Nat, n \in T PROVE n + 1 \in T
  <2>1. CASE n = 0
    BY <1>1, <1>2, <2>1
  <2>2. CASE n # 0
    <3>1. n + 1 \in Nat /\ ~(n + 1 <= 1) /\ n + 1 - 1 = n
      BY <2>2
    <3>2. Delay[n + 1] = Min({Delay[n] * Multiplier, MaxDelay})
      <4>1. PICK k \in Nat : k = n + 1
        BY <3>1
      <4>2. ~(k <= 1) /\ k - 1 = n
        BY <3>1, <4>1
      <4>3. Delay[k] = Min({Delay[k - 1] * Multiplier, MaxDelay})
        BY <4>2, DelayUnfolds
      <4> QED BY <4>1, <4>2, <4>3
    <3>3. Delay[n] \in 1 .. MaxDelay
      BY <1>4
    <3>4. Delay[n + 1] \in 1 .. MaxDelay
      BY <3>2, <3>3, Grown
    <3> QED BY <3>1, <3>4
  <2> QED BY <2>1, <2>2
<1> HIDE DEF T
<1>5. \A n \in Nat : n \in T
  BY <1>3, <1>4, Induction
<1> QED BY <1>5 DEF T

\* What the pauses come to is as its equation says.
LEMMA ElapsedUnfolds ==
  /\ Elapsed[0] = 0
  /\ \A n \in Nat : Elapsed[n] \in Nat /\ Elapsed[n + 1] = Elapsed[n] + Delay[n + 1]
<1> DEFINE G == [p \in Nat \X Nat |-> p[2] + Delay[p[1] + 1]]
<1>1. ASSUME NEW p \in Nat \X Nat PROVE p[2] + Delay[p[1] + 1] \in Nat
  <2>1. p[1] + 1 \in Nat /\ p[2] \in Nat
    OBVIOUS
  <2>2. Delay[p[1] + 1] \in 1 .. MaxDelay /\ MaxDelay \in Nat
    BY <2>1, DelayBounds, PolicyAssumption
  <2> QED BY <2>1, <2>2
<1>2. G \in [Nat \X Nat -> Nat]
  BY <1>1
<1>3. PICK f \in [Nat -> Nat] : f[0] = 0 /\ \A n \in Nat : f[n + 1] = G[<<n, f[n]>>]
  <2>1. 0 \in Nat
    OBVIOUS
  <2> HIDE DEF G
  <2> QED BY <1>2, <2>1, RecursionExists
<1> DEFINE H(g) == [n \in Nat |-> IF n = 0 THEN 0 ELSE g[n - 1] + Delay[n]]
<1>4. ASSUME NEW n \in Nat PROVE f[n + 1] = f[n] + Delay[n + 1]
  <2>1. <<n, f[n]>> \in Nat \X Nat
    OBVIOUS
  <2>2. f[n + 1] = G[<<n, f[n]>>]
    <3> HIDE DEF G
    <3> QED BY <1>3
  <2> QED BY <2>1, <2>2
<1>5. ASSUME NEW g, g = H(g), NEW n \in Nat
      PROVE  g[0] = 0 /\ g[n + 1] = g[n] + Delay[n + 1]
  <2>1. n + 1 \in Nat /\ n + 1 # 0 /\ n + 1 - 1 = n
    OBVIOUS
  <2>2. H(g)[0] = 0 /\ H(g)[n + 1] = g[n] + Delay[n + 1]
    BY <2>1
  <2> QED BY <1>5, <2>2
<1>6. ASSUME NEW n \in Nat PROVE f[n] = H(f)[n]
  <2>1. CASE n = 0
    BY <1>3, <2>1
  <2>2. CASE n # 0
    <3>1. n - 1 \in Nat /\ n - 1 + 1 = n
      BY <2>2
    <3>2. f[n - 1 + 1] = f[n - 1] + Delay[n - 1 + 1]
      BY <1>4, <3>1
    <3>3. f[n] = f[n - 1] + Delay[n]
      BY <3>1, <3>2
    <3> QED BY <2>2, <3>3
  <2> QED BY <2>1, <2>2
<1>7. f = H(f)
  BY <1>6
<1>8. Elapsed = CHOOSE g : g = H(g)
  BY DEF Elapsed
<1>9. Elapsed = H(Elapsed)
  <2> HIDE DEF H
  <2>1. \E g : g = H(g)
    BY <1>7
  <2> QED BY <1>8, <2>1
<1>10. Elapsed[0] = 0 /\ \A n \in Nat : Elapsed[n + 1] = Elapsed[n] + Delay[n + 1]
  <2> HIDE DEF H
  <2>1. 0 \in Nat
    OBVIOUS
  <2> QED BY <1>5, <1>9, <2>1
<1> DEFINE T == {n \in Nat : Elapsed[n] \in Nat}
<1>11. 0 \in T
  BY <1>10
<1>12. ASSUME NEW n \in Nat, n \in T PROVE n + 1 \in T
  <2>1. n + 1 \in Nat /\ Elapsed[n] \in Nat
    BY <1>12
  <2>2. Delay[n + 1] \in 1 .. MaxDelay /\ MaxDelay \in Nat
    BY <2>1, DelayBounds, PolicyAssumption
  <2>3. Elapsed[n] + Delay[n + 1] \in Nat
    BY <2>1, <2>2
  <2> QED BY <1>10, <2>1, <2>3
<1> HIDE DEF T
<1>13. \A n \in Nat : n \in T
  BY <1>11, <1>12, Induction
<1> QED BY <1>10, <1>13 DEF T

\* The n-th pause ends no earlier than n, and within a cap of the one before it.
LEMMA ElapsedGrows ==
  /\ \A n \in Nat : n <= Elapsed[n]
  /\ \A n \in Nat : Elapsed[n] < Elapsed[n + 1] /\ Elapsed[n + 1] <= Elapsed[n] + MaxDelay
  /\ \A n, m \in Nat : n <= m => Elapsed[n] <= Elapsed[m]
<1>1. ASSUME NEW n \in Nat
      PROVE  Elapsed[n] < Elapsed[n + 1] /\ Elapsed[n + 1] <= Elapsed[n] + MaxDelay
  <2>1. n + 1 \in Nat
    OBVIOUS
  <2>2. Delay[n + 1] \in 1 .. MaxDelay /\ MaxDelay \in Nat
    BY <2>1, DelayBounds, PolicyAssumption
  <2> QED BY <2>2, ElapsedUnfolds
<1> DEFINE T == {n \in Nat : n <= Elapsed[n]}
<1>2. 0 \in T
  BY ElapsedUnfolds
<1>3. ASSUME NEW n \in Nat, n \in T PROVE n + 1 \in T
  <2>1. n + 1 \in Nat /\ Elapsed[n] \in Nat /\ Elapsed[n + 1] \in Nat
    BY ElapsedUnfolds
  <2> QED BY <1>1, <1>3, <2>1
<1>4. \A n \in Nat : n \in T
  <2> HIDE DEF T
  <2> QED BY <1>2, <1>3, Induction
<1>5. ASSUME NEW n \in Nat PROVE \A m \in Nat : n <= m => Elapsed[n] <= Elapsed[m]
  <2> DEFINE U == {m \in Nat : n <= m => Elapsed[n] <= Elapsed[m]}
  <2>1. 0 \in U
    <3>1. n <= 0 => n = 0
      OBVIOUS
    <3> QED BY <3>1, ElapsedUnfolds
  <2>2. ASSUME NEW m \in Nat, m \in U PROVE m + 1 \in U
    <3>1. Elapsed[n] \in Nat /\ Elapsed[m] \in Nat /\ Elapsed[m + 1] \in Nat /\ Elapsed[m] < Elapsed[m + 1]
      BY <1>1, ElapsedUnfolds
    <3>2. CASE n = m + 1
      BY <3>1, <3>2
    <3>3. CASE n # m + 1
      BY <2>2, <3>1, <3>3
    <3> QED BY <3>2, <3>3
  <2> HIDE DEF U
  <2>3. \A m \in Nat : m \in U
    BY <2>1, <2>2, Induction
  <2> QED BY <2>3 DEF U
<1> QED BY <1>1, <1>4, <1>5

\* The polls are the pauses that end within the budget, so the last one ends
\* within it and the next would not.
LEMMA PollsFit ==
  /\ Polls \in Nat
  /\ Elapsed[Polls] <= Timeout
  /\ Elapsed[Polls + 1] > Timeout
<1>1. Timeout \in Nat
  BY PolicyAssumption
<1> DEFINE Late == {n \in Nat : Elapsed[n] > Timeout}
<1>2. Timeout + 1 \in Late
  <2>1. Timeout + 1 \in Nat /\ Timeout + 1 <= Elapsed[Timeout + 1] /\ Elapsed[Timeout + 1] \in Nat
    BY <1>1, ElapsedGrows, ElapsedUnfolds
  <2> QED BY <1>1, <2>1
<1>3. PICK q \in Late : \A m \in Late : q <= m
  <2>1. Late \in SUBSET Nat /\ Late # {}
    BY <1>2
  <2> HIDE DEF Late
  <2> QED BY <2>1, Smallest
<1>4. q \in Nat /\ Elapsed[q] > Timeout
  BY <1>3
<1>5. q # 0
  BY <1>1, <1>4, ElapsedUnfolds
<1>6. PICK p \in Nat : q = p + 1
  <2>1. q - 1 \in Nat /\ q = q - 1 + 1
    BY <1>4, <1>5
  <2> QED BY <2>1
<1>7. Elapsed[p] \in Nat /\ Elapsed[p] <= Timeout
  <2>1. ~(q <= p)
    BY <1>6
  <2>2. p \notin Late
    BY <1>3, <2>1
  <2> QED BY <1>1, <2>2, ElapsedUnfolds
<1>8. p <= Timeout
  BY <1>1, <1>7, ElapsedGrows
<1>9. {n \in 1 .. Timeout : Elapsed[n] <= Timeout} = 1 .. p
  <2>1. ASSUME NEW n \in 1 .. Timeout PROVE Elapsed[n] <= Timeout <=> n <= p
    <3>1. n \in Nat /\ Elapsed[n] \in Nat /\ Elapsed[q] \in Nat
      BY <1>1, <1>4, ElapsedUnfolds
    <3>2. n <= p => Elapsed[n] <= Elapsed[p]
      BY <3>1, ElapsedGrows
    <3>3. q <= n => Elapsed[q] <= Elapsed[n]
      BY <1>4, <3>1, ElapsedGrows
    <3>4. n <= p \/ q <= n
      BY <1>6, <3>1
    <3>5. ~(n <= p /\ q <= n)
      BY <1>6, <3>1
    <3> QED BY <1>1, <1>4, <1>7, <3>1, <3>2, <3>3, <3>4
  <2>2. \A n : n \in 1 .. p => n \in 1 .. Timeout /\ n <= p
    BY <1>1, <1>8
  <2>3. \A n \in 1 .. Timeout : n <= p => n \in 1 .. p
    BY <1>1
  <2> QED BY <2>1, <2>2, <2>3
<1>10. Cardinality(1 .. p) = p
  <2>1. 1 \in Int /\ p \in Int
    OBVIOUS
  <2>2. Cardinality(1 .. p) = IF 1 > p THEN 0 ELSE p - 1 + 1
    BY <2>1, FS_Interval
  <2> QED BY <2>2
<1>11. Polls = p
  BY <1>9, <1>10 DEF Polls
<1> QED BY <1>4, <1>6, <1>7, <1>11

-----------------------------------------------------------------------------
(* The budget of a call. *)

\* What a call waits is what the pauses behind its polls come to: after the last
\* poll, all that fits the budget.  A decryption pauses only while its deadline
\* is ahead, so it ends less than a pause after it.
BudgetInv ==
  /\ TypeOK
  /\ \A c \in Clients :
       /\ pc[c] = "poll" => attempt[c] \in 1 .. Polls /\ elapsed[c] = Elapsed[attempt[c] - 1]
       /\ elapsed[c] <= Timeout
       /\ pc[c] = "notReady" => elapsed[c] = Elapsed[Polls]
       /\ spent[c] < Timeout + MaxDelay
       /\ pc[c] = "lagging" => spent[c] + slow[c] >= Timeout

\* The numbers of the policy.
LEMMA Policy ==
  /\ InitialDelay \in 1 .. MaxDelay /\ MaxDelay \in Nat \ {0} /\ Timeout \in Nat
  /\ MaxSlow \in Nat /\ MaxMishaps \in Nat /\ Polls \in Nat
BY PolicyAssumption, PollsFit

LEMMA InitBudget == Init => BudgetInv
<1> SUFFICES ASSUME Init PROVE BudgetInv
  OBVIOUS
<1>1. TypeOK
  BY Policy DEF Init, TypeOK, Computations, Ends, Kinds
<1>2. 0 < Timeout + MaxDelay /\ 0 <= Timeout
  BY Policy
<1> QED BY <1>1, <1>2 DEF Init, BudgetInv

LEMMA CallBudget ==
  ASSUME BudgetInv, NEW c \in Clients, NEW k \in Kinds, Call(c, k)
  PROVE  BudgetInv'
<1> USE DEF BudgetInv
<1>1. \E how \in {"notReady", "poll"} :
        /\ pc' = [pc EXCEPT ![c] = how]
        /\ how = "poll" => Polls # 0
        /\ how = "notReady" => Polls = 0
  BY DEF Call, End
<1>2. TypeOK'
  <2>1. 1 \in 0 .. Polls + 1
    BY Policy
  <2>2. before' \subseteq granted'
    BY DEF Call, Held, TypeOK, world
  <2> QED BY <1>1, <2>1, <2>2, Policy DEF Call, TypeOK, Ends, InCall, world
<1>3. 1 \in 1 .. Polls \/ Polls = 0
  BY Policy
<1>4. 0 < Timeout + MaxDelay /\ 0 <= Timeout /\ 1 - 1 = 0 /\ Elapsed[0] = 0
  BY Policy, ElapsedUnfolds
<1>5. \A d \in Clients \ {c} :
        /\ pc'[d] = pc[d] /\ attempt'[d] = attempt[d] /\ elapsed'[d] = elapsed[d]
        /\ spent'[d] = spent[d] /\ slow'[d] = slow[d]
  BY <1>1 DEF Call, TypeOK
<1>6. attempt'[c] = 1 /\ elapsed'[c] = 0 /\ spent'[c] = 0 /\ slow'[c] = 0
  BY DEF Call, TypeOK
<1>7. /\ pc'[c] = "poll" => Polls # 0
      /\ pc'[c] = "notReady" => Polls = 0
      /\ pc'[c] # "lagging"
  BY <1>1 DEF TypeOK
<1> QED BY <1>2, <1>3, <1>4, <1>5, <1>6, <1>7

\* A pause: another poll, or the last one's end.
LEMMA PauseBudget ==
  ASSUME BudgetInv, NEW c \in Clients, pc[c] = "poll", Pause(c),
         mishaps' \in 0 .. MaxMishaps, UNCHANGED <<world, kind, delay, spent, slow, before>>
  PROVE  BudgetInv'
<1> USE DEF BudgetInv
<1> DEFINE a == attempt[c]
<1>1. a \in 1 .. Polls /\ a \in Nat /\ a - 1 \in Nat /\ a - 1 + 1 = a /\ elapsed[c] = Elapsed[a - 1]
  BY Policy
<1>2. Delay[a] \in Nat /\ Elapsed[a - 1] \in Nat /\ Elapsed[a] = Elapsed[a - 1] + Delay[a]
  <2>1. Delay[a] \in 1 .. MaxDelay
    BY <1>1, DelayBounds
  <2>2. Elapsed[a - 1 + 1] = Elapsed[a - 1] + Delay[a - 1 + 1]
    BY <1>1, ElapsedUnfolds
  <2> QED BY <1>1, <2>1, <2>2, Policy, ElapsedUnfolds
<1>3. Elapsed[a] \in Nat /\ Elapsed[a] <= Timeout
  <2>1. Elapsed[a] <= Elapsed[Polls]
    BY <1>1, Policy, ElapsedGrows
  <2> QED BY <1>1, <2>1, Policy, PollsFit, ElapsedUnfolds
<1>4. elapsed' = [elapsed EXCEPT ![c] = Elapsed[a]]
  BY <1>1, <1>2 DEF Pause
<1>5. CASE a = Polls
  <2>1. pc' = [pc EXCEPT ![c] = "notReady"] /\ attempt' = attempt
    BY <1>5 DEF Pause, End
  <2>2. TypeOK'
    BY <1>3, <1>4, <2>1 DEF TypeOK, Ends, world
  <2>3. /\ pc'[c] = "notReady" /\ elapsed'[c] = Elapsed[Polls]
        /\ \A d \in Clients \ {c} : pc'[d] = pc[d] /\ elapsed'[d] = elapsed[d]
    BY <1>4, <1>5, <2>1 DEF TypeOK
  <2> QED BY <1>3, <1>5, <2>1, <2>2, <2>3
<1>6. CASE a # Polls
  <2>1. pc' = pc /\ attempt' = [attempt EXCEPT ![c] = a + 1]
    BY <1>6 DEF Pause
  <2>2. a + 1 \in 1 .. Polls /\ a + 1 - 1 = a
    BY <1>1, <1>6, Policy
  <2>3. a + 1 \in 0 .. Polls + 1
    BY <2>2, Policy
  <2>4. TypeOK'
    BY <1>3, <1>4, <2>1, <2>3 DEF TypeOK, world
  <2>5. /\ attempt'[c] = a + 1 /\ elapsed'[c] = Elapsed[a]
        /\ \A d \in Clients \ {c} : attempt'[d] = attempt[d] /\ elapsed'[d] = elapsed[d]
    BY <1>4, <2>1 DEF TypeOK
  <2> QED BY <1>3, <2>1, <2>2, <2>4, <2>5
<1> QED BY <1>5, <1>6

\* A call that ends otherwise, or goes on to ask, leaves its numbers.
LEMMA EndBudget ==
  ASSUME BudgetInv, NEW c \in Clients,
         NEW how \in (Ends \cup InCall) \ {"poll", "notReady", "lagging"},
         End(c, how), mishaps' \in 0 .. MaxMishaps, UNCHANGED <<world, call>>
  PROVE  BudgetInv'
<1> USE DEF BudgetInv
<1>1. pc' = [pc EXCEPT ![c] = how]
  BY DEF End
<1>2. TypeOK'
  BY <1>1 DEF TypeOK, world, call
<1>3. pc'[c] = how /\ \A d \in Clients \ {c} : pc'[d] = pc[d]
  BY <1>1 DEF TypeOK
<1> QED BY <1>2, <1>3 DEF call

LEMMA PollBudget ==
  ASSUME BudgetInv, NEW c \in Clients,
         Poll(c) \/ \E status : PollFails(c, status)
  PROVE  BudgetInv'
<1>1. mishaps \in 0 .. MaxMishaps /\ computation \in Computations /\ kind \in [Clients -> Kinds]
  BY DEF BudgetInv, TypeOK
<1>2. CASE Poll(c)
  <2>1. CASE Parsed \in {"ready", "failed"}
    <3>1. PICK how \in {"ready", "failed", "ask"} : End(c, how)
      BY <1>2, <2>1 DEF Poll, Resolved
    <3>2. UNCHANGED <<world, call>> /\ mishaps' = mishaps
      BY <1>2, <2>1 DEF Poll, Resolved, call
    <3>3. how \in (Ends \cup InCall) \ {"poll", "notReady", "lagging"}
      BY DEF Ends, InCall
    <3> QED BY <1>1, <3>1, <3>2, <3>3, EndBudget
  <2>2. CASE Parsed \notin {"ready", "failed"}
    <3>1. pc[c] = "poll" /\ Pause(c) /\ UNCHANGED <<world, kind, delay, spent, slow, before>>
          /\ mishaps' = mishaps
      BY <1>2, <2>2 DEF Poll
    <3> QED BY <1>1, <3>1, PauseBudget
  <2> QED BY <2>1, <2>2
<1>3. ASSUME NEW status, PollFails(c, status) PROVE BudgetInv'
  <2>1. mishaps' \in 0 .. MaxMishaps
    BY <1>1, <1>3, Policy DEF PollFails
  <2>2. CASE status \in Retryable
    <3>1. pc[c] = "poll" /\ Pause(c) /\ UNCHANGED <<world, kind, delay, spent, slow, before>>
      BY <1>3, <2>2 DEF PollFails
    <3> QED BY <2>1, <3>1, PauseBudget
  <2>3. CASE status \notin Retryable
    <3>1. End(c, "error") /\ UNCHANGED <<world, call>>
      BY <1>3, <2>3 DEF PollFails, call
    <3>2. "error" \in (Ends \cup InCall) \ {"poll", "notReady", "lagging"}
      BY DEF Ends, InCall
    <3> QED BY <2>1, <3>1, <3>2, EndBudget
  <2> QED BY <2>2, <2>3
<1> QED BY <1>2, <1>3

LEMMA AskBudget ==
  ASSUME BudgetInv, NEW c \in Clients, Ask(c) \/ AskFails(c)
  PROVE  BudgetInv'
<1>1. PICK how \in {"check", "value", "error"} : End(c, how)
  BY DEF Ask, AskFails
<1>2. UNCHANGED <<world, call>>
  BY DEF Ask, AskFails
<1>3. mishaps' \in 0 .. MaxMishaps
  BY Policy DEF Ask, AskFails, BudgetInv, TypeOK
<1>4. how \in (Ends \cup InCall) \ {"poll", "notReady", "lagging"}
  BY DEF Ends, InCall
<1> QED BY <1>1, <1>2, <1>3, <1>4, EndBudget

\* The refusal: final, behind the deadline, or before it.
LEMMA CheckBudget ==
  ASSUME BudgetInv, NEW c \in Clients, CheckChain(c)
  PROVE  BudgetInv'
<1>1. /\ UNCHANGED <<world, kind, attempt, elapsed, slow, before, mishaps>>
      /\ TypeOK
  BY DEF CheckChain, BudgetInv
<1>2. CASE ~AllowedOnChain(c)
  <2>1. End(c, "refused") /\ UNCHANGED <<world, call>>
    BY <1>1, <1>2 DEF CheckChain, call
  <2>2. "refused" \in (Ends \cup InCall) \ {"poll", "notReady", "lagging"}
    BY DEF Ends, InCall
  <2>3. mishaps' \in 0 .. MaxMishaps
    BY <1>1 DEF TypeOK
  <2> QED BY <2>1, <2>2, <2>3, EndBudget
<1>3. CASE AllowedOnChain(c) /\ spent[c] + slow[c] >= Timeout
  <2>1. spent[c] \in Nat /\ slow[c] \in Nat
    BY <1>1, Policy DEF TypeOK
  <2>2. ~(spent[c] + slow[c] < Timeout)
    BY <1>3, <2>1, Policy
  <2>3. pc' = [pc EXCEPT ![c] = "lagging"] /\ UNCHANGED <<delay, spent>>
    BY <1>3, <2>2 DEF CheckChain, End
  <2>4. TypeOK'
    BY <1>1, <2>3 DEF TypeOK, Ends, world
  <2>5. pc'[c] = "lagging" /\ \A d \in Clients \ {c} : pc'[d] = pc[d]
    BY <1>1, <2>3 DEF TypeOK
  <2> QED BY <1>1, <1>3, <2>3, <2>4, <2>5 DEF BudgetInv
<1>4. CASE AllowedOnChain(c) /\ ~(spent[c] + slow[c] >= Timeout)
  <2>1. spent[c] \in Nat /\ slow[c] \in Nat /\ delay[c] \in 1 .. MaxDelay
    BY <1>1, Policy DEF TypeOK
  <2> DEFINE s == spent[c] + delay[c]
             e == Min({delay[c] * Multiplier, MaxDelay})
  <2>2. s \in Nat /\ s < Timeout + MaxDelay
    BY <1>4, <2>1, Policy
  <2>3. e \in 1 .. MaxDelay
    BY <2>1, Grown
  <2>4. /\ pc' = [pc EXCEPT ![c] = "ask"] /\ spent' = [spent EXCEPT ![c] = s]
        /\ delay' = [delay EXCEPT ![c] = e]
    BY <1>4 DEF CheckChain, End
  <2> HIDE DEF s, e
  <2>5. TypeOK'
    BY <1>1, <2>2, <2>3, <2>4 DEF TypeOK, InCall, world
  <2>6. /\ pc'[c] = "ask" /\ spent'[c] = s
        /\ \A d \in Clients \ {c} : pc'[d] = pc[d] /\ spent'[d] = spent[d]
    BY <1>1, <2>4 DEF TypeOK
  <2> QED BY <1>1, <2>2, <2>5, <2>6 DEF BudgetInv
<1> QED BY <1>2, <1>3, <1>4

LEMMA SlowBudget ==
  ASSUME BudgetInv, NEW c \in Clients, Slow(c)
  PROVE  BudgetInv'
<1> USE DEF BudgetInv
<1>1. /\ pc[c] \in {"ask", "check"} /\ slow' = [slow EXCEPT ![c] = slow[c] + 1]
      /\ UNCHANGED <<world, pc, kind, attempt, elapsed, delay, spent, before, mishaps>>
      /\ slow[c] + 1 \in 0 .. MaxSlow
  BY Policy DEF Slow, TypeOK
<1>2. TypeOK'
  BY <1>1 DEF TypeOK, world
<1>3. \A d \in Clients \ {c} : slow'[d] = slow[d]
  BY <1>1 DEF TypeOK
<1> QED BY <1>1, <1>2, <1>3

LEMMA NextBudget == BudgetInv /\ [Next]_vars => BudgetInv'
<1> SUFFICES ASSUME BudgetInv, [Next]_vars PROVE BudgetInv'
  OBVIOUS
<1>1. CASE UNCHANGED <<pc, call, mishaps>> /\ computation' \in Computations
           /\ granted \subseteq granted' /\ granted' \subseteq Grants
           /\ indexed' \subseteq granted'
  BY <1>1 DEF BudgetInv, TypeOK, call
<1>2. CASE Compute \/ FailToCompute \/ UNCHANGED vars
  BY <1>1, <1>2 DEF Compute, FailToCompute, vars, world, Computations, BudgetInv, TypeOK
<1>3. ASSUME NEW g \in Grants, Grant(g) \/ IndexGrant(g) PROVE BudgetInv'
  BY <1>1, <1>3 DEF Grant, IndexGrant, BudgetInv, TypeOK
<1> QED
  BY <1>2, <1>3, CallBudget, PollBudget, AskBudget, CheckBudget, SlowBudget DEF Next, ClientStep

\* Each loop gives up when its budget is spent and not before, and neither
\* outlasts it by a whole pause (backoffSchedule and the loops of waitForHandle and decrypt),
\* whatever the policy's numbers and however the requests fail or take their time.
THEOREM BudgetsAreSpent == Spec => []BudgetIsSpent
<1>1. BudgetInv => BudgetIsSpent
  <2> SUFFICES ASSUME BudgetInv, NEW c \in Clients, pc[c] = "notReady"
               PROVE  elapsed[c] + MaxDelay > Timeout
    BY DEF BudgetInv, BudgetIsSpent
  <2>1. elapsed[c] = Elapsed[Polls]
    BY DEF BudgetInv
  <2>2. Elapsed[Polls] \in Nat /\ Elapsed[Polls + 1] \in Nat
    BY PollsFit, ElapsedUnfolds
  <2> QED BY <2>1, <2>2, Policy, PollsFit, ElapsedGrows
<1> QED BY <1>1, InitBudget, NextBudget, PTL DEF Spec
=============================================================================
