--------------------------- MODULE Arithmetic_proofs ---------------------------
(***************************************************************************)
(* Proofs about the arithmetic of one epoch, for every list of orders, of  *)
(* any length and with any amounts and limits, every price and every cut   *)
(* into batches.  First what sums are: the community module folds a        *)
(* function over a set by a recursive CHOOSE, and its laws are proved here *)
(* by induction on the least counterexample.                               *)
(***************************************************************************)
EXTENDS ArithmeticSafety, Functions, FiniteSetTheorems, TLAPS

-----------------------------------------------------------------------------
(* Induction, and sums over finite sets. *)

\* A set of naturals that is not empty has a least element.
LEMMA Smallest ==
  ASSUME NEW T \in SUBSET Nat, T # {}
  PROVE  \E n \in T : \A m \in T : n <= m
<1> DEFINE R == OpToRel(<, Nat)
<1>1. PICK n \in T : \A m \in T : ~ (<<m, n>> \in R)
  <2>1. IsWellFoundedOn(R, Nat)
    BY NatLessThanWellFounded
  <2> HIDE DEF R
  <2> QED BY <2>1, WFMin
<1>2. \A m \in T : n <= m
  <2> TAKE m \in T
  <2>1. m \in Nat /\ n \in Nat
    OBVIOUS
  <2>2. ~(m < n)
    BY <1>1, <2>1 DEF OpToRel
  <2> QED BY <2>1, <2>2
<1> QED BY <1>2

\* Induction in first-order form: a set that holds zero and every successor holds Nat.
LEMMA Induction ==
  ASSUME NEW T, 0 \in T, \A n \in Nat : n \in T => n + 1 \in T
  PROVE  \A n \in Nat : n \in T
<1> SUFFICES ASSUME Nat \ T # {} PROVE FALSE
  OBVIOUS
<1>1. PICK n \in Nat \ T : \A m \in Nat \ T : n <= m
  BY Smallest
<1>2. n - 1 \in Nat /\ n - 1 + 1 = n
  BY n \in Nat, n # 0
<1> QED BY <1>1, <1>2

Pick(s) == CHOOSE x \in s : TRUE
Step(f, s, g) == IF s = {} THEN 0 ELSE f[Pick(s)] + g[s \ {Pick(s)}]

\* The community module's sum is the function that Step builds, applied to the set.
LEMMA Unfold ==
  ASSUME NEW f, NEW S
  PROVE  SumFunctionOnSet(f, S) = 
     (CHOOSE iter : iter = [s \in SUBSET S |-> Step(f, s, iter)])[S]
BY DEF SumFunctionOnSet, FoldFunctionOnSet, MapThenFoldSet, Step, Pick

\* f summed over the subsets of a finite set, one picked element at a time.
IsSum(f, S, g) == g = [s \in SUBSET S |-> Step(f, s, g)]
SumFcn(f, S) == CHOOSE g : IsSum(f, S, g)

\* The picked element is one of the set.
LEMMA PickIn == ASSUME NEW s, s # {} PROVE Pick(s) \in s
BY DEF Pick

\* A finite set without its picked element is finite and has one element less.
LEMMA Smaller ==
  ASSUME NEW s, IsFiniteSet(s), s # {}
  PROVE  /\ IsFiniteSet(s \ {Pick(s)}) /\ Cardinality(s) \in Nat \ {0}
         /\ Cardinality(s \ {Pick(s)}) = Cardinality(s) - 1
<1>1. Pick(s) \in s
  BY PickIn
<1>2. Cardinality(s) \in Nat /\ Cardinality(s) # 0
  BY FS_CardinalityType, FS_EmptySet
<1> QED BY <1>1, <1>2, FS_RemoveElement

\* The recursive equation has a solution on the subsets of a finite set.
LEMMA SumExists ==
  ASSUME NEW f, NEW S, IsFiniteSet(S)
  PROVE  \E g : IsSum(f, S, g)
<1> DEFINE Upto(k) == {s \in SUBSET S : Cardinality(s) <= k}
           Good(g, k) == \A s \in Upto(k) : g[s] = Step(f, s, g)
           T == {k \in Nat : \E g : Good(g, k)}
<1>1. \A s \in SUBSET S : IsFiniteSet(s) /\ Cardinality(s) \in Nat
  BY FS_Subset, FS_CardinalityType
<1>2. 0 \in T
  <2> DEFINE g == [s \in SUBSET S |-> 0]
  <2>1. ASSUME NEW s \in Upto(0) PROVE g[s] = Step(f, s, g)
    <3>1. s = {}
      BY <1>1, FS_EmptySet
    <3> QED BY <3>1 DEF Step
  <2>2. Good(g, 0)
    BY <2>1
  <2> QED BY <2>2
<1>3. ASSUME NEW k \in Nat, k \in T PROVE k + 1 \in T
  <2>1. PICK g : Good(g, k)
    BY <1>3
  <2> DEFINE h == [s \in SUBSET S |-> IF Cardinality(s) <= k THEN g[s] ELSE Step(f, s, g)]
  <2>2. ASSUME NEW s \in Upto(k + 1) PROVE h[s] = Step(f, s, h)
    <3>1. CASE s = {}
      <4>1. Cardinality(s) <= k
        BY <3>1, FS_EmptySet
      <4>2. h[s] = g[s] /\ g[s] = Step(f, s, g)
        BY <2>1, <4>1
      <4> QED BY <3>1, <4>2 DEF Step
    <3>2. CASE s # {}
      <4> DEFINE r == s \ {Pick(s)}
      <4>1. r \in SUBSET S /\ Cardinality(r) <= k
        BY <1>1, <3>2, Smaller
      <4>2. h[r] = g[r]
        BY <4>1
      <4>3. Step(f, s, h) = Step(f, s, g)
        BY <3>2, <4>2 DEF Step
      <4>4. CASE Cardinality(s) <= k
        BY <2>1, <4>3, <4>4
      <4>5. CASE ~(Cardinality(s) <= k)
        BY <4>3, <4>5
      <4> QED BY <4>4, <4>5
    <3> QED BY <3>1, <3>2
  <2>3. Good(h, k + 1)
    BY <2>2
  <2> HIDE DEF h
  <2> QED BY <2>3
<1>4. Cardinality(S) \in T
  <2> HIDE DEF T
  <2> QED BY <1>1, <1>2, <1>3, Induction
<1>5. PICK g : Good(g, Cardinality(S))
  BY <1>4
<1>6. ASSUME NEW s \in SUBSET S PROVE g[s] = Step(f, s, g)
  BY <1>5, FS_Subset
<1> DEFINE h == [s \in SUBSET S |-> g[s]]
<1>7. ASSUME NEW s \in SUBSET S PROVE h[s] = Step(f, s, h)
  <2>1. s \ {Pick(s)} \in SUBSET S
    OBVIOUS
  <2> QED BY <1>6, <2>1 DEF Step
<1>8. h = [s \in SUBSET S |-> Step(f, s, h)]
  BY <1>7
<1> QED BY <1>8 DEF IsSum

\* SumFcn satisfies its equation at every subset.
LEMMA SumFcnStep ==
  ASSUME NEW f, NEW S, IsFiniteSet(S), NEW s \in SUBSET S
  PROVE  SumFcn(f, S)[s] = Step(f, s, SumFcn(f, S))
<1>1. IsSum(f, S, SumFcn(f, S))
  BY SumExists DEF SumFcn
<1> QED BY <1>1 DEF IsSum

\* The sum over a set does not depend on the set it is looked at from.
LEMMA SumFcnsAgree ==
  ASSUME NEW f, NEW S, NEW R, IsFiniteSet(S), IsFiniteSet(R), NEW s \in SUBSET S, s \in SUBSET R
  PROVE  SumFcn(f, S)[s] = SumFcn(f, R)[s]
<1> DEFINE T == {k \in Nat : \A r \in SUBSET s : Cardinality(r) = k => SumFcn(f, S)[r] = SumFcn(f, R)[r]}
<1>1. \A r \in SUBSET s : IsFiniteSet(r) /\ Cardinality(r) \in Nat
  BY FS_Subset, FS_CardinalityType
<1>2. 0 \in T
  <2> SUFFICES ASSUME NEW r \in SUBSET s, Cardinality(r) = 0 PROVE SumFcn(f, S)[r] = SumFcn(f, R)[r]
    OBVIOUS
  <2>1. r = {}
    BY <1>1, FS_EmptySet
  <2> QED BY <2>1, SumFcnStep DEF Step
<1>3. ASSUME NEW k \in Nat, k \in T PROVE k + 1 \in T
  <2> SUFFICES ASSUME NEW r \in SUBSET s, Cardinality(r) = k + 1 PROVE SumFcn(f, S)[r] = SumFcn(f, R)[r]
    OBVIOUS
  <2>1. r # {}
    BY FS_EmptySet
  <2>2. SumFcn(f, S)[r \ {Pick(r)}] = SumFcn(f, R)[r \ {Pick(r)}]
    BY <1>1, <1>3, <2>1, Smaller
  <2> QED BY <2>1, <2>2, SumFcnStep DEF Step
<1>4. Cardinality(s) \in T
  <2> HIDE DEF T
  <2> QED BY <1>1, <1>2, <1>3, Induction
<1> QED BY <1>4

\* The community module's sum is SumFcn.
LEMMA SumIsFcn ==
  ASSUME NEW f, NEW S
  PROVE  SumFunctionOnSet(f, S) = SumFcn(f, S)[S]
BY Unfold DEF SumFcn, IsSum

\* The sum over nothing.
LEMMA SumEmpty == ASSUME NEW f PROVE SumFunctionOnSet(f, {}) = 0
BY SumIsFcn, SumFcnStep, FS_EmptySet DEF Step

\* A sum is its picked term and the sum over the rest.
LEMMA SumPick ==
  ASSUME NEW f, NEW S, IsFiniteSet(S), S # {}
  PROVE  SumFunctionOnSet(f, S) = f[Pick(S)] + SumFunctionOnSet(f, S \ {Pick(S)})
<1> DEFINE R == S \ {Pick(S)}
<1>1. SumFcn(f, S)[S] = Step(f, S, SumFcn(f, S))
  BY SumFcnStep
<1>2. SumFcn(f, S)[S] = f[Pick(S)] + SumFcn(f, S)[R]
  BY <1>1 DEF Step
<1>3. SumFcn(f, S)[R] = SumFcn(f, R)[R]
  <2>1. IsFiniteSet(R) /\ R \in SUBSET S /\ R \in SUBSET R
    BY FS_Subset
  <2> QED BY <2>1, SumFcnsAgree
<1> QED BY <1>2, <1>3, SumIsFcn

\* Induction over the subsets of a finite set, one element at a time.
LEMMA SubsetInduction ==
  ASSUME NEW S, IsFiniteSet(S), NEW C,
         {} \in C,
         \A s \in SUBSET S : (s # {} /\ \A y \in s : s \ {y} \in C) => s \in C
  PROVE  S \in C
<1> DEFINE T == {k \in Nat : \A s \in SUBSET S : Cardinality(s) = k => s \in C}
<1>1. \A s \in SUBSET S : IsFiniteSet(s) /\ Cardinality(s) \in Nat
  BY FS_Subset, FS_CardinalityType
<1>2. 0 \in T
  BY <1>1, FS_EmptySet
<1>3. ASSUME NEW k \in Nat, k \in T PROVE k + 1 \in T
  <2> SUFFICES ASSUME NEW s \in SUBSET S, Cardinality(s) = k + 1 PROVE s \in C
    OBVIOUS
  <2>1. s # {}
    BY <1>1, FS_EmptySet
  <2>2. ASSUME NEW y \in s PROVE s \ {y} \in C
    <3>1. Cardinality(s \ {y}) = Cardinality(s) - 1
      BY <1>1, FS_RemoveElement
    <3>2. Cardinality(s \ {y}) = k /\ s \ {y} \in SUBSET S
      BY <3>1
    <3> QED BY <1>3, <3>2
  <2> QED BY <2>1, <2>2
<1>4. Cardinality(S) \in T
  <2> HIDE DEF T
  <2> QED BY <1>1, <1>2, <1>3, Induction
<1> QED BY <1>4

\* Sums of functions that agree on the set are equal.
LEMMA SumCongruence ==
  ASSUME NEW f, NEW g, NEW S, IsFiniteSet(S), \A x \in S : f[x] = g[x]
  PROVE  SumFunctionOnSet(f, S) = SumFunctionOnSet(g, S)
<1> DEFINE C == {s \in SUBSET S : SumFunctionOnSet(f, s) = SumFunctionOnSet(g, s)}
<1>1. {} \in C
  BY SumEmpty
<1>2. ASSUME NEW s \in SUBSET S, s # {}, \A y \in s : s \ {y} \in C PROVE s \in C
  <2>1. IsFiniteSet(s) /\ Pick(s) \in s
    BY <1>2, FS_Subset, PickIn
  <2>2. /\ SumFunctionOnSet(f, s) = f[Pick(s)] + SumFunctionOnSet(f, s \ {Pick(s)})
        /\ SumFunctionOnSet(g, s) = g[Pick(s)] + SumFunctionOnSet(g, s \ {Pick(s)})
    BY <1>2, <2>1, SumPick
  <2> QED BY <1>2, <2>1, <2>2
<1>3. S \in C
  <2> HIDE DEF C
  <2> QED BY <1>1, <1>2, SubsetInduction
<1> QED BY <1>3

\* A sum of naturals is a natural.
LEMMA SumNat ==
  ASSUME NEW f, NEW S, IsFiniteSet(S), \A x \in S : f[x] \in Nat
  PROVE  SumFunctionOnSet(f, S) \in Nat
<1> DEFINE C == {s \in SUBSET S : SumFunctionOnSet(f, s) \in Nat}
<1>1. {} \in C
  BY SumEmpty
<1>2. ASSUME NEW s \in SUBSET S, s # {}, \A y \in s : s \ {y} \in C PROVE s \in C
  <2>1. IsFiniteSet(s) /\ Pick(s) \in s
    BY <1>2, FS_Subset, PickIn
  <2>2. SumFunctionOnSet(f, s) = f[Pick(s)] + SumFunctionOnSet(f, s \ {Pick(s)})
    BY <1>2, <2>1, SumPick
  <2>3. f[Pick(s)] \in Nat /\ SumFunctionOnSet(f, s \ {Pick(s)}) \in Nat
    BY <1>2, <2>1
  <2> QED BY <2>2, <2>3
<1>3. S \in C
  <2> HIDE DEF C
  <2> QED BY <1>1, <1>2, SubsetInduction
<1> QED BY <1>3

\* Any term can be taken out of a sum, not only the picked one.
LEMMA SumRemove ==
  ASSUME NEW f, NEW S, IsFiniteSet(S), \A x \in S : f[x] \in Nat, NEW z \in S
  PROVE  SumFunctionOnSet(f, S) = f[z] + SumFunctionOnSet(f, S \ {z})
<1> DEFINE C == {s \in SUBSET S : \A y \in s :
                   SumFunctionOnSet(f, s) = f[y] + SumFunctionOnSet(f, s \ {y})}
<1>1. {} \in C
  OBVIOUS
<1>2. ASSUME NEW s \in SUBSET S, s # {}, \A y \in s : s \ {y} \in C PROVE s \in C
  <2> SUFFICES ASSUME NEW y \in s
               PROVE  SumFunctionOnSet(f, s) = f[y] + SumFunctionOnSet(f, s \ {y})
    OBVIOUS
  <2> DEFINE p == Pick(s)
  <2>1. IsFiniteSet(s) /\ p \in s
    BY <1>2, FS_Subset, PickIn
  <2>2. SumFunctionOnSet(f, s) = f[p] + SumFunctionOnSet(f, s \ {p})
    BY <1>2, <2>1, SumPick
  <2>3. CASE y = p
    BY <2>2, <2>3
  <2>4. CASE y # p
    <3> HIDE DEF p
    <3> DEFINE r == (s \ {p}) \ {y}
    <3>1. SumFunctionOnSet(f, s \ {p}) = f[y] + SumFunctionOnSet(f, r)
      BY <1>2, <2>1, <2>4
    <3>2. SumFunctionOnSet(f, s \ {y}) = f[p] + SumFunctionOnSet(f, r)
      <4>1. r = (s \ {y}) \ {p}
        OBVIOUS
      <4>2. s \ {y} \in C /\ p \in s \ {y}
        BY <1>2, <2>1, <2>4
      <4>3. SumFunctionOnSet(f, s \ {y}) = f[p] + SumFunctionOnSet(f, (s \ {y}) \ {p})
        BY <4>2
      <4> QED BY <4>1, <4>3
    <3>3. f[y] \in Nat /\ f[p] \in Nat /\ SumFunctionOnSet(f, r) \in Nat
      <4>1. r \in SUBSET S /\ p \in S /\ y \in S
        BY <2>1
      <4>2. IsFiniteSet(r)
        BY <4>1, FS_Subset
      <4>3. \A x \in r : f[x] \in Nat
        BY <4>1
      <4>4. SumFunctionOnSet(f, r) \in Nat
        BY <4>2, <4>3, SumNat
      <4> QED BY <4>1, <4>4
    <3> HIDE DEF r
    <3> QED BY <2>2, <3>1, <3>2, <3>3
  <2> QED BY <2>3, <2>4
<1>3. S \in C
  <2> HIDE DEF C
  <2> QED BY <1>1, <1>2, SubsetInduction
<1> QED BY <1>3

\* The sum over two disjoint sets.
LEMMA SumUnion ==
  ASSUME NEW f, NEW A, NEW B, IsFiniteSet(A), IsFiniteSet(B), A \cap B = {},
         \A x \in A \cup B : f[x] \in Nat
  PROVE  SumFunctionOnSet(f, A \cup B) = SumFunctionOnSet(f, A) + SumFunctionOnSet(f, B)
<1> DEFINE C == {s \in SUBSET B :
                   SumFunctionOnSet(f, A \cup s) = SumFunctionOnSet(f, A) + SumFunctionOnSet(f, s)}
<1>0. SumFunctionOnSet(f, A) \in Nat
  BY SumNat
<1>1. {} \in C
  BY <1>0, SumEmpty
<1>2. ASSUME NEW s \in SUBSET B, s # {}, \A y \in s : s \ {y} \in C PROVE s \in C
  <2>1. PICK y \in s : TRUE
    BY <1>2
  <2>2. IsFiniteSet(s) /\ IsFiniteSet(A \cup s) /\ IsFiniteSet(s \ {y})
    BY FS_Subset, FS_Union
  <2>3. (A \cup s) \ {y} = A \cup (s \ {y})
    BY <2>1
  <2>4. SumFunctionOnSet(f, A \cup s) = f[y] + SumFunctionOnSet(f, A \cup (s \ {y}))
    BY <2>1, <2>2, <2>3, SumRemove
  <2>5. SumFunctionOnSet(f, s) = f[y] + SumFunctionOnSet(f, s \ {y})
    BY <2>1, <2>2, SumRemove
  <2>6. SumFunctionOnSet(f, s \ {y}) \in Nat /\ f[y] \in Nat
    BY <2>1, <2>2, SumNat
  <2>7. SumFunctionOnSet(f, A \cup (s \ {y})) = SumFunctionOnSet(f, A) + SumFunctionOnSet(f, s \ {y})
    BY <1>2, <2>1
  <2>8. SumFunctionOnSet(f, A \cup s) = SumFunctionOnSet(f, A) + SumFunctionOnSet(f, s)
    BY <1>0, <2>4, <2>5, <2>6, <2>7
  <2> QED BY <2>8
<1>3. B \in C
  <2> HIDE DEF C
  <2> QED BY <1>1, <1>2, SubsetInduction
<1> QED BY <1>3

\* A bound on every term, up to factors, is one on the sum.
LEMMA SumBound ==
  ASSUME NEW f, NEW g, NEW S, IsFiniteSet(S), NEW c \in Nat, NEW d \in Nat,
         \A x \in S : f[x] \in Nat /\ g[x] \in Nat /\ d * f[x] <= c * g[x]
  PROVE  d * SumFunctionOnSet(f, S) <= c * SumFunctionOnSet(g, S)
<1> DEFINE C == {s \in SUBSET S : d * SumFunctionOnSet(f, s) <= c * SumFunctionOnSet(g, s)}
<1>1. {} \in C
  BY SumEmpty
<1>2. ASSUME NEW s \in SUBSET S, s # {}, \A y \in s : s \ {y} \in C PROVE s \in C
  <2>1. PICK y \in s : TRUE
    BY <1>2
  <2>2. IsFiniteSet(s) /\ IsFiniteSet(s \ {y})
    BY FS_Subset
  <2> DEFINE F == SumFunctionOnSet(f, s \ {y})
             G == SumFunctionOnSet(g, s \ {y})
  <2>3. SumFunctionOnSet(f, s) = f[y] + F /\ SumFunctionOnSet(g, s) = g[y] + G
    BY <2>1, <2>2, SumRemove
  <2>4. F \in Nat /\ G \in Nat /\ f[y] \in Nat /\ g[y] \in Nat
    BY <2>1, <2>2, SumNat
  <2>5. d * F <= c * G /\ d * f[y] <= c * g[y]
    BY <1>2, <2>1
  <2> HIDE DEF F, G
  <2>6. d * (f[y] + F) = d * f[y] + d * F /\ c * (g[y] + G) = c * g[y] + c * G
    BY <2>4
  <2>7. /\ d * F \in Nat /\ c * G \in Nat /\ d * f[y] \in Nat /\ c * g[y] \in Nat
    BY <2>4
  <2>8. d * f[y] + d * F <= c * g[y] + c * G
    BY <2>5, <2>7
  <2> QED BY <2>3, <2>6, <2>8
<1>3. S \in C
  <2> HIDE DEF C
  <2> QED BY <1>1, <1>2, SubsetInduction
<1> QED BY <1>3

\* The sum of a sum of two functions.
LEMMA SumAdd ==
  ASSUME NEW f, NEW g, NEW h, NEW S, IsFiniteSet(S),
         \A x \in S : f[x] \in Nat /\ g[x] \in Nat /\ h[x] = f[x] + g[x]
  PROVE  SumFunctionOnSet(h, S) = SumFunctionOnSet(f, S) + SumFunctionOnSet(g, S)
<1> DEFINE C == {s \in SUBSET S :
              SumFunctionOnSet(h, s) = SumFunctionOnSet(f, s) + SumFunctionOnSet(g, s)}
<1>1. {} \in C
  BY SumEmpty
<1>2. ASSUME NEW s \in SUBSET S, s # {}, \A y \in s : s \ {y} \in C PROVE s \in C
  <2>1. PICK y \in s : TRUE
    BY <1>2
  <2>2. IsFiniteSet(s) /\ IsFiniteSet(s \ {y})
    BY FS_Subset
  <2> DEFINE F == SumFunctionOnSet(f, s \ {y})
             G == SumFunctionOnSet(g, s \ {y})
  <2>3. /\ SumFunctionOnSet(f, s) = f[y] + F
        /\ SumFunctionOnSet(g, s) = g[y] + G
        /\ SumFunctionOnSet(h, s) = h[y] + SumFunctionOnSet(h, s \ {y})
    BY <2>1, <2>2, SumRemove
  <2>4. F \in Nat /\ G \in Nat /\ f[y] \in Nat /\ g[y] \in Nat
    BY <2>1, <2>2, SumNat
  <2>5. SumFunctionOnSet(h, s \ {y}) = F + G /\ h[y] = f[y] + g[y]
    BY <1>2, <2>1
  <2> HIDE DEF F, G
  <2> QED BY <2>3, <2>4, <2>5
<1>3. S \in C
  <2> HIDE DEF C
  <2> QED BY <1>1, <1>2, SubsetInduction
<1> QED BY <1>3

\* A sum of naturals is zero when all its terms are.
LEMMA SumZero ==
  ASSUME NEW f, NEW S, IsFiniteSet(S), \A x \in S : f[x] \in Nat
  PROVE  SumFunctionOnSet(f, S) = 0 <=> \A x \in S : f[x] = 0
<1>1. ASSUME SumFunctionOnSet(f, S) = 0, NEW x \in S PROVE f[x] = 0
  <2>1. SumFunctionOnSet(f, S) = f[x] + SumFunctionOnSet(f, S \ {x})
    BY SumRemove
  <2>2. SumFunctionOnSet(f, S \ {x}) \in Nat /\ f[x] \in Nat
    BY SumNat, FS_Subset
  <2> QED BY <1>1, <2>1, <2>2
<1>2. ASSUME \A x \in S : f[x] = 0 PROVE SumFunctionOnSet(f, S) = 0
  <2>1. 1 * SumFunctionOnSet(f, S) <= 0 * SumFunctionOnSet(f, S)
    BY <1>2, SumBound
  <2>2. SumFunctionOnSet(f, S) \in Nat
    BY SumNat
  <2> QED BY <2>1, <2>2
<1> QED BY <1>1, <1>2

\* As many as have a term are at most as many as there are.
LEMMA SumOfBits ==
  ASSUME NEW f, NEW S, IsFiniteSet(S), \A x \in S : f[x] \in {0, 1}
  PROVE  SumFunctionOnSet(f, S) \in 0 .. Cardinality(S)
<1> DEFINE C == {s \in SUBSET S : SumFunctionOnSet(f, s) <= Cardinality(s)}
<1>1. {} \in C
  BY SumEmpty, FS_EmptySet
<1>2. ASSUME NEW s \in SUBSET S, s # {}, \A y \in s : s \ {y} \in C PROVE s \in C
  <2>1. PICK y \in s : TRUE
    BY <1>2
  <2>2. IsFiniteSet(s) /\ IsFiniteSet(s \ {y})
    BY FS_Subset
  <2>3. SumFunctionOnSet(f, s) = f[y] + SumFunctionOnSet(f, s \ {y})
    BY <2>1, <2>2, SumRemove
  <2>4. SumFunctionOnSet(f, s \ {y}) \in Nat /\ f[y] \in {0, 1}
    BY <2>1, <2>2, SumNat
  <2>5. Cardinality(s \ {y}) = Cardinality(s) - 1 /\ Cardinality(s) \in Nat
    BY <2>1, <2>2, FS_RemoveElement, FS_CardinalityType
  <2>6. SumFunctionOnSet(f, s \ {y}) <= Cardinality(s \ {y})
    BY <1>2, <2>1
  <2> QED BY <2>3, <2>4, <2>5, <2>6
<1>3. S \in C
  <2> HIDE DEF C
  <2> QED BY <1>1, <1>2, SubsetInduction
<1>4. SumFunctionOnSet(f, S) \in Nat /\ Cardinality(S) \in Nat
  BY SumNat, FS_CardinalityType
<1> QED BY <1>3, <1>4

\* Of a number and finitely many terms one is the greatest.
LEMMA LargestTerm ==
  ASSUME NEW f, NEW S, IsFiniteSet(S), \A x \in S : f[x] \in Nat, NEW a \in Nat
  PROVE  \E m \in {a} \cup {f[x] : x \in S} : m >= a /\ \A x \in S : f[x] <= m
<1> DEFINE Top(m, s) == m >= a /\ \A x \in s : f[x] <= m
           C == {s \in SUBSET S : \E m \in {a} \cup {f[x] : x \in s} : Top(m, s)}
<1>1. {} \in C
  OBVIOUS
<1>2. ASSUME NEW s \in SUBSET S, s # {}, \A y \in s : s \ {y} \in C PROVE s \in C
  <2>1. PICK y \in s : TRUE
    BY <1>2
  <2>2. PICK m \in {a} \cup {f[x] : x \in s \ {y}} : Top(m, s \ {y})
    BY <1>2, <2>1
  <2>3. m \in Nat /\ f[y] \in Nat /\ m \in {a} \cup {f[x] : x \in s} /\ f[y] \in {a} \cup {f[x] : x \in s}
    OBVIOUS
  <2>4. CASE f[y] <= m
    BY <2>2, <2>3, <2>4
  <2>5. CASE m < f[y]
    <3>1. \A x \in s : f[x] <= f[y]
      BY <2>2, <2>3, <2>5
    <3> QED BY <2>2, <2>3, <2>5, <3>1
  <2> QED BY <2>3, <2>4, <2>5
<1>3. S \in C
  <2> HIDE DEF C
  <2> QED BY <1>1, <1>2, SubsetInduction
<1> QED BY <1>3

-----------------------------------------------------------------------------
(* How far the epoch is. *)

\* The stages in order.
Rank(s) ==
  CASE s = "Sealed" -> 0 [] s = "Classified" -> 1 [] s = "Accumulated" -> 2
    [] s = "Crossed" -> 3 [] s = "Allocated" -> 4 [] s = "ResidualComputed" -> 5
    [] s = "Published" -> 6 [] s = "Executed" -> 7 [] s = "NoPublicResidual" -> 7
    [] s = "Reconciled" -> 8

\* The candidates that the stage of rank k has been through.
Done(k) == IF Rank(stage) > k THEN Slots ELSE IF Rank(stage) = k THEN 1 .. cursor ELSE {}

\* One field of every candidate, and which of a column's entries are positive.
Column(f) == [i \in Slots |-> slot[i][f]]
Contributions == [i \in Slots |-> Contribution(i)]
Bits(h) == [i \in Slots |-> IF h[i] > 0 THEN 1 ELSE 0]

-----------------------------------------------------------------------------
(* The inductive invariant: what every stage stored, for the candidates it *)
(* has been through, in terms of values that no longer change.             *)

OrderAmount(i, action) == IF book[i].action = action THEN book[i].locked ELSE 0
BuyQuote(i) == IF price <= book[i].limit THEN OrderAmount(i, "Buy") ELSE 0
SellBase(i) == IF price >= book[i].limit THEN OrderAmount(i, "Sell") ELSE 0
SupplyQuote(i) == OrderAmount(i, "Supply")

CursorIsReset == stage \in {"Accumulated", "Published", "Reconciled"} => cursor = 0

Classification ==
  \A i \in Slots :
    LET done == i \in Done(0) IN
    /\ slot[i].buyQuote = IF done THEN BuyQuote(i) ELSE 0
    /\ slot[i].sellBase = IF done THEN SellBase(i) ELSE 0
    /\ slot[i].supplyQuote = IF done THEN SupplyQuote(i) ELSE 0
    /\ slot[i].buyDemandBase = IF done THEN MulDiv(BuyQuote(i), Scale, price) ELSE 0

Accumulation ==
  /\ total.grossBuyDemandBase = SumFunctionOnSet(Column("buyDemandBase"), Done(1))
  /\ total.grossSellSupplyBase = SumFunctionOnSet(Column("sellBase"), Done(1))
  /\ total.grossSupplyQuote = SumFunctionOnSet(Column("supplyQuote"), Done(1))
  /\ total.effectiveCount = SumFunctionOnSet(Bits(Contributions), Done(1))
  /\ total.supplyContributorCount = SumFunctionOnSet(Bits(Column("supplyQuote")), Done(1))

Lesser(a, b) == IF a <= b THEN a ELSE b

Crossing ==
  LET done == Rank(stage) >= 3
      crossed == Lesser(total.grossBuyDemandBase, total.grossSellSupplyBase) IN
  /\ total.crossedBase = IF done THEN crossed ELSE 0
  /\ total.crossedQuote = IF done THEN MulDiv(crossed, price, Scale) ELSE 0

Allocation ==
  \A i \in Slots :
    LET done == i \in Done(3)
        baseOut == MulDiv(total.crossedBase, slot[i].buyDemandBase, total.grossBuyDemandBase) IN
    /\ slot[i].crossBaseOut = IF done THEN baseOut ELSE 0
    /\ slot[i].crossQuoteUsed = IF done THEN MulDivCeil(baseOut, price, Scale) ELSE 0
    /\ slot[i].crossBaseUsed =
         IF done THEN MulDiv(total.crossedBase, slot[i].sellBase, total.grossSellSupplyBase) ELSE 0
    /\ slot[i].crossQuoteOut =
         IF done THEN MulDiv(total.crossedQuote, slot[i].sellBase, total.grossSellSupplyBase) ELSE 0

Residual ==
  /\ \A i \in Slots :
       slot[i].residualContribution = IF i \in Done(4) THEN Leftover(i) ELSE 0
  /\ total.aggregateInput = SumFunctionOnSet(Column("residualContribution"), Done(4))
  /\ total.contributorCount = SumFunctionOnSet(Bits(Column("residualContribution")), Done(4))

Requirements ==
  /\ \A i \in Slots :
       slot[i].requiredVenueTotal = IF i \in Done(5) THEN Requirement(i) ELSE 0
  /\ total.aggregateMinimum \in {0} \cup {Requirement(i) : i \in Done(5)}
  /\ \A i \in Done(5) : Requirement(i) <= total.aggregateMinimum

Execution ==
  IF Rank(stage) < 7 THEN output = 0
  ELSE Floors.residual = "Zero" \/ output >= total.aggregateMinimum

Shares ==
  \A i \in Slots :
    /\ slot[i].externalAllocation = IF i \in Done(7) THEN Share(i) ELSE 0
    /\ slot[i].finalAllocation = IF i \in Done(7) THEN slot[i].crossBaseOut + Share(i) ELSE 0

IInv ==
  /\ TypeOK
  /\ CursorIsReset
  /\ Classification
  /\ Accumulation
  /\ Crossing
  /\ Allocation
  /\ Residual
  /\ Requirements
  /\ Execution
  /\ Shares

-----------------------------------------------------------------------------
(* Rounding. *)

\* Integer division rounds down, by less than one.
LEMMA DivBounds ==
  ASSUME NEW a \in Nat, NEW d \in Nat \ {0}
  PROVE  a \div d \in Nat /\ d * (a \div d) <= a /\ a < d * (a \div d) + d
<1>1. /\ d * (a \div d) + (a % d) = a /\ 0 <= a % d /\ a % d < d
  OBVIOUS
<1> QED BY <1>1

\* What is less than one divisor above is not above.
LEMMA Cancel ==
  ASSUME NEW a \in Nat, NEW b \in Nat, NEW d \in Nat \ {0}, d * a < d * b + d
  PROVE  a <= b
<1> SUFFICES ASSUME a >= b + 1 PROVE FALSE
  OBVIOUS
<1>1. PICK c \in Nat : a = b + 1 + c
  <2>1. a - b - 1 \in Nat /\ a = b + 1 + (a - b - 1)
    OBVIOUS
  <2> QED BY <2>1
<1>2. d * a = d * b + d + d * c
  BY <1>1
<1>3. d * c \in Nat /\ d * b \in Nat
  OBVIOUS
<1> QED BY <1>2, <1>3

\* What MulDiv yields is never above the quotient, and reaches it when nothing overflows.
LEMMA Floor ==
  ASSUME NEW a \in Nat, NEW b \in Nat, NEW d \in Nat
  PROVE  /\ MulDiv(a, b, d) \in Nat
         /\ d * MulDiv(a, b, d) <= a * b
         /\ (a * b < Word /\ d # 0) =>
              \A x \in Nat : d * x <= a * b => x <= MulDiv(a, b, d)
<1>0. a * b \in Nat
  OBVIOUS
<1> DEFINE m == a * b
<1>1. CASE m >= Word \/ d = 0
  <2>1. MulDiv(a, b, d) = 0
    BY <1>1 DEF MulDiv
  <2>2. ~(m < Word /\ d # 0)
    BY <1>0, <1>1, FixedPointAssumption
  <2> QED BY <1>0, <2>1, <2>2
<1>2. CASE ~(m >= Word \/ d = 0)
  <2>1. MulDiv(a, b, d) = m \div d
    BY <1>2 DEF MulDiv
  <2> HIDE DEF m
  <2>2. m \div d \in Nat /\ d * (m \div d) <= m /\ m < d * (m \div d) + d
    BY <1>0, <1>2, DivBounds DEF m
  <2>3. ASSUME NEW x \in Nat, d * x <= m PROVE x <= m \div d
    <3>1. d * x \in Nat /\ d * (m \div d) \in Nat /\ m \in Nat
      BY <1>0, <2>2 DEF m
    <3>2. d * x < d * (m \div d) + d
      BY <2>2, <2>3, <3>1
    <3> QED BY <1>2, <2>2, <3>2, Cancel
  <2> QED BY <2>1, <2>2, <2>3 DEF m
<1> QED BY <1>1, <1>2

\* MulDivCeil is the least number that reaches the quotient, when nothing overflows.
LEMMA Ceil ==
  ASSUME NEW a \in Nat, NEW b \in Nat, NEW d \in Nat
  PROVE  /\ MulDivCeil(a, b, d) \in Nat
         /\ \A x \in Nat : a * b <= d * x => MulDivCeil(a, b, d) <= x
         /\ (d # 0 /\ a * b + (d - 1) < Word) => a * b <= d * MulDivCeil(a, b, d)
<1>0. a * b \in Nat
  OBVIOUS
<1> DEFINE m == a * b + (d - 1)
<1>1. CASE d = 0 \/ m >= Word
  <2>1. MulDivCeil(a, b, d) = 0
    BY <1>1 DEF MulDivCeil
  <2>2. ~(d # 0 /\ a * b + (d - 1) < Word)
    BY <1>0, <1>1, FixedPointAssumption
  <2> QED BY <1>0, <2>1, <2>2
<1>2. CASE ~(d = 0 \/ m >= Word)
  <2>1. MulDivCeil(a, b, d) = m \div d
    BY <1>2 DEF MulDivCeil
  <2>2. m \in Nat
    BY <1>0, <1>2
  <2>3. m = a * b + (d - 1)
    OBVIOUS
  <2> HIDE DEF m
  <2>4. m \div d \in Nat /\ d * (m \div d) <= m /\ m < d * (m \div d) + d
    BY <2>2, <1>2, DivBounds
  <2>5. a * b <= d * (m \div d)
    <3>1. d * (m \div d) \in Nat
      BY <2>4
    <3> QED BY <1>0, <2>2, <2>3, <2>4, <3>1
  <2>6. ASSUME NEW x \in Nat, a * b <= d * x PROVE m \div d <= x
    <3>1. d * x \in Nat /\ d * (m \div d) \in Nat
      BY <2>4
    <3>2. d * (m \div d) < d * x + d
      BY <1>0, <2>2, <2>3, <2>4, <2>6, <3>1
    <3> QED BY <1>2, <2>4, <3>2, Cancel
  <2> QED BY <2>1, <2>4, <2>5, <2>6
<1> QED BY <1>1, <1>2

\* A share of at least the required total, rounded down, is at least the
\* amount it is asked for, rounded down.
LEMMA ShareKeepsLimit ==
  ASSUME NEW A \in Nat \ {0}, NEW r \in Nat, NEW out \in Nat, NEW u \in Nat, NEW w \in Nat \ {0},
         A * u <= out * w, NEW q \in Nat, w * q <= r * u
  PROVE  A * q <= out * r
<1> DEFINE Aq == A * q
           R == out * r
<1>1. Aq \in Nat /\ R \in Nat
  OBVIOUS
<1>2. w * Aq = A * (w * q)
  OBVIOUS
<1>3. A * (w * q) <= A * (r * u)
  OBVIOUS
<1>4. A * (r * u) = r * (A * u)
  OBVIOUS
<1>5. r * (A * u) <= r * (out * w)
  OBVIOUS
<1>6. r * (out * w) = w * R
  OBVIOUS
<1> HIDE DEF Aq, R
<1>7. w * Aq <= w * R
  <2>1. w * Aq \in Nat /\ A * (r * u) \in Nat /\ r * (out * w) \in Nat
    BY <1>1
  <2> QED BY <1>2, <1>3, <1>4, <1>5, <1>6, <2>1
<1>8. w * Aq < w * R + w
  <2>1. w * Aq \in Nat /\ w * R \in Nat
    BY <1>1
  <2> QED BY <1>7, <2>1
<1>9. Aq <= R
  BY <1>1, <1>8, Cancel
<1> QED BY <1>9 DEF Aq, R

-----------------------------------------------------------------------------
(* Facts about the state that no step needs. *)

\* The type invariant, in the form the other lemmas use.
LEMMA Typed ==
  ASSUME TypeOK
  PROVE  /\ Count \in Nat \ {0} /\ IsFiniteSet(Slots) /\ Slots = 1 .. Count
         /\ \A i \in Slots : book[i].locked \in Nat /\ book[i].limit \in Nat
         /\ price \in Nat \ {0} /\ Word \in Nat \ {0} /\ Scale \in Nat \ {0}
         /\ stage \in Stage /\ cursor \in 0 .. Count - 1
         /\ \A i \in Slots : \A f \in Field : slot[i][f] \in Nat
         /\ \A t \in Total : total[t] \in Nat
         /\ \A k \in Nat : Done(k) \subseteq Slots
<1>1. book \in Seq(Order) /\ book # << >>
  BY ArithmeticAssumption DEF TypeOK
<1>2. Count \in Nat \ {0} /\ \A i \in Slots : book[i] \in Order
  BY <1>1 DEF Count, Slots
<1>3. IsFiniteSet(Slots) /\ Slots = 1 .. Count
  BY <1>2, FS_Interval DEF Slots
<1>4. cursor \in 0 .. Count - 1
  BY DEF TypeOK
<1>5. ASSUME NEW k \in Nat PROVE Done(k) \subseteq Slots
  BY <1>2, <1>3, <1>4 DEF Done
<1> QED BY <1>2, <1>3, <1>4, <1>5, ArithmeticAssumption, FixedPointAssumption DEF TypeOK, Order

\* A column holds naturals.
LEMMA ColumnTyped ==
  ASSUME TypeOK, NEW f \in Field
  PROVE  \A i \in Slots : Column(f)[i] = slot[i][f] /\ Column(f)[i] \in Nat
BY Typed DEF Column

\* What a stage adds for a batch, as part of a column's sum.
LEMMA BatchSum ==
  ASSUME TypeOK, NEW f \in Field, NEW S \in SUBSET Slots
  PROVE  /\ SumFunctionOnSet([i \in S |-> slot[i][f]], S) = SumFunctionOnSet(Column(f), S)
         /\ SumFunctionOnSet([i \in S |-> IF slot[i][f] > 0 THEN 1 ELSE 0], S)
              = SumFunctionOnSet(Bits(Column(f)), S)
         /\ IsFiniteSet(S)
<1>1. IsFiniteSet(S)
  BY Typed, FS_Subset
<1>2. \A i \in S : [j \in S |-> slot[j][f]][i] = Column(f)[i]
  BY DEF Column
<1>3. \A i \in S : [j \in S |-> IF slot[j][f] > 0 THEN 1 ELSE 0][i] = Bits(Column(f))[i]
  BY DEF Column, Bits
<1> QED BY <1>1, <1>2, <1>3, SumCongruence

\* A batch of a stage: the stage is through the batch's candidates, and the other stages where they were.
LEMMA BatchStep ==
  ASSUME TypeOK, NEW n \in BatchSizes, NEW k \in 0 .. 7, NEW next \in Stage,
         stage # "Reconciled", Rank(stage) = k, Rank(next) = k + 1,
         Advance(BatchEnd(n), next), book' = book
  PROVE  /\ cursor' \in 0 .. Count - 1 /\ stage' \in Stage
         /\ stage' = stage \/ (stage' = next /\ cursor' = 0)
         /\ Done(k)' = Done(k) \cup Batch(BatchEnd(n))
         /\ Done(k) \cap Batch(BatchEnd(n)) = {}
         /\ Batch(BatchEnd(n)) \subseteq Slots /\ Batch(BatchEnd(n)) # {}
         /\ \A j \in 0 .. 8 : j # k => Done(j)' = Done(j)
         /\ \A j \in k + 1 .. 8 : Done(j) = {}
<1> DEFINE end == BatchEnd(n)
<1>1. Count \in Nat \ {0} /\ n \in Nat \ {0} /\ cursor \in 0 .. Count - 1 /\ Count' = Count
      /\ stage \in Stage
  BY Typed, ArithmeticAssumption DEF Count
<1>2. end \in cursor + 1 .. Count
  BY <1>1 DEF BatchEnd
<1>3. /\ cursor' = IF end = Count THEN 0 ELSE end
      /\ stage' = IF end = Count THEN next ELSE stage
  BY DEF Advance
<1>4. Rank(stage') = IF end = Count THEN k + 1 ELSE k
  BY <1>3
<1>5. Done(k) = 1 .. cursor /\ Done(k)' = IF end = Count THEN 1 .. Count ELSE 1 .. end
  BY <1>1, <1>2, <1>3, <1>4 DEF Done, Slots
<1>6. Batch(end) = cursor + 1 .. end /\ Slots = 1 .. Count
  BY DEF Batch, Slots
<1>7. ASSUME NEW j \in 0 .. 8, j # k PROVE Done(j)' = Done(j)
  <2>1. CASE j < k
    BY <1>1, <1>4, <2>1 DEF Done, Slots
  <2>2. CASE j > k
    BY <1>1, <1>3, <1>4, <2>2 DEF Done, Slots
  <2> QED BY <1>7, <2>1, <2>2
<1>8. ASSUME NEW j \in k + 1 .. 8 PROVE Done(j) = {}
  BY DEF Done
<1> HIDE DEF end
<1>9. cursor' \in 0 .. Count - 1 /\ stage' \in Stage /\ (stage' = stage \/ (stage' = next /\ cursor' = 0))
  BY <1>1, <1>2, <1>3
<1>10. Batch(end) \subseteq Slots
  BY <1>1, <1>2, <1>6
<1>11. cursor + 1 \in Batch(end)
  BY <1>1, <1>2, <1>6
<1>12. Done(k) \cap Batch(end) = {}
  <2> SUFFICES ASSUME NEW x \in Done(k), x \in Batch(end) PROVE FALSE
    OBVIOUS
  <2> QED BY <1>1, <1>2, <1>5, <1>6
<1>13. Done(k)' = Done(k) \cup Batch(end)
  BY <1>1, <1>2, <1>5, <1>6
<1> QED BY <1>7, <1>8, <1>9, <1>10, <1>11, <1>12, <1>13 DEF end

-----------------------------------------------------------------------------
(* What each action changes. *)

Same(F) == \A i \in Slots : \A f \in F : slot'[i][f] = slot[i][f]
SameTotal(T) == \A t \in T : total'[t] = total[t]

ClassifiedField == {"buyQuote", "sellBase", "supplyQuote", "buyDemandBase"}
AllocatedField == {"crossBaseOut", "crossQuoteUsed", "crossBaseUsed", "crossQuoteOut"}
SharedField == {"externalAllocation", "finalAllocation"}
GrossTotal == {"grossBuyDemandBase", "grossSellSupplyBase", "grossSupplyQuote",
               "effectiveCount", "supplyContributorCount"}
CrossedTotal == {"crossedBase", "crossedQuote"}
ResidualTotal == {"aggregateInput", "contributorCount"}

\* RunClassification, candidate by candidate.
LEMMA ClassificationEffect ==
  ASSUME TypeOK, NEW n \in BatchSizes, RunClassification(n)
  PROVE  /\ Same(Field \ ClassifiedField) /\ slot' \in [Slots -> [Field -> Nat]]
         /\ \A i \in Slots : i \notin Batch(BatchEnd(n)) => slot'[i] = slot[i]
         /\ \A i \in Batch(BatchEnd(n)) : i \in Slots =>
              /\ slot'[i].buyQuote = BuyQuote(i)
              /\ slot'[i].sellBase = SellBase(i)
              /\ slot'[i].supplyQuote = SupplyQuote(i)
              /\ slot'[i].buyDemandBase = MulDiv(BuyQuote(i), Scale, price)
<1> DEFINE B == Batch(BatchEnd(n))
<1>1. slot' = [i \in Slots |-> IF i \in B THEN Classified(i) ELSE slot[i]]
  BY DEF RunClassification, Store
<1>2. \A i \in Slots : slot[i] \in [Field -> Nat]
  BY DEF TypeOK
<1>3. \A i \in Slots : Classified(i) =
        [slot[i] EXCEPT !.buyQuote = BuyQuote(i), !.sellBase = SellBase(i),
                        !.supplyQuote = SupplyQuote(i),
                        !.buyDemandBase = MulDiv(BuyQuote(i), Scale, price)]
  BY DEF Classified, BuyQuote, SellBase, SupplyQuote, OrderAmount
<1>4. \A i \in Slots : /\ BuyQuote(i) \in Nat /\ SellBase(i) \in Nat /\ SupplyQuote(i) \in Nat
                       /\ MulDiv(BuyQuote(i), Scale, price) \in Nat
  <2> TAKE i \in Slots
  <2>1. BuyQuote(i) \in Nat /\ SellBase(i) \in Nat /\ SupplyQuote(i) \in Nat
    BY Typed DEF BuyQuote, SellBase, SupplyQuote, OrderAmount
  <2> QED BY <2>1, Typed, Floor
<1> HIDE DEF B
<1>5. ASSUME NEW i \in Slots, i \in B
      PROVE  /\ slot'[i] \in [Field -> Nat]
             /\ \A f \in Field \ ClassifiedField : slot'[i][f] = slot[i][f]
             /\ slot'[i].buyQuote = BuyQuote(i)
             /\ slot'[i].sellBase = SellBase(i)
             /\ slot'[i].supplyQuote = SupplyQuote(i)
             /\ slot'[i].buyDemandBase = MulDiv(BuyQuote(i), Scale, price)
  <2> DEFINE d == MulDiv(BuyQuote(i), Scale, price)
  <2>1. slot'[i] = [slot[i] EXCEPT !.buyQuote = BuyQuote(i), !.sellBase = SellBase(i),
                        !.supplyQuote = SupplyQuote(i), !.buyDemandBase = d]
    BY <1>1, <1>3, <1>5
  <2>2. BuyQuote(i) \in Nat /\ SellBase(i) \in Nat /\ SupplyQuote(i) \in Nat /\ d \in Nat
    BY <1>4
  <2> HIDE DEF d
  <2>3. slot[i] \in [Field -> Nat]
    BY <1>2
  <2>4. slot'[i] \in [Field -> Nat]
    <3> DEFINE g == [slot[i] EXCEPT !.buyQuote = BuyQuote(i), !.sellBase = SellBase(i)]
    <3>1. g \in [Field -> Nat]
      BY <2>2, <2>3
    <3>2. slot'[i] = [g EXCEPT !.supplyQuote = SupplyQuote(i), !.buyDemandBase = d]
      BY <2>1
    <3> HIDE DEF g
    <3> QED BY <2>2, <3>1, <3>2
  <2>5. \A f \in Field \ ClassifiedField : slot'[i][f] = slot[i][f]
    BY <2>1, <2>3 DEF ClassifiedField
  <2>6. /\ slot'[i].buyQuote = BuyQuote(i) /\ slot'[i].sellBase = SellBase(i)
        /\ slot'[i].supplyQuote = SupplyQuote(i) /\ slot'[i].buyDemandBase = d
    BY <2>1, <2>3 DEF Field
  <2> QED BY <2>4, <2>5, <2>6 DEF d
<1>6. \A i \in Slots : i \notin B => slot'[i] = slot[i]
  BY <1>1
<1>7. slot' \in [Slots -> [Field -> Nat]]
  <2>1. \A i \in Slots : slot'[i] \in [Field -> Nat]
    BY <1>2, <1>5, <1>6
  <2>2. slot' = [i \in Slots |-> slot'[i]]
    BY <1>1
  <2> QED BY <2>1, <2>2
<1>8. Same(Field \ ClassifiedField)
  BY <1>5, <1>6 DEF Same
<1> QED BY <1>5, <1>6, <1>7, <1>8 DEF B

\* RunAccumulation adds the batch's sums.
LEMMA AccumulationEffect ==
  ASSUME TypeOK, NEW n \in BatchSizes, RunAccumulation(n), Batch(BatchEnd(n)) \subseteq Slots
  PROVE  LET B == Batch(BatchEnd(n)) IN
         /\ SameTotal(Total \ GrossTotal)
         /\ total' \in [Total -> Nat]
         /\ total'.grossBuyDemandBase =
              total.grossBuyDemandBase + SumFunctionOnSet(Column("buyDemandBase"), B)
         /\ total'.grossSellSupplyBase =
              total.grossSellSupplyBase + SumFunctionOnSet(Column("sellBase"), B)
         /\ total'.grossSupplyQuote =
              total.grossSupplyQuote + SumFunctionOnSet(Column("supplyQuote"), B)
         /\ total'.effectiveCount =
              total.effectiveCount + SumFunctionOnSet(Bits(Contributions), B)
         /\ total'.supplyContributorCount =
              total.supplyContributorCount + SumFunctionOnSet(Bits(Column("supplyQuote")), B)
<1> DEFINE B == Batch(BatchEnd(n))
           E == SumFunctionOnSet([i \in B |-> IF Contribution(i) > 0 THEN 1 ELSE 0], B)
           S(f) == SumFunctionOnSet([i \in B |-> slot[i][f]], B)
           C == SumFunctionOnSet([i \in B |-> IF slot[i]["supplyQuote"] > 0 THEN 1 ELSE 0], B)
<1>1. total' = [total EXCEPT
         !.grossBuyDemandBase = total.grossBuyDemandBase + S("buyDemandBase"),
         !.grossSellSupplyBase = total.grossSellSupplyBase + S("sellBase"),
         !.grossSupplyQuote = total.grossSupplyQuote + S("supplyQuote"),
         !.effectiveCount = total.effectiveCount + E,
         !.supplyContributorCount = total.supplyContributorCount + C]
  BY DEF RunAccumulation, SumOver, CountOver
<1>2. /\ S("buyDemandBase") = SumFunctionOnSet(Column("buyDemandBase"), B)
      /\ S("sellBase") = SumFunctionOnSet(Column("sellBase"), B)
      /\ S("supplyQuote") = SumFunctionOnSet(Column("supplyQuote"), B)
      /\ C = SumFunctionOnSet(Bits(Column("supplyQuote")), B)
      /\ IsFiniteSet(B)
  BY BatchSum DEF Field
<1>3. E = SumFunctionOnSet(Bits(Contributions), B)
  <2>1. \A i \in B : [j \in B |-> IF Contribution(j) > 0 THEN 1 ELSE 0][i] = Bits(Contributions)[i]
    BY DEF Bits, Contributions
  <2> QED BY <1>2, <2>1, SumCongruence
<1>4. /\ S("buyDemandBase") \in Nat /\ S("sellBase") \in Nat /\ S("supplyQuote") \in Nat
      /\ C \in Nat /\ E \in Nat
  <2>1. \A i \in B : /\ Column("buyDemandBase")[i] \in Nat /\ Column("sellBase")[i] \in Nat
                     /\ Column("supplyQuote")[i] \in Nat /\ Bits(Contributions)[i] \in Nat
                     /\ Bits(Column("supplyQuote"))[i] \in Nat
    BY ColumnTyped DEF Field, Bits
  <2> QED BY <1>2, <1>3, <2>1, SumNat
<1>5. total \in [Total -> Nat]
  BY DEF TypeOK
<1> HIDE DEF B, S, C, E
<1>6. total' \in [Total -> Nat]
  <2> DEFINE b == total.grossBuyDemandBase + S("buyDemandBase")
             s == total.grossSellSupplyBase + S("sellBase")
             p == total.grossSupplyQuote + S("supplyQuote")
             e == total.effectiveCount + E
             c == total.supplyContributorCount + C
  <2>1. b \in Nat /\ s \in Nat /\ p \in Nat /\ e \in Nat /\ c \in Nat
    BY <1>4, <1>5 DEF Total
  <2>2. total' = [total EXCEPT !.grossBuyDemandBase = b, !.grossSellSupplyBase = s,
           !.grossSupplyQuote = p, !.effectiveCount = e, !.supplyContributorCount = c]
    BY <1>1
  <2> HIDE DEF b, s, p, e, c
  <2> QED BY <1>5, <2>1, <2>2
<1>7. SameTotal(Total \ GrossTotal)
  <2> SUFFICES ASSUME NEW t \in Total \ GrossTotal PROVE total'[t] = total[t]
    BY DEF SameTotal
  <2>1. /\ t # "grossBuyDemandBase" /\ t # "grossSellSupplyBase" /\ t # "grossSupplyQuote"
        /\ t # "effectiveCount" /\ t # "supplyContributorCount" /\ t \in Total
    BY DEF GrossTotal
  <2> QED BY <1>1, <1>5, <2>1
<1>8. /\ total'.grossBuyDemandBase = total.grossBuyDemandBase + S("buyDemandBase")
      /\ total'.grossSellSupplyBase = total.grossSellSupplyBase + S("sellBase")
      /\ total'.grossSupplyQuote = total.grossSupplyQuote + S("supplyQuote")
      /\ total'.effectiveCount = total.effectiveCount + E
      /\ total'.supplyContributorCount = total.supplyContributorCount + C
  BY <1>1, <1>5 DEF Total
<1> QED BY <1>2, <1>3, <1>6, <1>7, <1>8 DEF B

\* RunCrossing, with the lesser of the two sides.
LEMMA CrossingEffect ==
  ASSUME TypeOK, RunCrossing
  PROVE  LET crossed == Lesser(total.grossBuyDemandBase, total.grossSellSupplyBase) IN
         /\ SameTotal(Total \ CrossedTotal) /\ total' \in [Total -> Nat]
         /\ total'.crossedBase = crossed
         /\ total'.crossedQuote = MulDiv(crossed, price, Scale)
<1> DEFINE crossed == Lesser(total.grossBuyDemandBase, total.grossSellSupplyBase)
           quote == MulDiv(crossed, price, Scale)
<1>1. total' = [total EXCEPT !.crossedBase = crossed, !.crossedQuote = quote]
  BY DEF RunCrossing, Lesser
<1>2. total \in [Total -> Nat]
  BY DEF TypeOK
<1>3. crossed \in Nat
  BY <1>2 DEF Lesser, Total
<1>4. quote \in Nat
  BY <1>3, Typed, Floor
<1> HIDE DEF crossed, quote
<1>5. /\ SameTotal(Total \ CrossedTotal) /\ total' \in [Total -> Nat]
      /\ total'.crossedBase = crossed /\ total'.crossedQuote = quote
  BY <1>1, <1>2, <1>3, <1>4 DEF SameTotal, Total, CrossedTotal
<1> QED BY <1>5 DEF crossed, quote

\* What the cross left of an order is a natural.
LEMMA LeftoverTyped ==
  ASSUME TypeOK
  PROVE  \A i \in Slots : Leftover(i) \in Nat
<1> TAKE i \in Slots
<1>1. /\ slot[i].buyQuote \in Nat /\ slot[i].crossQuoteUsed \in Nat
      /\ slot[i].sellBase \in Nat /\ slot[i].crossBaseUsed \in Nat
  BY Typed DEF Field
<1> QED BY <1>1 DEF Leftover, SafeSub

\* The output a contributor asks for is a natural.
LEMMA RequirementTyped ==
  ASSUME TypeOK
  PROVE  \A i \in Slots : Requirement(i) \in Nat
<1> TAKE i \in Slots
<1>1. total.aggregateInput \in Nat /\ Scale \in Nat /\ book[i].limit \in Nat
  BY Typed DEF Total
<1> QED BY <1>1, Ceil DEF Requirement

\* A contributor's share of the output is a natural.
LEMMA ShareTyped ==
  ASSUME TypeOK
  PROVE  \A i \in Slots : Share(i) \in Nat
<1> TAKE i \in Slots
<1>1. /\ total.aggregateInput \in Nat /\ output \in Nat /\ slot[i].residualContribution \in Nat
  BY Typed DEF Total, Field, TypeOK
<1> QED BY <1>1, Floor DEF Share

\* RunAllocation, candidate by candidate.
LEMMA AllocationEffect ==
  ASSUME TypeOK, NEW n \in BatchSizes, RunAllocation(n)
  PROVE  /\ Same(Field \ AllocatedField) /\ slot' \in [Slots -> [Field -> Nat]]
         /\ \A i \in Slots : i \notin Batch(BatchEnd(n)) => slot'[i] = slot[i]
         /\ \A i \in Batch(BatchEnd(n)) : i \in Slots =>
              LET baseOut == MulDiv(total.crossedBase, slot[i].buyDemandBase,
                                    total.grossBuyDemandBase) IN
              /\ slot'[i].crossBaseOut = baseOut
              /\ slot'[i].crossQuoteUsed = MulDivCeil(baseOut, price, Scale)
              /\ slot'[i].crossBaseUsed =
                   MulDiv(total.crossedBase, slot[i].sellBase, total.grossSellSupplyBase)
              /\ slot'[i].crossQuoteOut =
                   MulDiv(total.crossedQuote, slot[i].sellBase, total.grossSellSupplyBase)
<1> DEFINE B == Batch(BatchEnd(n))
           baseOut(i) == MulDiv(total.crossedBase, slot[i].buyDemandBase, total.grossBuyDemandBase)
           quoteUsed(i) == MulDivCeil(baseOut(i), price, Scale)
           baseUsed(i) == MulDiv(total.crossedBase, slot[i].sellBase, total.grossSellSupplyBase)
           quoteOut(i) == MulDiv(total.crossedQuote, slot[i].sellBase, total.grossSellSupplyBase)
<1>1. slot' = [i \in Slots |-> IF i \in B THEN Allocated(i) ELSE slot[i]]
  BY DEF RunAllocation, Store
<1>2. \A i \in Slots : slot[i] \in [Field -> Nat]
  BY DEF TypeOK
<1>3. \A i \in Slots : Allocated(i) =
        [slot[i] EXCEPT !.crossBaseOut = baseOut(i), !.crossQuoteUsed = quoteUsed(i),
                        !.crossBaseUsed = baseUsed(i), !.crossQuoteOut = quoteOut(i)]
  BY DEF Allocated
<1>4. \A i \in Slots : /\ baseOut(i) \in Nat /\ quoteUsed(i) \in Nat
                       /\ baseUsed(i) \in Nat /\ quoteOut(i) \in Nat
  <2> TAKE i \in Slots
  <2>1. /\ total.crossedBase \in Nat /\ total.crossedQuote \in Nat
        /\ total.grossBuyDemandBase \in Nat /\ total.grossSellSupplyBase \in Nat
        /\ slot[i].buyDemandBase \in Nat /\ slot[i].sellBase \in Nat
    BY Typed DEF Total, Field
  <2>2. baseOut(i) \in Nat /\ baseUsed(i) \in Nat /\ quoteOut(i) \in Nat
    BY <2>1, Floor
  <2> HIDE DEF baseOut
  <2>3. quoteUsed(i) \in Nat
    BY <2>2, Typed, Ceil
  <2> QED BY <2>2, <2>3
<1> HIDE DEF B, baseOut, quoteUsed, baseUsed, quoteOut
<1>5. ASSUME NEW i \in Slots, i \in B
      PROVE  /\ slot'[i] \in [Field -> Nat]
             /\ \A f \in Field \ AllocatedField : slot'[i][f] = slot[i][f]
             /\ slot'[i].crossBaseOut = baseOut(i) /\ slot'[i].crossQuoteUsed = quoteUsed(i)
             /\ slot'[i].crossBaseUsed = baseUsed(i) /\ slot'[i].crossQuoteOut = quoteOut(i)
  <2>1. slot'[i] = [slot[i] EXCEPT !.crossBaseOut = baseOut(i), !.crossQuoteUsed = quoteUsed(i),
                        !.crossBaseUsed = baseUsed(i), !.crossQuoteOut = quoteOut(i)]
    BY <1>1, <1>3, <1>5
  <2>2. /\ baseOut(i) \in Nat /\ quoteUsed(i) \in Nat /\ baseUsed(i) \in Nat /\ quoteOut(i) \in Nat
        /\ slot[i] \in [Field -> Nat]
    BY <1>2, <1>4
  <2>3. slot'[i] \in [Field -> Nat]
    BY <2>1, <2>2
  <2>4. \A f \in Field \ AllocatedField : slot'[i][f] = slot[i][f]
    BY <2>1, <2>2 DEF AllocatedField
  <2>5. /\ slot'[i].crossBaseOut = baseOut(i) /\ slot'[i].crossQuoteUsed = quoteUsed(i)
        /\ slot'[i].crossBaseUsed = baseUsed(i) /\ slot'[i].crossQuoteOut = quoteOut(i)
    BY <2>1, <2>2 DEF Field
  <2> QED BY <2>3, <2>4, <2>5
<1>6. \A i \in Slots : i \notin B => slot'[i] = slot[i]
  BY <1>1
<1>7. slot' \in [Slots -> [Field -> Nat]]
  <2>1. \A i \in Slots : slot'[i] \in [Field -> Nat]
    BY <1>2, <1>5, <1>6
  <2>2. slot' = [i \in Slots |-> slot'[i]]
    BY <1>1
  <2> QED BY <2>1, <2>2
<1>8. Same(Field \ AllocatedField)
  BY <1>5, <1>6 DEF Same
<1> QED BY <1>5, <1>6, <1>7, <1>8 DEF B, baseOut, quoteUsed, baseUsed, quoteOut

\* RunResidual, candidate by candidate, and the sums it adds.
LEMMA ResidualEffect ==
  ASSUME TypeOK, NEW n \in BatchSizes, RunResidual(n), Batch(BatchEnd(n)) \subseteq Slots
  PROVE  LET B == Batch(BatchEnd(n)) IN
         /\ Same(Field \ {"residualContribution"}) /\ slot' \in [Slots -> [Field -> Nat]]
         /\ \A i \in Slots : slot'[i].residualContribution =
              IF i \in B THEN Leftover(i) ELSE slot[i].residualContribution
         /\ SameTotal(Total \ ResidualTotal) /\ total' \in [Total -> Nat]
         /\ total'.aggregateInput =
              total.aggregateInput + SumFunctionOnSet(Column("residualContribution")', B)
         /\ total'.contributorCount =
              total.contributorCount + SumFunctionOnSet(Bits(Column("residualContribution"))', B)
<1> DEFINE B == Batch(BatchEnd(n))
           S == SumFunctionOnSet([i \in B |-> Leftover(i)], B)
           C == SumFunctionOnSet([i \in B |-> IF Leftover(i) > 0 THEN 1 ELSE 0], B)
<1>1. slot' = [i \in Slots |->
                 IF i \in B THEN [slot[i] EXCEPT !.residualContribution = Leftover(i)] ELSE slot[i]]
  BY DEF RunResidual, Store
<1>2. \A i \in Slots : slot[i] \in [Field -> Nat] /\ Leftover(i) \in Nat
  BY LeftoverTyped DEF TypeOK
<1>3. total' = [total EXCEPT !.aggregateInput = total.aggregateInput + S,
                             !.contributorCount = total.contributorCount + C]
  BY DEF RunResidual, SumOver, CountOver
<1>4. IsFiniteSet(B) /\ Slots' = Slots
  BY Typed, FS_Subset DEF RunResidual, Slots, Count
<1>5. \A i \in Slots : /\ slot'[i] \in [Field -> Nat]
                       /\ \A f \in Field \ {"residualContribution"} : slot'[i][f] = slot[i][f]
                       /\ slot'[i].residualContribution =
                            IF i \in B THEN Leftover(i) ELSE slot[i].residualContribution
  BY <1>1, <1>2 DEF Field
<1>6. \A i \in B : [j \in B |-> Leftover(j)][i] = (Column("residualContribution")')[i]
  BY <1>4, <1>5 DEF Column
<1>7. \A i \in B : [j \in B |-> IF Leftover(j) > 0 THEN 1 ELSE 0][i]
                     = (Bits(Column("residualContribution"))')[i]
  <2> TAKE i \in B
  <2>1. (Bits(Column("residualContribution"))')[i]
          = IF (Column("residualContribution")')[i] > 0 THEN 1 ELSE 0
    BY <1>4 DEF Bits
  <2> QED BY <1>6, <2>1
<1>8. /\ S = SumFunctionOnSet(Column("residualContribution")', B)
      /\ C = SumFunctionOnSet(Bits(Column("residualContribution"))', B)
  BY <1>4, <1>6, <1>7, SumCongruence
<1>9. S \in Nat /\ C \in Nat
  BY <1>2, <1>4, SumNat
<1> HIDE DEF B, S, C
<1>10. total \in [Total -> Nat]
  BY DEF TypeOK
<1>11. /\ SameTotal(Total \ ResidualTotal) /\ total' \in [Total -> Nat]
       /\ total'.aggregateInput = total.aggregateInput + S
       /\ total'.contributorCount = total.contributorCount + C
  <2> DEFINE a == total.aggregateInput + S
             c == total.contributorCount + C
  <2>1. a \in Nat /\ c \in Nat
    BY <1>9, <1>10 DEF Total
  <2>2. total' = [total EXCEPT !.aggregateInput = a, !.contributorCount = c]
    BY <1>3
  <2> HIDE DEF a, c
  <2> QED BY <1>10, <2>1, <2>2 DEF SameTotal, Total, ResidualTotal, a, c
<1>12. slot' \in [Slots -> [Field -> Nat]]
  <2>1. slot' = [i \in Slots |-> slot'[i]]
    BY <1>1
  <2> QED BY <1>5, <2>1
<1>13. Same(Field \ {"residualContribution"})
  BY <1>5 DEF Same
<1> QED BY <1>5, <1>8, <1>11, <1>12, <1>13 DEF B

\* FinaliseResidual, candidate by candidate, and the greatest requirement so far.
LEMMA FinaliseEffect ==
  ASSUME TypeOK, NEW n \in BatchSizes, FinaliseResidual(n), Batch(BatchEnd(n)) \subseteq Slots
  PROVE  LET B == Batch(BatchEnd(n)) IN
         /\ Same(Field \ {"requiredVenueTotal"}) /\ slot' \in [Slots -> [Field -> Nat]]
         /\ \A i \in Slots : slot'[i].requiredVenueTotal =
              IF i \in B THEN Requirement(i) ELSE slot[i].requiredVenueTotal
         /\ SameTotal(Total \ {"aggregateMinimum"}) /\ total' \in [Total -> Nat]
         /\ total'.aggregateMinimum \in {total.aggregateMinimum} \cup {Requirement(i) : i \in B}
         /\ total.aggregateMinimum <= total'.aggregateMinimum
         /\ \A i \in B : Requirement(i) <= total'.aggregateMinimum
<1> DEFINE B == Batch(BatchEnd(n))
           m == Strictest(B, total.aggregateMinimum)
<1>1. slot' = [i \in Slots |->
                 IF i \in B THEN [slot[i] EXCEPT !.requiredVenueTotal = Requirement(i)] ELSE slot[i]]
  BY DEF FinaliseResidual, Store
<1>2. \A i \in Slots : slot[i] \in [Field -> Nat] /\ Requirement(i) \in Nat
  BY RequirementTyped DEF TypeOK
<1>3. total' = [total EXCEPT !.aggregateMinimum = m]
  BY DEF FinaliseResidual
<1>4. total \in [Total -> Nat] /\ total.aggregateMinimum \in Nat
  BY DEF TypeOK, Total
<1>5. /\ m \in {total.aggregateMinimum} \cup {Requirement(i) : i \in B}
      /\ total.aggregateMinimum <= m /\ \A i \in B : Requirement(i) <= m
  <2> DEFINE a == total.aggregateMinimum
             f == [i \in B |-> Requirement(i)]
  <2>1. IsFiniteSet(B)
    BY Typed, FS_Subset
  <2>2. \A i \in B : f[i] \in Nat
    BY <1>2
  <2> HIDE DEF a, f
  <2>3. PICK top \in {a} \cup {f[x] : x \in B} : top >= a /\ \A x \in B : f[x] <= top
    BY <1>4, <2>1, <2>2, LargestTerm DEF a
  <2>4. {f[x] : x \in B} = {Requirement(i) : i \in B}
    BY DEF f
  <2>5. m = CHOOSE z \in {a} \cup {Requirement(i) : i \in B} :
                     \A c \in {a} \cup {Requirement(i) : i \in B} : c <= z
    BY DEF Strictest, a
  <2>6. a \in Nat
    BY <1>4 DEF a
  <2>7. \A c \in {a} \cup {Requirement(i) : i \in B} : c <= top
    BY <2>3, <2>4, <2>6 DEF f
  <2> HIDE DEF m
  <2>8. /\ m \in {a} \cup {Requirement(i) : i \in B}
        /\ \A c \in {a} \cup {Requirement(i) : i \in B} : c <= m
    BY <2>3, <2>4, <2>5, <2>7
  <2> QED BY <2>8 DEF a
<1>6. m \in Nat
  BY <1>2, <1>4, <1>5
<1> HIDE DEF B, m
<1>7. \A i \in Slots : /\ slot'[i] \in [Field -> Nat]
                       /\ \A f \in Field \ {"requiredVenueTotal"} : slot'[i][f] = slot[i][f]
                       /\ slot'[i].requiredVenueTotal =
                            IF i \in B THEN Requirement(i) ELSE slot[i].requiredVenueTotal
  BY <1>1, <1>2 DEF Field
<1>8. /\ SameTotal(Total \ {"aggregateMinimum"}) /\ total' \in [Total -> Nat]
      /\ total'.aggregateMinimum = m
  BY <1>3, <1>4, <1>6 DEF SameTotal, Total
<1>9. slot' \in [Slots -> [Field -> Nat]]
  <2>1. slot' = [i \in Slots |-> slot'[i]]
    BY <1>1
  <2> QED BY <1>7, <2>1
<1>10. Same(Field \ {"requiredVenueTotal"})
  BY <1>7 DEF Same
<1> QED BY <1>5, <1>7, <1>8, <1>9, <1>10 DEF B

\* Reconcile, candidate by candidate.
LEMMA ReconcileEffect ==
  ASSUME TypeOK, NEW n \in BatchSizes, Reconcile(n)
  PROVE  LET B == Batch(BatchEnd(n)) IN
         /\ Same(Field \ SharedField) /\ slot' \in [Slots -> [Field -> Nat]]
         /\ \A i \in Slots :
              /\ slot'[i].externalAllocation = IF i \in B THEN Share(i) ELSE slot[i].externalAllocation
              /\ slot'[i].finalAllocation =
                   IF i \in B THEN slot[i].crossBaseOut + Share(i) ELSE slot[i].finalAllocation
<1> DEFINE B == Batch(BatchEnd(n))
<1>1. slot' = [i \in Slots |-> IF i \in B
                 THEN [slot[i] EXCEPT !.externalAllocation = Share(i),
                                      !.finalAllocation = slot[i].crossBaseOut + Share(i)]
                 ELSE slot[i]]
  BY DEF Reconcile, Store
<1>2. \A i \in Slots : slot[i] \in [Field -> Nat] /\ Share(i) \in Nat
  BY ShareTyped DEF TypeOK
<1> HIDE DEF B
<1>3. ASSUME NEW i \in Slots
      PROVE  /\ slot'[i] \in [Field -> Nat]
             /\ \A f \in Field \ SharedField : slot'[i][f] = slot[i][f]
             /\ slot'[i].externalAllocation = IF i \in B THEN Share(i) ELSE slot[i].externalAllocation
             /\ slot'[i].finalAllocation =
                   IF i \in B THEN slot[i].crossBaseOut + Share(i) ELSE slot[i].finalAllocation
  <2> DEFINE a == slot[i].crossBaseOut + Share(i)
  <2>1. a \in Nat
    BY <1>2 DEF Field
  <2>2. slot'[i] = IF i \in B THEN [slot[i] EXCEPT !.externalAllocation = Share(i),
                                      !.finalAllocation = a] ELSE slot[i]
    BY <1>1
  <2> HIDE DEF a
  <2>3. CASE i \in B
    <3>1. slot'[i] = [slot[i] EXCEPT !.externalAllocation = Share(i), !.finalAllocation = a]
      BY <2>2, <2>3
    <3>2. slot[i] \in [Field -> Nat] /\ Share(i) \in Nat
      BY <1>2
    <3>3. /\ slot'[i] \in [Field -> Nat]
          /\ \A f \in Field \ SharedField : slot'[i][f] = slot[i][f]
      BY <2>1, <3>1, <3>2 DEF SharedField
    <3>4. slot'[i].externalAllocation = Share(i) /\ slot'[i].finalAllocation = a
      BY <3>1, <3>2 DEF Field
    <3> QED BY <2>3, <3>3, <3>4 DEF a
  <2>4. CASE i \notin B
    BY <1>2, <2>2, <2>4
  <2> QED BY <2>3, <2>4
<1>4. slot' \in [Slots -> [Field -> Nat]]
  <2>1. slot' = [i \in Slots |-> slot'[i]]
    BY <1>1
  <2> QED BY <1>3, <2>1
<1>5. Same(Field \ SharedField)
  BY <1>3 DEF Same
<1> QED BY <1>3, <1>4, <1>5 DEF B

-----------------------------------------------------------------------------
(* What each part of the invariant depends on.  A part whose stage has not *)
(* begun depends on nothing but its own fields.                            *)

\* A column whose entries stay is the same function.
LEMMA ColumnKept ==
  ASSUME book' = book, NEW f, \A i \in Slots : slot'[i][f] = slot[i][f]
  PROVE  Column(f)' = Column(f) /\ Bits(Column(f))' = Bits(Column(f))
<1>1. Slots' = Slots
  BY DEF Slots, Count
<1>2. Column(f)' = Column(f)
  BY <1>1 DEF Column
<1>3. Bits(Column(f))' = [i \in Slots' |-> IF (Column(f)')[i] > 0 THEN 1 ELSE 0]
  BY DEF Bits
<1> QED BY <1>1, <1>2, <1>3 DEF Bits

\* A step that keeps what the part reads keeps the part: the same for each below.
LEMMA ClassificationKept ==
  ASSUME Classification, book' = book, price' = price,
         Same(ClassifiedField), Done(0)' = Done(0)
  PROVE  Classification'
<1>1. Slots' = Slots
  BY DEF Slots, Count
<1> SUFFICES ASSUME NEW i \in Slots
             PROVE  LET done == i \in Done(0) IN
               /\ slot'[i].buyQuote = IF done THEN BuyQuote(i) ELSE 0
               /\ slot'[i].sellBase = IF done THEN SellBase(i) ELSE 0
               /\ slot'[i].supplyQuote = IF done THEN SupplyQuote(i) ELSE 0
               /\ slot'[i].buyDemandBase = IF done THEN MulDiv(BuyQuote(i), Scale, price) ELSE 0
  BY <1>1 DEF Classification, BuyQuote, SellBase, SupplyQuote, OrderAmount
<1> QED BY DEF Same, ClassifiedField, Classification

\* ... of the gross totals,
LEMMA AccumulationKept ==
  ASSUME TypeOK, Accumulation, book' = book, SameTotal(GrossTotal), Done(1)' = Done(1),
         Done(1) = {} \/ Same(ClassifiedField)
  PROVE  Accumulation'
<1>1. \A t \in GrossTotal : total'[t] = total[t]
  BY DEF SameTotal
<1>2. CASE Done(1) = {}
  BY <1>1, <1>2, SumEmpty DEF Accumulation, GrossTotal
<1>3. CASE Same(ClassifiedField)
  <2>1. /\ Column("buyDemandBase")' = Column("buyDemandBase")
        /\ Column("sellBase")' = Column("sellBase")
        /\ Column("supplyQuote")' = Column("supplyQuote")
        /\ Bits(Column("supplyQuote"))' = Bits(Column("supplyQuote"))
    BY <1>3, ColumnKept DEF Same, ClassifiedField
  <2>2. Bits(Contributions)' = Bits(Contributions)
    <3>1. Slots' = Slots
      BY DEF Slots, Count
    <3>2. Contributions' = Contributions
      BY <1>3, <3>1 DEF Contributions, Contribution, Same, ClassifiedField
    <3>3. Bits(Contributions)' = [i \in Slots' |-> IF (Contributions')[i] > 0 THEN 1 ELSE 0]
      BY DEF Bits
    <3> QED BY <3>1, <3>2, <3>3 DEF Bits
  <2> QED BY <1>1, <2>1, <2>2 DEF Accumulation, GrossTotal
<1> QED BY <1>2, <1>3

\* ... of the cross,
LEMMA CrossingKept ==
  ASSUME Crossing, SameTotal(CrossedTotal), Rank(stage) >= 3 <=> Rank(stage') >= 3,
         Rank(stage) < 3 \/ (SameTotal(GrossTotal) /\ price' = price), stage \in Stage
  PROVE  Crossing'
<1>1. total'.crossedBase = total.crossedBase /\ total'.crossedQuote = total.crossedQuote
  BY DEF SameTotal, CrossedTotal
<1>2. CASE Rank(stage) >= 3
  <2>1. /\ total'.grossBuyDemandBase = total.grossBuyDemandBase
        /\ total'.grossSellSupplyBase = total.grossSellSupplyBase /\ price' = price
    BY <1>2 DEF SameTotal, GrossTotal, Rank, Stage
  <2> QED BY <1>1, <1>2, <2>1 DEF Crossing
<1>3. CASE ~(Rank(stage) >= 3)
  BY <1>1, <1>3 DEF Crossing
<1> QED BY <1>2, <1>3

\* ... of the allocations,
LEMMA AllocationKept ==
  ASSUME Allocation, book' = book, Same(AllocatedField), Done(3)' = Done(3),
         Done(3) = {} \/ (/\ Same(ClassifiedField) /\ SameTotal(GrossTotal)
                          /\ SameTotal(CrossedTotal) /\ price' = price)
  PROVE  Allocation'
<1>1. Slots' = Slots
  BY DEF Slots, Count
<1>2. \A i \in Slots : \A f \in AllocatedField : slot'[i][f] = slot[i][f]
  BY DEF Same
<1>3. CASE Done(3) = {}
  BY <1>1, <1>2, <1>3 DEF Allocation, AllocatedField
<1>4. CASE /\ Same(ClassifiedField) /\ SameTotal(GrossTotal)
           /\ SameTotal(CrossedTotal) /\ price' = price
  <2>1. /\ \A i \in Slots : /\ slot'[i].buyDemandBase = slot[i].buyDemandBase
                            /\ slot'[i].sellBase = slot[i].sellBase
        /\ total'.crossedBase = total.crossedBase /\ total'.crossedQuote = total.crossedQuote
        /\ total'.grossBuyDemandBase = total.grossBuyDemandBase
        /\ total'.grossSellSupplyBase = total.grossSellSupplyBase
    BY <1>4 DEF Same, SameTotal, ClassifiedField, GrossTotal, CrossedTotal
  <2> QED BY <1>1, <1>2, <1>4, <2>1 DEF Allocation, AllocatedField
<1> QED BY <1>3, <1>4

\* (the direction is a function of the gross totals)
LEMMA DirectionKept ==
  ASSUME SameTotal(GrossTotal)
  PROVE  Direction' = Direction
BY DEF SameTotal, GrossTotal, Direction

\* ... of the residual,
LEMMA ResidualKept ==
  ASSUME Residual, book' = book, Same({"residualContribution"}), SameTotal(ResidualTotal),
         Done(4)' = Done(4),
         Done(4) = {} \/ (Same(ClassifiedField) /\ Same(AllocatedField) /\ SameTotal(GrossTotal))
  PROVE  Residual'
<1>1. Slots' = Slots
  BY DEF Slots, Count
<1>2. \A i \in Slots : slot'[i].residualContribution = slot[i].residualContribution
  BY DEF Same
<1>3. \A i \in Done(4) : i \in Slots => Leftover(i)' = Leftover(i)
  <2>1. CASE Done(4) = {}
    BY <2>1
  <2>2. CASE Same(ClassifiedField) /\ Same(AllocatedField) /\ SameTotal(GrossTotal)
    <3>1. Direction' = Direction
      BY <2>2, DirectionKept
    <3>2. \A i \in Slots :
            /\ slot'[i].buyQuote = slot[i].buyQuote /\ slot'[i].sellBase = slot[i].sellBase
            /\ slot'[i].crossQuoteUsed = slot[i].crossQuoteUsed
            /\ slot'[i].crossBaseUsed = slot[i].crossBaseUsed
      BY <2>2 DEF Same, ClassifiedField, AllocatedField
    <3> QED BY <3>1, <3>2 DEF Leftover
  <2> QED BY <2>1, <2>2
<1>4. /\ Column("residualContribution")' = Column("residualContribution")
      /\ Bits(Column("residualContribution"))' = Bits(Column("residualContribution"))
  BY <1>2, ColumnKept
<1>5. total'.aggregateInput = total.aggregateInput /\ total'.contributorCount = total.contributorCount
  BY DEF SameTotal, ResidualTotal
<1>6. \A i \in Slots : slot'[i].residualContribution = IF i \in Done(4)' THEN Leftover(i)' ELSE 0
  BY <1>2, <1>3 DEF Residual
<1>7. /\ total'.aggregateInput = SumFunctionOnSet(Column("residualContribution"), Done(4))'
      /\ total'.contributorCount = SumFunctionOnSet(Bits(Column("residualContribution")), Done(4))'
  BY <1>4, <1>5 DEF Residual
<1> QED BY <1>1, <1>6, <1>7 DEF Residual

\* ... of the requirements,
LEMMA RequirementsKept ==
  ASSUME TypeOK, Requirements, book' = book, Same({"requiredVenueTotal"}),
         SameTotal({"aggregateMinimum"}), Done(5)' = Done(5),
         Done(5) = {} \/ (/\ Same({"residualContribution"}) /\ SameTotal(ResidualTotal)
                          /\ SameTotal(GrossTotal))
  PROVE  Requirements'
<1>1. Slots' = Slots /\ Done(5) \subseteq Slots
  BY Typed DEF Slots, Count
<1>2. /\ \A i \in Slots : slot'[i].requiredVenueTotal = slot[i].requiredVenueTotal
      /\ total'.aggregateMinimum = total.aggregateMinimum
  BY DEF Same, SameTotal
<1>3. \A i \in Done(5) : Requirement(i)' = Requirement(i)
  <2>1. CASE Done(5) = {}
    BY <2>1
  <2>2. CASE Same({"residualContribution"}) /\ SameTotal(ResidualTotal) /\ SameTotal(GrossTotal)
    <3>1. Direction' = Direction
      BY <2>2, DirectionKept
    <3>2. /\ \A i \in Slots : slot'[i].residualContribution = slot[i].residualContribution
          /\ total'.aggregateInput = total.aggregateInput
      BY <2>2 DEF Same, SameTotal, ResidualTotal
    <3> QED BY <1>1, <3>1, <3>2 DEF Requirement
  <2> QED BY <2>1, <2>2
<1>4. \A i \in Slots : slot'[i].requiredVenueTotal = IF i \in Done(5)' THEN Requirement(i)' ELSE 0
  BY <1>2, <1>3 DEF Requirements
<1>5. {Requirement(i)' : i \in Done(5)'} = {Requirement(i) : i \in Done(5)}
  BY <1>3
<1>6. /\ total'.aggregateMinimum \in {0} \cup {Requirement(i)' : i \in Done(5)'}
      /\ \A i \in Done(5)' : Requirement(i)' <= total'.aggregateMinimum
  BY <1>2, <1>3, <1>5 DEF Requirements
<1> QED BY <1>1, <1>4, <1>6 DEF Requirements

\* ... of the execution,
LEMMA ExecutionKept ==
  ASSUME Execution, output' = output, Rank(stage) < 7 <=> Rank(stage') < 7, stage \in Stage,
         Rank(stage) < 7 \/ (/\ SameTotal({"aggregateMinimum"}) /\ SameTotal(ResidualTotal)
                             /\ SameTotal(GrossTotal))
  PROVE  Execution'
<1>1. CASE Rank(stage) < 7
  BY <1>1 DEF Execution
<1>2. CASE ~(Rank(stage) < 7)
  <2>1. /\ Direction' = Direction /\ total'.aggregateMinimum = total.aggregateMinimum
        /\ total'.aggregateInput = total.aggregateInput
        /\ total'.contributorCount = total.contributorCount
    BY <1>2, DirectionKept DEF SameTotal, ResidualTotal
  <2>2. Floors.residual' = Floors.residual
    BY <2>1 DEF Floors
  <2> QED BY <1>2, <2>1, <2>2 DEF Execution
<1> QED BY <1>1, <1>2

\* ... of the shares.
LEMMA SharesKept ==
  ASSUME Shares, book' = book, Same(SharedField), Done(7)' = Done(7), Done(7) = {}
  PROVE  Shares'
<1>1. Slots' = Slots
  BY DEF Slots, Count
<1> QED BY <1>1 DEF Shares, Same, SharedField

-----------------------------------------------------------------------------
(* Every action keeps the invariant. *)

\* The type invariant after a step that moves the typed parts.
LEMMA BatchKeepsTyping ==
  ASSUME TypeOK, book' = book, price' = price, output' = output,
         slot' \in [Slots -> [Field -> Nat]], total' \in [Total -> Nat],
         stage' \in Stage, cursor' \in 0 .. Count - 1
  PROVE  TypeOK'
<1>1. Count' = Count /\ Slots' = Slots
  BY DEF Count, Slots
<1> QED BY <1>1 DEF TypeOK

\* Each action keeps the invariant: RunClassification,
LEMMA ClassificationStep ==
  ASSUME IInv, NEW n \in BatchSizes, RunClassification(n)
  PROVE  IInv'
<1> DEFINE B == Batch(BatchEnd(n))
<1>1. /\ TypeOK /\ CursorIsReset /\ Classification /\ Accumulation /\ Crossing /\ Allocation
      /\ Residual /\ Requirements /\ Execution /\ Shares
  BY DEF IInv
<1>2. /\ book' = book /\ price' = price /\ output' = output
      /\ Advance(BatchEnd(n), "Classified")
  BY DEF RunClassification
<1>3. Rank(stage) = 0 /\ Rank("Classified") = 1 /\ stage # "Reconciled" /\ stage \in Stage
  BY DEF RunClassification, Rank, Stage
<1>4. /\ cursor' \in 0 .. Count - 1 /\ stage' \in Stage
      /\ stage' = stage \/ (stage' = "Classified" /\ cursor' = 0)
      /\ Done(0)' = Done(0) \cup B /\ Done(0) \cap B = {}
      /\ B \subseteq Slots
      /\ \A j \in 0 .. 8 : j # 0 => Done(j)' = Done(j)
      /\ \A j \in 1 .. 8 : Done(j) = {}
  BY <1>1, <1>2, <1>3, BatchStep DEF Stage
<1>5. Rank(stage') \in 0 .. 1
  BY <1>3, <1>4
<1>6. slot' \in [Slots -> [Field -> Nat]] /\ total' \in [Total -> Nat]
  BY <1>1, <1>4, ClassificationEffect DEF RunClassification, TypeOK
<1>7. /\ Same(AllocatedField) /\ Same({"residualContribution"}) /\ Same({"requiredVenueTotal"}) /\ Same(SharedField)
      /\ SameTotal(GrossTotal) /\ SameTotal(CrossedTotal) /\ SameTotal(ResidualTotal) /\ SameTotal({"aggregateMinimum"})
  <2>1. Same(Field \ ClassifiedField)
    BY <1>1, <1>4, ClassificationEffect
  <2>2. total' = total
    BY DEF RunClassification
  <2>3. Same(AllocatedField)
    BY <2>1 DEF Same, Field, ClassifiedField, AllocatedField, SharedField
  <2>4. Same({"residualContribution"})
    BY <2>1 DEF Same, Field, ClassifiedField, AllocatedField, SharedField
  <2>5. Same({"requiredVenueTotal"})
    BY <2>1 DEF Same, Field, ClassifiedField, AllocatedField, SharedField
  <2>6. Same(SharedField)
    BY <2>1 DEF Same, Field, ClassifiedField, AllocatedField, SharedField
  <2>7. SameTotal(GrossTotal)
    BY <2>2 DEF SameTotal, Total, GrossTotal, CrossedTotal, ResidualTotal
  <2>8. SameTotal(CrossedTotal)
    BY <2>2 DEF SameTotal, Total, GrossTotal, CrossedTotal, ResidualTotal
  <2>9. SameTotal(ResidualTotal)
    BY <2>2 DEF SameTotal, Total, GrossTotal, CrossedTotal, ResidualTotal
  <2>10. SameTotal({"aggregateMinimum"})
    BY <2>2 DEF SameTotal, Total, GrossTotal, CrossedTotal, ResidualTotal
  <2> QED BY <2>3, <2>4, <2>5, <2>6, <2>7, <2>8, <2>9, <2>10
<1>8. TypeOK'
  BY <1>1, <1>2, <1>4, <1>6, BatchKeepsTyping
<1>9. CursorIsReset'
  BY <1>1, <1>4 DEF CursorIsReset, RunClassification
<1>10. Accumulation'
  BY <1>1, <1>2, <1>4, <1>7, AccumulationKept
<1>11. Crossing'
  BY <1>1, <1>2, <1>3, <1>5, <1>7, CrossingKept
<1>12. Allocation'
  BY <1>1, <1>2, <1>4, <1>7, AllocationKept
<1>13. Residual'
  BY <1>1, <1>2, <1>4, <1>7, ResidualKept
<1>14. Requirements'
  BY <1>1, <1>2, <1>4, <1>7, RequirementsKept
<1>15. Execution'
  BY <1>1, <1>2, <1>3, <1>5, <1>7, ExecutionKept
<1>16. Shares'
  BY <1>1, <1>2, <1>4, <1>7, SharesKept
<1>17. Classification'
  <2>1. Slots' = Slots
    BY <1>2 DEF Slots, Count
  <2>2. \A i \in Slots : i \notin B => slot'[i] = slot[i]
    BY <1>1, ClassificationEffect
  <2>3. \A i \in B : /\ slot'[i].buyQuote = BuyQuote(i) /\ slot'[i].sellBase = SellBase(i)
                     /\ slot'[i].supplyQuote = SupplyQuote(i)
                     /\ slot'[i].buyDemandBase = MulDiv(BuyQuote(i), Scale, price)
    BY <1>1, <1>4, ClassificationEffect
  <2> SUFFICES ASSUME NEW i \in Slots
               PROVE  LET done == i \in Done(0)' IN
                 /\ slot'[i].buyQuote = IF done THEN BuyQuote(i) ELSE 0
                 /\ slot'[i].sellBase = IF done THEN SellBase(i) ELSE 0
                 /\ slot'[i].supplyQuote = IF done THEN SupplyQuote(i) ELSE 0
                 /\ slot'[i].buyDemandBase = IF done THEN MulDiv(BuyQuote(i), Scale, price) ELSE 0
    BY <1>2, <2>1 DEF Classification, BuyQuote, SellBase, SupplyQuote, OrderAmount
  <2>4. CASE i \in B
    BY <1>4, <2>3, <2>4
  <2>5. CASE i \notin B
    BY <1>1, <1>4, <2>2, <2>5 DEF Classification
  <2> QED BY <2>4, <2>5
<1> QED BY <1>8, <1>9, <1>10, <1>11, <1>12, <1>13, <1>14, <1>15, <1>16, <1>17 DEF IInv

\* RunAccumulation,
LEMMA AccumulationStep ==
  ASSUME IInv, NEW n \in BatchSizes, RunAccumulation(n)
  PROVE  IInv'
<1> DEFINE B == Batch(BatchEnd(n))
<1>1. /\ TypeOK /\ CursorIsReset /\ Classification /\ Accumulation /\ Crossing /\ Allocation
      /\ Residual /\ Requirements /\ Execution /\ Shares
  BY DEF IInv
<1>2. /\ book' = book /\ price' = price /\ output' = output
      /\ Advance(BatchEnd(n), "Accumulated")
  BY DEF RunAccumulation
<1>3. Rank(stage) = 1 /\ Rank("Accumulated") = 2 /\ stage # "Reconciled" /\ stage \in Stage
  BY DEF RunAccumulation, Rank, Stage
<1>4. /\ cursor' \in 0 .. Count - 1 /\ stage' \in Stage
      /\ stage' = stage \/ (stage' = "Accumulated" /\ cursor' = 0)
      /\ Done(1)' = Done(1) \cup B /\ Done(1) \cap B = {}
      /\ B \subseteq Slots
      /\ \A j \in 0 .. 8 : j # 1 => Done(j)' = Done(j)
      /\ \A j \in 2 .. 8 : Done(j) = {}
  BY <1>1, <1>2, <1>3, BatchStep DEF Stage
<1>5. Rank(stage') \in 1 .. 2
  BY <1>3, <1>4
<1>6. slot' \in [Slots -> [Field -> Nat]] /\ total' \in [Total -> Nat]
  BY <1>1, <1>4, AccumulationEffect DEF RunAccumulation, TypeOK
<1>7. /\ Same(ClassifiedField) /\ Same(AllocatedField) /\ Same({"residualContribution"}) /\ Same({"requiredVenueTotal"})
      /\ Same(SharedField) /\ SameTotal(CrossedTotal) /\ SameTotal(ResidualTotal) /\ SameTotal({"aggregateMinimum"})
  <2>1. slot' = slot
    BY DEF RunAccumulation
  <2>2. SameTotal(Total \ GrossTotal)
    BY <1>1, <1>4, AccumulationEffect
  <2>3. Same(ClassifiedField)
    BY <2>1 DEF Same, Field, ClassifiedField, AllocatedField, SharedField
  <2>4. Same(AllocatedField)
    BY <2>1 DEF Same, Field, ClassifiedField, AllocatedField, SharedField
  <2>5. Same({"residualContribution"})
    BY <2>1 DEF Same, Field, ClassifiedField, AllocatedField, SharedField
  <2>6. Same({"requiredVenueTotal"})
    BY <2>1 DEF Same, Field, ClassifiedField, AllocatedField, SharedField
  <2>7. Same(SharedField)
    BY <2>1 DEF Same, Field, ClassifiedField, AllocatedField, SharedField
  <2>8. SameTotal(CrossedTotal)
    BY <2>2 DEF SameTotal, Total, GrossTotal, CrossedTotal, ResidualTotal
  <2>9. SameTotal(ResidualTotal)
    BY <2>2 DEF SameTotal, Total, GrossTotal, CrossedTotal, ResidualTotal
  <2>10. SameTotal({"aggregateMinimum"})
    BY <2>2 DEF SameTotal, Total, GrossTotal, CrossedTotal, ResidualTotal
  <2> QED BY <2>3, <2>4, <2>5, <2>6, <2>7, <2>8, <2>9, <2>10
<1>8. TypeOK'
  BY <1>1, <1>2, <1>4, <1>6, BatchKeepsTyping
<1>9. CursorIsReset'
  BY <1>1, <1>4 DEF CursorIsReset, RunAccumulation
<1>10. Classification'
  BY <1>1, <1>2, <1>4, <1>7, ClassificationKept
<1>11. Crossing'
  BY <1>1, <1>2, <1>3, <1>5, <1>7, CrossingKept
<1>12. Allocation'
  BY <1>1, <1>2, <1>4, <1>7, AllocationKept
<1>13. Residual'
  BY <1>1, <1>2, <1>4, <1>7, ResidualKept
<1>14. Requirements'
  BY <1>1, <1>2, <1>4, <1>7, RequirementsKept
<1>15. Execution'
  BY <1>1, <1>2, <1>3, <1>5, <1>7, ExecutionKept
<1>16. Shares'
  BY <1>1, <1>2, <1>4, <1>7, SharesKept
<1>17. Accumulation'
  <2>1. /\ Column("buyDemandBase")' = Column("buyDemandBase")
        /\ Column("sellBase")' = Column("sellBase")
        /\ Column("supplyQuote")' = Column("supplyQuote")
        /\ Bits(Column("supplyQuote"))' = Bits(Column("supplyQuote"))
        /\ Bits(Contributions)' = Bits(Contributions)
    BY <1>2 DEF RunAccumulation, Column, Bits, Contributions, Contribution, Slots, Count
  <2>2. /\ IsFiniteSet(B) /\ IsFiniteSet(Done(1)) /\ Done(1) \subseteq Slots
    BY <1>1, <1>4, Typed, FS_Subset
  <2>3. \A i \in Slots : /\ Column("buyDemandBase")[i] \in Nat /\ Column("sellBase")[i] \in Nat
                         /\ Column("supplyQuote")[i] \in Nat
                         /\ Bits(Column("supplyQuote"))[i] \in Nat
                         /\ Bits(Contributions)[i] \in Nat
    BY <1>1, ColumnTyped DEF Field, Bits
  <2>4. ASSUME NEW h, \A i \in Slots : h[i] \in Nat
        PROVE  SumFunctionOnSet(h, Done(1)') = SumFunctionOnSet(h, Done(1)) + SumFunctionOnSet(h, B)
    BY <1>4, <2>2, <2>4, SumUnion
  <2> DEFINE T(h) == SumFunctionOnSet(h, Done(1)) + SumFunctionOnSet(h, B)
  <2>5. /\ total'.grossBuyDemandBase = T(Column("buyDemandBase"))
        /\ total'.grossSellSupplyBase = T(Column("sellBase"))
        /\ total'.grossSupplyQuote = T(Column("supplyQuote"))
        /\ total'.effectiveCount = T(Bits(Contributions))
        /\ total'.supplyContributorCount = T(Bits(Column("supplyQuote")))
    BY <1>1, <1>4, AccumulationEffect DEF Accumulation
  <2>6. /\ SumFunctionOnSet(Column("buyDemandBase"), Done(1)') = T(Column("buyDemandBase"))
        /\ SumFunctionOnSet(Column("sellBase"), Done(1)') = T(Column("sellBase"))
        /\ SumFunctionOnSet(Column("supplyQuote"), Done(1)') = T(Column("supplyQuote"))
        /\ SumFunctionOnSet(Bits(Contributions), Done(1)') = T(Bits(Contributions))
        /\ SumFunctionOnSet(Bits(Column("supplyQuote")), Done(1)') = T(Bits(Column("supplyQuote")))
    BY <2>3, <2>4
  <2> HIDE DEF T
  <2> QED BY <2>1, <2>5, <2>6 DEF Accumulation
<1> QED BY <1>8, <1>9, <1>10, <1>11, <1>12, <1>13, <1>14, <1>15, <1>16, <1>17 DEF IInv

\* RunAllocation,
LEMMA AllocationStep ==
  ASSUME IInv, NEW n \in BatchSizes, RunAllocation(n)
  PROVE  IInv'
<1> DEFINE B == Batch(BatchEnd(n))
<1>1. /\ TypeOK /\ CursorIsReset /\ Classification /\ Accumulation /\ Crossing /\ Allocation
      /\ Residual /\ Requirements /\ Execution /\ Shares
  BY DEF IInv
<1>2. /\ book' = book /\ price' = price /\ output' = output
      /\ Advance(BatchEnd(n), "Allocated")
  BY DEF RunAllocation
<1>3. Rank(stage) = 3 /\ Rank("Allocated") = 4 /\ stage # "Reconciled" /\ stage \in Stage
  BY DEF RunAllocation, Rank, Stage
<1>4. /\ cursor' \in 0 .. Count - 1 /\ stage' \in Stage
      /\ stage' = stage \/ (stage' = "Allocated" /\ cursor' = 0)
      /\ Done(3)' = Done(3) \cup B /\ Done(3) \cap B = {}
      /\ B \subseteq Slots
      /\ \A j \in 0 .. 8 : j # 3 => Done(j)' = Done(j)
      /\ \A j \in 4 .. 8 : Done(j) = {}
  BY <1>1, <1>2, <1>3, BatchStep DEF Stage
<1>5. Rank(stage') \in 3 .. 4
  BY <1>3, <1>4
<1>6. slot' \in [Slots -> [Field -> Nat]] /\ total' \in [Total -> Nat]
  BY <1>1, <1>4, AllocationEffect DEF RunAllocation, TypeOK
<1>7. /\ Same(ClassifiedField) /\ Same({"residualContribution"}) /\ Same({"requiredVenueTotal"}) /\ Same(SharedField)
      /\ SameTotal(GrossTotal) /\ SameTotal(CrossedTotal) /\ SameTotal(ResidualTotal) /\ SameTotal({"aggregateMinimum"})
  <2>1. Same(Field \ AllocatedField)
    BY <1>1, <1>4, AllocationEffect
  <2>2. total' = total
    BY DEF RunAllocation
  <2>3. Same(ClassifiedField)
    BY <2>1 DEF Same, Field, ClassifiedField, AllocatedField, SharedField
  <2>4. Same({"residualContribution"})
    BY <2>1 DEF Same, Field, ClassifiedField, AllocatedField, SharedField
  <2>5. Same({"requiredVenueTotal"})
    BY <2>1 DEF Same, Field, ClassifiedField, AllocatedField, SharedField
  <2>6. Same(SharedField)
    BY <2>1 DEF Same, Field, ClassifiedField, AllocatedField, SharedField
  <2>7. SameTotal(GrossTotal)
    BY <2>2 DEF SameTotal, Total, GrossTotal, CrossedTotal, ResidualTotal
  <2>8. SameTotal(CrossedTotal)
    BY <2>2 DEF SameTotal, Total, GrossTotal, CrossedTotal, ResidualTotal
  <2>9. SameTotal(ResidualTotal)
    BY <2>2 DEF SameTotal, Total, GrossTotal, CrossedTotal, ResidualTotal
  <2>10. SameTotal({"aggregateMinimum"})
    BY <2>2 DEF SameTotal, Total, GrossTotal, CrossedTotal, ResidualTotal
  <2> QED BY <2>3, <2>4, <2>5, <2>6, <2>7, <2>8, <2>9, <2>10
<1>8. TypeOK'
  BY <1>1, <1>2, <1>4, <1>6, BatchKeepsTyping
<1>9. CursorIsReset'
  BY <1>1, <1>4 DEF CursorIsReset, RunAllocation
<1>10. Classification'
  BY <1>1, <1>2, <1>4, <1>7, ClassificationKept
<1>11. Accumulation'
  BY <1>1, <1>2, <1>4, <1>7, AccumulationKept
<1>12. Crossing'
  BY <1>1, <1>2, <1>3, <1>5, <1>7, CrossingKept
<1>13. Residual'
  BY <1>1, <1>2, <1>4, <1>7, ResidualKept
<1>14. Requirements'
  BY <1>1, <1>2, <1>4, <1>7, RequirementsKept
<1>15. Execution'
  BY <1>1, <1>2, <1>3, <1>5, <1>7, ExecutionKept
<1>16. Shares'
  BY <1>1, <1>2, <1>4, <1>7, SharesKept
<1>17. Allocation'
  <2>1. Slots' = Slots /\ total' = total
    BY <1>2 DEF Slots, Count, RunAllocation
  <2>2. \A i \in Slots : /\ slot'[i].buyDemandBase = slot[i].buyDemandBase
                         /\ slot'[i].sellBase = slot[i].sellBase
    BY <1>7 DEF Same, ClassifiedField
  <2> DEFINE baseOut(i) == MulDiv(total.crossedBase, slot[i].buyDemandBase, total.grossBuyDemandBase)
             quoteUsed(i) == MulDivCeil(baseOut(i), price, Scale)
             baseUsed(i) == MulDiv(total.crossedBase, slot[i].sellBase, total.grossSellSupplyBase)
             quoteOut(i) == MulDiv(total.crossedQuote, slot[i].sellBase, total.grossSellSupplyBase)
  <2> SUFFICES ASSUME NEW i \in Slots
               PROVE  LET done == i \in Done(3)' IN
                 /\ slot'[i].crossBaseOut = IF done THEN baseOut(i) ELSE 0
                 /\ slot'[i].crossQuoteUsed = IF done THEN quoteUsed(i) ELSE 0
                 /\ slot'[i].crossBaseUsed = IF done THEN baseUsed(i) ELSE 0
                 /\ slot'[i].crossQuoteOut = IF done THEN quoteOut(i) ELSE 0
    BY <1>2, <2>1, <2>2 DEF Allocation
  <2>3. CASE i \in B
    <3>1. /\ slot'[i].crossBaseOut = baseOut(i) /\ slot'[i].crossQuoteUsed = quoteUsed(i)
          /\ slot'[i].crossBaseUsed = baseUsed(i) /\ slot'[i].crossQuoteOut = quoteOut(i)
      BY <1>1, <2>3, AllocationEffect
    <3> QED BY <1>4, <2>3, <3>1
  <2>4. CASE i \notin B
    <3>1. slot'[i] = slot[i]
      BY <1>1, <2>4, AllocationEffect
    <3>2. LET done == i \in Done(3) IN
                 /\ slot[i].crossBaseOut = IF done THEN baseOut(i) ELSE 0
                 /\ slot[i].crossQuoteUsed = IF done THEN quoteUsed(i) ELSE 0
                 /\ slot[i].crossBaseUsed = IF done THEN baseUsed(i) ELSE 0
                 /\ slot[i].crossQuoteOut = IF done THEN quoteOut(i) ELSE 0
      BY <1>1 DEF Allocation
    <3> QED BY <1>4, <2>4, <3>1, <3>2
  <2> QED BY <2>3, <2>4
<1> QED BY <1>8, <1>9, <1>10, <1>11, <1>12, <1>13, <1>14, <1>15, <1>16, <1>17 DEF IInv

\* RunResidual,
LEMMA ResidualStep ==
  ASSUME IInv, NEW n \in BatchSizes, RunResidual(n)
  PROVE  IInv'
<1> DEFINE B == Batch(BatchEnd(n))
<1>1. /\ TypeOK /\ CursorIsReset /\ Classification /\ Accumulation /\ Crossing /\ Allocation
      /\ Residual /\ Requirements /\ Execution /\ Shares
  BY DEF IInv
<1>2. /\ book' = book /\ price' = price /\ output' = output
      /\ Advance(BatchEnd(n), "ResidualComputed")
  BY DEF RunResidual
<1>3. Rank(stage) = 4 /\ Rank("ResidualComputed") = 5 /\ stage # "Reconciled" /\ stage \in Stage
  BY DEF RunResidual, Rank, Stage
<1>4. /\ cursor' \in 0 .. Count - 1 /\ stage' \in Stage
      /\ stage' = stage \/ (stage' = "ResidualComputed" /\ cursor' = 0)
      /\ Done(4)' = Done(4) \cup B /\ Done(4) \cap B = {}
      /\ B \subseteq Slots
      /\ \A j \in 0 .. 8 : j # 4 => Done(j)' = Done(j)
      /\ \A j \in 5 .. 8 : Done(j) = {}
  BY <1>1, <1>2, <1>3, BatchStep DEF Stage
<1>5. Rank(stage') \in 4 .. 5
  BY <1>3, <1>4
<1>6. slot' \in [Slots -> [Field -> Nat]] /\ total' \in [Total -> Nat]
  BY <1>1, <1>4, ResidualEffect DEF RunResidual, TypeOK
<1>7. /\ Same(ClassifiedField) /\ Same(AllocatedField) /\ Same({"requiredVenueTotal"}) /\ Same(SharedField)
      /\ SameTotal(GrossTotal) /\ SameTotal(CrossedTotal) /\ SameTotal({"aggregateMinimum"})
  <2>1. Same(Field \ {"residualContribution"})
    BY <1>1, <1>4, ResidualEffect
  <2>2. SameTotal(Total \ ResidualTotal)
    BY <1>1, <1>4, ResidualEffect
  <2>3. Same(ClassifiedField)
    BY <2>1 DEF Same, Field, ClassifiedField, AllocatedField, SharedField
  <2>4. Same(AllocatedField)
    BY <2>1 DEF Same, Field, ClassifiedField, AllocatedField, SharedField
  <2>5. Same({"requiredVenueTotal"})
    BY <2>1 DEF Same, Field, ClassifiedField, AllocatedField, SharedField
  <2>6. Same(SharedField)
    BY <2>1 DEF Same, Field, ClassifiedField, AllocatedField, SharedField
  <2>7. SameTotal(GrossTotal)
    BY <2>2 DEF SameTotal, Total, GrossTotal, CrossedTotal, ResidualTotal
  <2>8. SameTotal(CrossedTotal)
    BY <2>2 DEF SameTotal, Total, GrossTotal, CrossedTotal, ResidualTotal
  <2>9. SameTotal({"aggregateMinimum"})
    BY <2>2 DEF SameTotal, Total, GrossTotal, CrossedTotal, ResidualTotal
  <2> QED BY <2>3, <2>4, <2>5, <2>6, <2>7, <2>8, <2>9
<1>8. TypeOK'
  BY <1>1, <1>2, <1>4, <1>6, BatchKeepsTyping
<1>9. CursorIsReset'
  BY <1>1, <1>4 DEF CursorIsReset, RunResidual
<1>10. Classification'
  BY <1>1, <1>2, <1>4, <1>7, ClassificationKept
<1>11. Accumulation'
  BY <1>1, <1>2, <1>4, <1>7, AccumulationKept
<1>12. Crossing'
  BY <1>1, <1>2, <1>3, <1>5, <1>7, CrossingKept
<1>13. Allocation'
  BY <1>1, <1>2, <1>4, <1>7, AllocationKept
<1>14. Requirements'
  BY <1>1, <1>2, <1>4, <1>7, RequirementsKept
<1>15. Execution'
  BY <1>1, <1>2, <1>3, <1>5, <1>7, ExecutionKept
<1>16. Shares'
  BY <1>1, <1>2, <1>4, <1>7, SharesKept
<1>17. Residual'
  <2>1. Slots' = Slots
    BY <1>2 DEF Slots, Count
  <2>2. \A i \in Slots : Leftover(i)' = Leftover(i)
    <3>1. Direction' = Direction
      BY <1>7, DirectionKept
    <3>2. \A i \in Slots :
            /\ slot'[i].buyQuote = slot[i].buyQuote /\ slot'[i].sellBase = slot[i].sellBase
            /\ slot'[i].crossQuoteUsed = slot[i].crossQuoteUsed
            /\ slot'[i].crossBaseUsed = slot[i].crossBaseUsed
      BY <1>7 DEF Same, ClassifiedField, AllocatedField
    <3> QED BY <3>1, <3>2 DEF Leftover
  <2>3. \A i \in Slots : slot'[i].residualContribution =
              IF i \in B THEN Leftover(i) ELSE slot[i].residualContribution
    BY <1>1, <1>4, ResidualEffect
  <2>4. \A i \in Slots : slot'[i].residualContribution = IF i \in Done(4)' THEN Leftover(i)' ELSE 0
    BY <1>1, <1>4, <2>2, <2>3 DEF Residual
  <2> DEFINE h == Column("residualContribution")
             g == Bits(h)
  <2>5. /\ IsFiniteSet(B) /\ IsFiniteSet(Done(4)) /\ Done(4) \subseteq Slots
    BY <1>1, <1>4, Typed, FS_Subset
  <2>6. \A i \in Slots : (h')[i] \in Nat /\ (g')[i] \in Nat
    BY <1>6, <2>1 DEF Column, Bits, Field
  <2>7. \A i \in Done(4) : (h')[i] = h[i] /\ (g')[i] = g[i]
    <3> TAKE i \in Done(4)
    <3>1. i \in Slots /\ i \notin B
      BY <1>4, <2>5
    <3>2. slot'[i].residualContribution = slot[i].residualContribution
      BY <2>3, <3>1
    <3> QED BY <2>1, <3>1, <3>2 DEF Column, Bits
  <2>8. /\ SumFunctionOnSet(h', Done(4)) = SumFunctionOnSet(h, Done(4))
        /\ SumFunctionOnSet(g', Done(4)) = SumFunctionOnSet(g, Done(4))
    BY <2>5, <2>7, SumCongruence
  <2>9. /\ total'.aggregateInput = total.aggregateInput + SumFunctionOnSet(h', B)
        /\ total'.contributorCount = total.contributorCount + SumFunctionOnSet(g', B)
    BY <1>1, <1>4, ResidualEffect
  <2>10. /\ total.aggregateInput = SumFunctionOnSet(h, Done(4))
         /\ total.contributorCount = SumFunctionOnSet(g, Done(4))
    BY <1>1 DEF Residual
  <2>11. Residual' <=>
           /\ \A i \in Slots' : slot'[i].residualContribution = IF i \in Done(4)' THEN Leftover(i)' ELSE 0
           /\ total'.aggregateInput = SumFunctionOnSet(h', Done(4)')
           /\ total'.contributorCount = SumFunctionOnSet(g', Done(4)')
    BY DEF Residual
  <2> HIDE DEF h, g
  <2>12. /\ SumFunctionOnSet(h', Done(4)') = SumFunctionOnSet(h', Done(4)) + SumFunctionOnSet(h', B)
         /\ SumFunctionOnSet(g', Done(4)') = SumFunctionOnSet(g', Done(4)) + SumFunctionOnSet(g', B)
    BY <1>4, <2>5, <2>6, SumUnion
  <2> QED BY <2>1, <2>4, <2>8, <2>9, <2>10, <2>11, <2>12
<1> QED BY <1>8, <1>9, <1>10, <1>11, <1>12, <1>13, <1>14, <1>15, <1>16, <1>17 DEF IInv

\* FinaliseResidual,
LEMMA FinaliseStep ==
  ASSUME IInv, NEW n \in BatchSizes, FinaliseResidual(n)
  PROVE  IInv'
<1> DEFINE B == Batch(BatchEnd(n))
<1>1. /\ TypeOK /\ CursorIsReset /\ Classification /\ Accumulation /\ Crossing /\ Allocation
      /\ Residual /\ Requirements /\ Execution /\ Shares
  BY DEF IInv
<1>2. /\ book' = book /\ price' = price /\ output' = output
      /\ Advance(BatchEnd(n), "Published")
  BY DEF FinaliseResidual
<1>3. Rank(stage) = 5 /\ Rank("Published") = 6 /\ stage # "Reconciled" /\ stage \in Stage
  BY DEF FinaliseResidual, Rank, Stage
<1>4. /\ cursor' \in 0 .. Count - 1 /\ stage' \in Stage
      /\ stage' = stage \/ (stage' = "Published" /\ cursor' = 0)
      /\ Done(5)' = Done(5) \cup B /\ Done(5) \cap B = {}
      /\ B \subseteq Slots
      /\ \A j \in 0 .. 8 : j # 5 => Done(j)' = Done(j)
      /\ \A j \in 6 .. 8 : Done(j) = {}
  BY <1>1, <1>2, <1>3, BatchStep DEF Stage
<1>5. Rank(stage') \in 5 .. 6
  BY <1>3, <1>4
<1>6. slot' \in [Slots -> [Field -> Nat]] /\ total' \in [Total -> Nat]
  BY <1>1, <1>4, FinaliseEffect DEF FinaliseResidual, TypeOK
<1>7. /\ Same(ClassifiedField) /\ Same(AllocatedField) /\ Same({"residualContribution"}) /\ Same(SharedField)
      /\ SameTotal(GrossTotal) /\ SameTotal(CrossedTotal) /\ SameTotal(ResidualTotal)
  <2>1. Same(Field \ {"requiredVenueTotal"})
    BY <1>1, <1>4, FinaliseEffect
  <2>2. SameTotal(Total \ {"aggregateMinimum"})
    BY <1>1, <1>4, FinaliseEffect
  <2>3. Same(ClassifiedField)
    BY <2>1 DEF Same, Field, ClassifiedField, AllocatedField, SharedField
  <2>4. Same(AllocatedField)
    BY <2>1 DEF Same, Field, ClassifiedField, AllocatedField, SharedField
  <2>5. Same({"residualContribution"})
    BY <2>1 DEF Same, Field, ClassifiedField, AllocatedField, SharedField
  <2>6. Same(SharedField)
    BY <2>1 DEF Same, Field, ClassifiedField, AllocatedField, SharedField
  <2>7. SameTotal(GrossTotal)
    BY <2>2 DEF SameTotal, Total, GrossTotal, CrossedTotal, ResidualTotal
  <2>8. SameTotal(CrossedTotal)
    BY <2>2 DEF SameTotal, Total, GrossTotal, CrossedTotal, ResidualTotal
  <2>9. SameTotal(ResidualTotal)
    BY <2>2 DEF SameTotal, Total, GrossTotal, CrossedTotal, ResidualTotal
  <2> QED BY <2>3, <2>4, <2>5, <2>6, <2>7, <2>8, <2>9
<1>8. TypeOK'
  BY <1>1, <1>2, <1>4, <1>6, BatchKeepsTyping
<1>9. CursorIsReset'
  BY <1>1, <1>4 DEF CursorIsReset, FinaliseResidual
<1>10. Classification'
  BY <1>1, <1>2, <1>4, <1>7, ClassificationKept
<1>11. Accumulation'
  BY <1>1, <1>2, <1>4, <1>7, AccumulationKept
<1>12. Crossing'
  BY <1>1, <1>2, <1>3, <1>5, <1>7, CrossingKept
<1>13. Allocation'
  BY <1>1, <1>2, <1>4, <1>7, AllocationKept
<1>14. Residual'
  BY <1>1, <1>2, <1>4, <1>7, ResidualKept
<1>15. Execution'
  BY <1>1, <1>2, <1>3, <1>5, <1>7, ExecutionKept
<1>16. Shares'
  BY <1>1, <1>2, <1>4, <1>7, SharesKept
<1>17. Requirements'
  <2>1. Slots' = Slots /\ Done(5) \subseteq Slots
    BY <1>1, <1>2, Typed DEF Slots, Count
  <2>2. \A i \in Slots : Requirement(i)' = Requirement(i)
    <3>1. Direction' = Direction
      BY <1>7, DirectionKept
    <3>2. /\ \A i \in Slots : slot'[i].residualContribution = slot[i].residualContribution
          /\ total'.aggregateInput = total.aggregateInput
      BY <1>7 DEF Same, SameTotal, ResidualTotal
    <3> QED BY <1>2, <3>1, <3>2 DEF Requirement
  <2> DEFINE m == total.aggregateMinimum
  <2>3. /\ \A i \in Slots : slot'[i].requiredVenueTotal =
              IF i \in B THEN Requirement(i) ELSE slot[i].requiredVenueTotal
        /\ total'.aggregateMinimum \in {m} \cup {Requirement(i) : i \in B}
        /\ m <= total'.aggregateMinimum
        /\ \A i \in B : Requirement(i) <= total'.aggregateMinimum
    BY <1>1, <1>4, FinaliseEffect
  <2>4. \A i \in Slots : slot'[i].requiredVenueTotal = IF i \in Done(5)' THEN Requirement(i)' ELSE 0
    BY <1>1, <1>4, <2>2, <2>3 DEF Requirements
  <2>5. m \in {0} \cup {Requirement(i) : i \in Done(5)} /\ \A i \in Done(5) : Requirement(i) <= m
    BY <1>1 DEF Requirements
  <2>6. \A i \in Slots : Requirement(i) \in Nat
    BY <1>1, RequirementTyped
  <2>7. m \in Nat /\ total'.aggregateMinimum \in Nat
    BY <1>1, <1>6, Typed DEF Total
  <2> HIDE DEF m
  <2>8. total'.aggregateMinimum \in {0} \cup {Requirement(i) : i \in Done(5)'}
    BY <1>4, <2>3, <2>5
  <2>9. \A i \in Done(5)' : Requirement(i) <= total'.aggregateMinimum
    BY <1>4, <2>1, <2>3, <2>5, <2>6, <2>7
  <2>10. /\ total'.aggregateMinimum \in {0} \cup {Requirement(i)' : i \in Done(5)'}
         /\ \A i \in Done(5)' : Requirement(i)' <= total'.aggregateMinimum
    <3>1. Done(5)' \subseteq Slots
      BY <1>4, <2>1
    <3> QED BY <2>2, <2>8, <2>9, <3>1
  <2> QED BY <2>1, <2>4, <2>10 DEF Requirements
<1> QED BY <1>8, <1>9, <1>10, <1>11, <1>12, <1>13, <1>14, <1>15, <1>16, <1>17 DEF IInv

\* Reconcile,
LEMMA ReconcileStep ==
  ASSUME IInv, NEW n \in BatchSizes, Reconcile(n)
  PROVE  IInv'
<1> DEFINE B == Batch(BatchEnd(n))
<1>1. /\ TypeOK /\ CursorIsReset /\ Classification /\ Accumulation /\ Crossing /\ Allocation
      /\ Residual /\ Requirements /\ Execution /\ Shares
  BY DEF IInv
<1>2. /\ book' = book /\ price' = price /\ output' = output
      /\ Advance(BatchEnd(n), "Reconciled")
  BY DEF Reconcile
<1>3. Rank(stage) = 7 /\ Rank("Reconciled") = 8 /\ stage # "Reconciled" /\ stage \in Stage
  BY DEF Reconcile, Rank, Stage
<1>4. /\ cursor' \in 0 .. Count - 1 /\ stage' \in Stage
      /\ stage' = stage \/ (stage' = "Reconciled" /\ cursor' = 0)
      /\ Done(7)' = Done(7) \cup B /\ Done(7) \cap B = {}
      /\ B \subseteq Slots
      /\ \A j \in 0 .. 8 : j # 7 => Done(j)' = Done(j)
      /\ \A j \in 8 .. 8 : Done(j) = {}
  BY <1>1, <1>2, <1>3, BatchStep DEF Stage
<1>5. Rank(stage') \in 7 .. 8
  BY <1>3, <1>4
<1>6. slot' \in [Slots -> [Field -> Nat]] /\ total' \in [Total -> Nat]
  BY <1>1, <1>4, ReconcileEffect DEF Reconcile, TypeOK
<1>7. /\ Same(ClassifiedField) /\ Same(AllocatedField) /\ Same({"residualContribution"}) /\ Same({"requiredVenueTotal"})
      /\ SameTotal(GrossTotal) /\ SameTotal(CrossedTotal) /\ SameTotal(ResidualTotal) /\ SameTotal({"aggregateMinimum"})
  <2>1. Same(Field \ SharedField)
    BY <1>1, <1>4, ReconcileEffect
  <2>2. total' = total
    BY DEF Reconcile
  <2>3. Same(ClassifiedField)
    BY <2>1 DEF Same, Field, ClassifiedField, AllocatedField, SharedField
  <2>4. Same(AllocatedField)
    BY <2>1 DEF Same, Field, ClassifiedField, AllocatedField, SharedField
  <2>5. Same({"residualContribution"})
    BY <2>1 DEF Same, Field, ClassifiedField, AllocatedField, SharedField
  <2>6. Same({"requiredVenueTotal"})
    BY <2>1 DEF Same, Field, ClassifiedField, AllocatedField, SharedField
  <2>7. SameTotal(GrossTotal)
    BY <2>2 DEF SameTotal, Total, GrossTotal, CrossedTotal, ResidualTotal
  <2>8. SameTotal(CrossedTotal)
    BY <2>2 DEF SameTotal, Total, GrossTotal, CrossedTotal, ResidualTotal
  <2>9. SameTotal(ResidualTotal)
    BY <2>2 DEF SameTotal, Total, GrossTotal, CrossedTotal, ResidualTotal
  <2>10. SameTotal({"aggregateMinimum"})
    BY <2>2 DEF SameTotal, Total, GrossTotal, CrossedTotal, ResidualTotal
  <2> QED BY <2>3, <2>4, <2>5, <2>6, <2>7, <2>8, <2>9, <2>10
<1>8. TypeOK'
  BY <1>1, <1>2, <1>4, <1>6, BatchKeepsTyping
<1>9. CursorIsReset'
  BY <1>1, <1>4 DEF CursorIsReset, Reconcile
<1>10. Classification'
  BY <1>1, <1>2, <1>4, <1>7, ClassificationKept
<1>11. Accumulation'
  BY <1>1, <1>2, <1>4, <1>7, AccumulationKept
<1>12. Crossing'
  BY <1>1, <1>2, <1>3, <1>5, <1>7, CrossingKept
<1>13. Allocation'
  BY <1>1, <1>2, <1>4, <1>7, AllocationKept
<1>14. Residual'
  BY <1>1, <1>2, <1>4, <1>7, ResidualKept
<1>15. Requirements'
  BY <1>1, <1>2, <1>4, <1>7, RequirementsKept
<1>16. Execution'
  BY <1>1, <1>2, <1>3, <1>5, <1>7, ExecutionKept
<1>17. Shares'
  <2>1. Slots' = Slots
    BY <1>2 DEF Slots, Count
  <2>2. \A i \in Slots : Share(i)' = Share(i) /\ slot'[i].crossBaseOut = slot[i].crossBaseOut
    BY <1>2, <1>7 DEF Share, Same, SameTotal, ResidualTotal, AllocatedField
  <2>3. \A i \in Slots :
              /\ slot'[i].externalAllocation = IF i \in B THEN Share(i) ELSE slot[i].externalAllocation
              /\ slot'[i].finalAllocation =
                   IF i \in B THEN slot[i].crossBaseOut + Share(i) ELSE slot[i].finalAllocation
    BY <1>1, ReconcileEffect
  <2>4. \A i \in Slots :
          /\ slot[i].externalAllocation = IF i \in Done(7) THEN Share(i) ELSE 0
          /\ slot[i].finalAllocation = IF i \in Done(7) THEN slot[i].crossBaseOut + Share(i) ELSE 0
    BY <1>1 DEF Shares
  <2>5. \A i \in Slots :
          /\ slot'[i].externalAllocation = IF i \in Done(7)' THEN Share(i)' ELSE 0
          /\ slot'[i].finalAllocation =
               IF i \in Done(7)' THEN slot'[i].crossBaseOut + Share(i)' ELSE 0
    BY <1>4, <2>2, <2>3, <2>4
  <2> QED BY <2>1, <2>5 DEF Shares
<1> QED BY <1>8, <1>9, <1>10, <1>11, <1>12, <1>13, <1>14, <1>15, <1>16, <1>17 DEF IInv

\* RunCrossing,
LEMMA CrossingStep ==
  ASSUME IInv, RunCrossing
  PROVE  IInv'
<1>1. /\ TypeOK /\ CursorIsReset /\ Classification /\ Accumulation /\ Crossing /\ Allocation
      /\ Residual /\ Requirements /\ Execution /\ Shares
  BY DEF IInv
<1>2. /\ book' = book /\ price' = price /\ output' = output /\ slot' = slot
      /\ stage = "Accumulated" /\ stage' = "Crossed" /\ cursor' = 0
  BY DEF RunCrossing
<1>3. Rank(stage) = 2 /\ Rank(stage') = 3 /\ stage \in Stage /\ Slots' = Slots /\ Count' = Count
  BY <1>2 DEF Rank, Stage, Slots, Count
<1>4. /\ \A j \in 0 .. 8 : j # 2 => Done(j)' = Done(j)
      /\ \A j \in 3 .. 8 : Done(j) = {}
  <2>1. ASSUME NEW j \in 0 .. 8, j # 2 PROVE Done(j)' = Done(j)
    BY <1>2, <1>3, <2>1 DEF Done
  <2>2. ASSUME NEW j \in 3 .. 8 PROVE Done(j) = {}
    BY <1>3 DEF Done
  <2> QED BY <2>1, <2>2
<1>5. /\ SameTotal(Total \ CrossedTotal) /\ total' \in [Total -> Nat]
      /\ total'.crossedBase = Lesser(total.grossBuyDemandBase, total.grossSellSupplyBase)
      /\ total'.crossedQuote =
           MulDiv(Lesser(total.grossBuyDemandBase, total.grossSellSupplyBase), price, Scale)
  BY <1>1, CrossingEffect
<1>6. SameTotal(GrossTotal) /\ SameTotal(ResidualTotal) /\ SameTotal({"aggregateMinimum"})
  <2>1. SameTotal(GrossTotal)
    BY <1>5 DEF SameTotal, Total, GrossTotal, CrossedTotal
  <2>2. SameTotal(ResidualTotal)
    BY <1>5 DEF SameTotal, Total, ResidualTotal, CrossedTotal
  <2>3. SameTotal({"aggregateMinimum"})
    BY <1>5 DEF SameTotal, Total, CrossedTotal
  <2> QED BY <2>1, <2>2, <2>3
<1>7. /\ Same(ClassifiedField) /\ Same(AllocatedField) /\ Same({"residualContribution"})
      /\ Same({"requiredVenueTotal"}) /\ Same(SharedField)
  BY <1>2 DEF Same
<1>8. TypeOK'
  <2>1. slot' \in [Slots -> [Field -> Nat]] /\ stage' \in Stage /\ cursor' \in 0 .. Count - 1
    BY <1>1, <1>2, Typed DEF TypeOK, Stage
  <2> QED BY <1>1, <1>2, <1>5, <2>1, BatchKeepsTyping
<1>9. CursorIsReset'
  BY <1>2 DEF CursorIsReset
<1>10. Classification'
  BY <1>1, <1>2, <1>4, <1>7, ClassificationKept
<1>11. Accumulation'
  BY <1>1, <1>2, <1>4, <1>6, <1>7, AccumulationKept
<1>12. Crossing'
  <2>1. /\ total'.grossBuyDemandBase = total.grossBuyDemandBase
        /\ total'.grossSellSupplyBase = total.grossSellSupplyBase
    BY <1>6 DEF SameTotal, GrossTotal
  <2> QED BY <1>2, <1>3, <1>5, <2>1 DEF Crossing, Lesser
<1>13. Allocation'
  BY <1>1, <1>2, <1>4, <1>7, AllocationKept
<1>14. Residual'
  BY <1>1, <1>2, <1>4, <1>6, <1>7, ResidualKept
<1>15. Requirements'
  BY <1>1, <1>2, <1>4, <1>6, <1>7, RequirementsKept
<1>16. Execution'
  BY <1>1, <1>2, <1>3, <1>6, ExecutionKept
<1>17. Shares'
  BY <1>1, <1>2, <1>4, <1>7, SharesKept
<1> QED BY <1>8, <1>9, <1>10, <1>11, <1>12, <1>13, <1>14, <1>15, <1>16, <1>17 DEF IInv

\* and Settle.
LEMMA SettleStep ==
  ASSUME IInv, Settle
  PROVE  IInv'
<1>1. /\ TypeOK /\ CursorIsReset /\ Classification /\ Accumulation /\ Crossing /\ Allocation
      /\ Residual /\ Requirements /\ Execution /\ Shares
  BY DEF IInv
<1>2. /\ book' = book /\ price' = price /\ cursor' = cursor /\ slot' = slot /\ total' = total
      /\ stage = "Published" /\ cursor = 0 /\ stage' \in {"Executed", "NoPublicResidual"}
  BY <1>1 DEF Settle, CursorIsReset
<1>3. /\ Rank(stage) = 6 /\ Rank(stage') = 7 /\ stage \in Stage /\ stage' \in Stage
      /\ Slots' = Slots /\ Count' = Count
  BY <1>2 DEF Rank, Stage, Slots, Count
<1>4. /\ \A j \in 0 .. 8 : j # 6 => Done(j)' = Done(j)
      /\ Done(7) = {}
  <2>1. ASSUME NEW j \in 0 .. 8, j # 6 PROVE Done(j)' = Done(j)
    BY <1>2, <1>3, <2>1 DEF Done
  <2> QED BY <1>3, <2>1 DEF Done
<1>5. /\ Same(ClassifiedField) /\ Same(AllocatedField) /\ Same({"residualContribution"})
      /\ Same({"requiredVenueTotal"}) /\ Same(SharedField)
      /\ SameTotal(GrossTotal) /\ SameTotal(CrossedTotal) /\ SameTotal(ResidualTotal)
      /\ SameTotal({"aggregateMinimum"})
  BY <1>2 DEF Same, SameTotal
<1>6. Floors' = Floors
  BY <1>2 DEF Floors, Direction
<1>7. \/ Floors.residual = "Zero" /\ output' = output
      \/ \E s \in Surplus : output' = total.aggregateMinimum + s
  BY DEF Settle
<1>8. output' \in Nat /\ (Floors.residual = "Zero" \/ output' >= total.aggregateMinimum)
  <2>1. total.aggregateMinimum \in Nat /\ output \in Nat /\ \A s \in Surplus : s \in Nat
    BY <1>1, Typed, ArithmeticAssumption DEF Total, TypeOK
  <2> QED BY <1>7, <2>1
<1>9. TypeOK'
  BY <1>1, <1>2, <1>3, <1>8 DEF TypeOK
<1>10. CursorIsReset'
  BY <1>2 DEF CursorIsReset
<1>11. Classification'
  BY <1>1, <1>2, <1>4, <1>5, ClassificationKept
<1>12. Accumulation'
  BY <1>1, <1>2, <1>4, <1>5, AccumulationKept
<1>13. Crossing'
  BY <1>1, <1>2, <1>3, <1>5, CrossingKept
<1>14. Allocation'
  BY <1>1, <1>2, <1>4, <1>5, AllocationKept
<1>15. Residual'
  BY <1>1, <1>2, <1>4, <1>5, ResidualKept
<1>16. Requirements'
  BY <1>1, <1>2, <1>4, <1>5, RequirementsKept
<1>17. Execution'
  BY <1>2, <1>3, <1>6, <1>8 DEF Execution
<1>18. Shares'
  BY <1>1, <1>2, <1>4, <1>5, SharesKept
<1> QED BY <1>9, <1>10, <1>11, <1>12, <1>13, <1>14, <1>15, <1>16, <1>17, <1>18 DEF IInv

\* The initial states satisfy the invariant.
LEMMA InitInv ==
  ASSUME Init
  PROVE  IInv
<1>1. book \in Seq(Order) /\ book # << >>
  BY ArithmeticAssumption DEF Init
<1>2. Count \in Nat \ {0}
  BY <1>1 DEF Count
<1>3. TypeOK
  BY <1>2 DEF Init, TypeOK, Stage
<1>4. Rank(stage) = 0 /\ stage = "Sealed" /\ cursor = 0 /\ output = 0
  BY DEF Init, Rank
<1>5. \A k \in 0 .. 8 : Done(k) = {}
  <2> SUFFICES ASSUME NEW k \in 0 .. 8 PROVE Done(k) = {}
    OBVIOUS
  <2> QED BY <1>4 DEF Done
<1>6. /\ \A i \in Slots : \A f \in Field : slot[i][f] = 0
      /\ \A t \in Total : total[t] = 0
  BY DEF Init
<1>7. CursorIsReset /\ Classification /\ Allocation /\ Shares
  BY <1>4, <1>5, <1>6 DEF CursorIsReset, Classification, Allocation, Shares, Field
<1>8. Accumulation
  BY <1>5, <1>6, SumEmpty DEF Accumulation, Total
<1>9. Crossing /\ Execution
  BY <1>4, <1>6 DEF Crossing, Execution, Total
<1>10. Residual
  BY <1>5, <1>6, SumEmpty DEF Residual, Total, Field
<1>11. Requirements
  BY <1>5, <1>6 DEF Requirements, Total, Field
<1> QED BY <1>3, <1>7, <1>8, <1>9, <1>10, <1>11 DEF IInv

\* Every step keeps it.
LEMMA NextInv ==
  ASSUME IInv, [Next]_vars
  PROVE  IInv'
<1>1. CASE UNCHANGED vars
  <2>1. TypeOK' /\ CursorIsReset' /\ Classification' /\ Allocation' /\ Shares'
    BY <1>1 DEF IInv, vars, TypeOK, CursorIsReset, Classification, Allocation, Shares, Done,
         Slots, Count, Share, BuyQuote, SellBase, SupplyQuote, OrderAmount
  <2>2. Accumulation' /\ Residual'
    BY <1>1 DEF IInv, vars, Accumulation, Residual, Column, Contributions, Contribution, Bits,
         Done, Slots, Count, Leftover, Direction
  <2>3. Crossing' /\ Requirements' /\ Execution'
    BY <1>1 DEF IInv, vars, Crossing, Requirements, Execution, Requirement, Direction, Floors,
         Done, Slots, Count
  <2> QED BY <2>1, <2>2, <2>3 DEF IInv
<1>2. ASSUME NEW n \in BatchSizes, RunClassification(n) PROVE IInv'
  BY <1>2, ClassificationStep
<1>3. ASSUME NEW n \in BatchSizes, RunAccumulation(n) PROVE IInv'
  BY <1>3, AccumulationStep
<1>4. ASSUME NEW n \in BatchSizes, RunAllocation(n) PROVE IInv'
  BY <1>4, AllocationStep
<1>5. ASSUME NEW n \in BatchSizes, RunResidual(n) PROVE IInv'
  BY <1>5, ResidualStep
<1>6. ASSUME NEW n \in BatchSizes, FinaliseResidual(n) PROVE IInv'
  BY <1>6, FinaliseStep
<1>7. ASSUME NEW n \in BatchSizes, Reconcile(n) PROVE IInv'
  BY <1>7, ReconcileStep
<1>8. CASE RunCrossing
  BY <1>8, CrossingStep
<1>9. CASE Settle
  BY <1>9, SettleStep
<1> QED BY <1>1, <1>2, <1>3, <1>4, <1>5, <1>6, <1>7, <1>8, <1>9 DEF Next

\* In every state every stage has stored, for exactly the candidates its cursor
\* has passed, what its formula gives of the values the stages before it stored,
\* however the list is cut into batches (RunClassification to Reconcile).
THEOREM StagesAreExact == Spec => []IInv
<1>1. Init => IInv
  BY InitInv
<1>2. IInv /\ [Next]_vars => IInv'
  BY NextInv
<1> QED BY <1>1, <1>2, PTL DEF Spec

-----------------------------------------------------------------------------
(* Shares of a whole. *)

\* A part of c in the proportion of a to what c does not exceed is at most a.
LEMMA PartOf ==
  ASSUME NEW c \in Nat, NEW a \in Nat, NEW d \in Nat, c <= d
  PROVE  MulDiv(c, a, d) <= a
<1> DEFINE q == MulDiv(c, a, d)
<1>1. q \in Nat /\ d * q <= c * a
  BY Floor
<1>2. CASE d = 0
  <2>1. q = 0
    BY <1>2 DEF MulDiv
  <2> QED BY <2>1
<1>3. CASE d # 0
  <2> HIDE DEF q
  <2>1. c * a <= d * a
    <3>1. PICK e \in Nat : d = c + e
      <4>1. d - c \in Nat /\ d = c + (d - c)
        OBVIOUS
      <4> QED BY <4>1
    <3>2. d * a = c * a + e * a /\ e * a \in Nat /\ c * a \in Nat
      BY <3>1
    <3> QED BY <3>2
  <2>2. d * q < d * a + d
    <3>1. d * q \in Nat /\ c * a \in Nat /\ d * a \in Nat
      BY <1>1
    <3> QED BY <1>1, <1>3, <2>1, <3>1
  <2> QED BY <1>1, <1>3, <2>2, Cancel DEF q
<1> QED BY <1>2, <1>3

\* What is handed out in proportion is at most what there is.
LEMMA ProportionalSum ==
  ASSUME NEW S, IsFiniteSet(S), NEW h, NEW g, NEW c \in Nat, NEW d \in Nat,
         \A i \in S : g[i] \in Nat /\ (h[i] = 0 \/ h[i] = MulDiv(c, g[i], d)),
         SumFunctionOnSet(g, S) = d
  PROVE  SumFunctionOnSet(h, S) <= c
<1>1. \A i \in S : h[i] \in Nat /\ d * h[i] <= c * g[i]
  <2> TAKE i \in S
  <2>1. CASE h[i] = 0
    <3>1. c * g[i] \in Nat /\ d * h[i] = 0
      BY <2>1
    <3> QED BY <2>1, <3>1
  <2>2. CASE h[i] = MulDiv(c, g[i], d)
    <3>1. g[i] \in Nat
      OBVIOUS
    <3> DEFINE x == g[i]
               q == MulDiv(c, x, d)
    <3>2. x \in Nat /\ h[i] = q
      BY <2>2, <3>1
    <3>3. q \in Nat /\ d * q <= c * x
      <4> HIDE DEF x
      <4> QED BY <3>2, Floor
    <3> HIDE DEF q
    <3> QED BY <3>2, <3>3
  <2> QED BY <2>1, <2>2
<1>2. SumFunctionOnSet(h, S) \in Nat
  BY <1>1, SumNat
<1>3. CASE d = 0
  <2>1. \A i \in S : h[i] = 0
    BY <1>3 DEF MulDiv
  <2>2. SumFunctionOnSet(h, S) = 0
    BY <1>1, <2>1, SumZero
  <2> QED BY <2>2
<1>4. CASE d # 0
  <2>1. d * SumFunctionOnSet(h, S) <= c * d
    BY <1>1, SumBound
  <2>2. d * SumFunctionOnSet(h, S) < d * c + d
    <3>1. d * SumFunctionOnSet(h, S) \in Nat /\ c * d \in Nat /\ d * c = c * d
      BY <1>2
    <3> QED BY <1>4, <2>1, <3>1
  <2> QED BY <1>2, <1>4, <2>2, Cancel
<1> QED BY <1>3, <1>4

\* A stage that has begun finds the earlier ones complete.
LEMMA Earlier ==
  ASSUME TypeOK, NEW k \in 0 .. 7, NEW j \in 0 .. 7, j < k, Done(k) # {}
  PROVE  Done(j) = Slots /\ Rank(stage) >= k
<1>1. Rank(stage) \in 0 .. 8
  BY Typed DEF Rank, Stage
<1>2. Rank(stage) >= k
  BY <1>1 DEF Done
<1> QED BY <1>1, <1>2 DEF Done

\* A stage that is over went through every candidate.
LEMMA AllDone ==
  ASSUME TypeOK, NEW k \in 0 .. 7, Rank(stage) > k
  PROVE  Done(k) = Slots
BY DEF Done

\* The cross is within both sides.
LEMMA CrossedBound ==
  ASSUME IInv
  PROVE  /\ total.crossedBase <= total.grossBuyDemandBase
         /\ total.crossedBase <= total.grossSellSupplyBase
         /\ total.crossedBase \in Nat /\ total.crossedQuote \in Nat
         /\ total.grossBuyDemandBase \in Nat /\ total.grossSellSupplyBase \in Nat
<1>1. /\ total.crossedBase \in Nat /\ total.crossedQuote \in Nat
      /\ total.grossBuyDemandBase \in Nat /\ total.grossSellSupplyBase \in Nat
  BY Typed DEF IInv, Total
<1> QED BY <1>1 DEF IInv, Crossing, Lesser

\* No candidate gives more to the cross than it contributed.
LEMMA CrossIsWithinContribution ==
  ASSUME IInv, NEW i \in Slots
  PROVE  /\ slot[i].crossQuoteUsed <= slot[i].buyQuote
         /\ slot[i].crossBaseUsed <= slot[i].sellBase
<1>1. TypeOK /\ Classification /\ Allocation
  BY DEF IInv
<1>2. /\ slot[i].buyQuote \in Nat /\ slot[i].sellBase \in Nat /\ slot[i].buyDemandBase \in Nat
      /\ price \in Nat \ {0} /\ Scale \in Nat \ {0}
  BY <1>1, Typed DEF Field
<1>3. CASE i \notin Done(3)
  <2>1. slot[i].crossQuoteUsed = 0 /\ slot[i].crossBaseUsed = 0
    BY <1>1, <1>3 DEF Allocation
  <2> QED BY <1>2, <2>1
<1>4. CASE i \in Done(3)
  <2> DEFINE d == slot[i].buyDemandBase
             b == slot[i].buyQuote
             o == MulDiv(total.crossedBase, d, total.grossBuyDemandBase)
  <2>1. /\ slot[i].crossQuoteUsed = MulDivCeil(o, price, Scale)
        /\ slot[i].crossBaseUsed = MulDiv(total.crossedBase, slot[i].sellBase, total.grossSellSupplyBase)
    BY <1>1, <1>4 DEF Allocation
  <2>2. i \in Done(0)
    BY <1>1, <1>4, Earlier
  <2>3. d = MulDiv(b, Scale, price)
    BY <1>1, <2>2 DEF Classification
  <2>4. slot[i].crossBaseUsed <= slot[i].sellBase
    BY <1>2, <2>1, CrossedBound, PartOf
  <2>5. o <= d /\ o \in Nat
    BY <1>2, CrossedBound, PartOf, Floor
  <2>6. price * d <= b * Scale
    BY <1>2, <2>3, Floor
  <2> HIDE DEF o, d, b
  <2>7. b \in Nat /\ d \in Nat
    BY <1>2 DEF b, d
  <2>8. o * price <= Scale * b
    <3>1. PICK e \in Nat : d = o + e
      <4>1. d - o \in Nat /\ d = o + (d - o)
        BY <2>5, <2>7
      <4> QED BY <4>1
    <3>2. price * d = o * price + e * price /\ e * price \in Nat /\ o * price \in Nat
      BY <1>2, <2>5, <3>1
    <3>3. b * Scale = Scale * b /\ b * Scale \in Nat
      BY <1>2, <2>7
    <3> QED BY <2>6, <3>2, <3>3
  <2>9. MulDivCeil(o, price, Scale) <= b
    BY <1>2, <2>5, <2>7, <2>8, Ceil
  <2> QED BY <2>1, <2>4, <2>9 DEF b
<1> QED BY <1>3, <1>4

\* SumOf, as the sum of a column.
LEMMA ColumnSum ==
  ASSUME TypeOK, NEW f \in Field
  PROVE  SumOf(f) = SumFunctionOnSet(Column(f), Slots)
BY DEF SumOf, SumOver, Column

\* What a stage hands out in proportion is within what there was to hand out.
LEMMA HandedOut ==
  ASSUME IInv
  PROVE  /\ SumOf("crossBaseOut") <= total.crossedBase
         /\ SumOf("crossQuoteOut") <= total.crossedQuote
         /\ SumOf("externalAllocation") <= output
<1>1. TypeOK /\ Accumulation /\ Allocation /\ Residual /\ Shares
  BY DEF IInv
<1>2. /\ IsFiniteSet(Slots) /\ output \in Nat /\ total.aggregateInput \in Nat
      /\ \A i \in Slots : \A f \in Field : Column(f)[i] = slot[i][f] /\ slot[i][f] \in Nat
  BY <1>1, Typed, ColumnTyped DEF TypeOK, Total
<1>3. /\ SumOf("crossBaseOut") = SumFunctionOnSet(Column("crossBaseOut"), Slots)
      /\ SumOf("crossQuoteOut") = SumFunctionOnSet(Column("crossQuoteOut"), Slots)
      /\ SumOf("externalAllocation") = SumFunctionOnSet(Column("externalAllocation"), Slots)
  BY <1>1, ColumnSum DEF Field
<1>4. ASSUME Done(3) = {}
      PROVE  SumOf("crossBaseOut") <= total.crossedBase /\ SumOf("crossQuoteOut") <= total.crossedQuote
  <2>1. \A i \in Slots : Column("crossBaseOut")[i] = 0 /\ Column("crossQuoteOut")[i] = 0
    BY <1>1, <1>4 DEF Allocation, Column
  <2>2. /\ SumFunctionOnSet(Column("crossBaseOut"), Slots) = 0
        /\ SumFunctionOnSet(Column("crossQuoteOut"), Slots) = 0
    BY <1>2, <2>1, SumZero
  <2>3. SumOf("crossBaseOut") <= total.crossedBase /\ SumOf("crossQuoteOut") <= total.crossedQuote
    BY <1>3, <2>2, CrossedBound
  <2> QED BY <2>3
<1>5. ASSUME Done(3) # {}
      PROVE  SumOf("crossBaseOut") <= total.crossedBase /\ SumOf("crossQuoteOut") <= total.crossedQuote
  <2>1. Done(1) = Slots
    BY <1>1, <1>5, Earlier
  <2>2. /\ total.grossBuyDemandBase = SumFunctionOnSet(Column("buyDemandBase"), Slots)
        /\ total.grossSellSupplyBase = SumFunctionOnSet(Column("sellBase"), Slots)
    BY <1>1, <2>1 DEF Accumulation
  <2>3. \A i \in Slots :
          /\ Column("crossBaseOut")[i] = 0 \/ Column("crossBaseOut")[i] =
               MulDiv(total.crossedBase, Column("buyDemandBase")[i], total.grossBuyDemandBase)
          /\ Column("crossQuoteOut")[i] = 0 \/ Column("crossQuoteOut")[i] =
               MulDiv(total.crossedQuote, Column("sellBase")[i], total.grossSellSupplyBase)
          /\ Column("buyDemandBase")[i] \in Nat /\ Column("sellBase")[i] \in Nat
    BY <1>1, <1>2 DEF Allocation, Field
  <2>4. SumFunctionOnSet(Column("crossBaseOut"), Slots) <= total.crossedBase
    BY <1>2, <2>2, <2>3, CrossedBound, ProportionalSum
  <2>5. SumFunctionOnSet(Column("crossQuoteOut"), Slots) <= total.crossedQuote
    BY <1>2, <2>2, <2>3, CrossedBound, ProportionalSum
  <2> QED BY <1>3, <2>4, <2>5
<1>6. SumFunctionOnSet(Column("externalAllocation"), Slots) <= output
  <2> DEFINE r == Column("residualContribution")
  <2>1. \A i \in Slots : r[i] \in Nat /\ r[i] = slot[i].residualContribution
    BY <1>2 DEF Field
  <2>2. \A i \in Slots : Column("externalAllocation")[i] = slot[i].externalAllocation
    BY <1>2 DEF Field
  <2>3. CASE Done(7) = {} \/ total.aggregateInput = 0
    <3>1. \A i \in Slots : slot[i].externalAllocation = 0
      <4> TAKE i \in Slots
      <4>1. CASE i \notin Done(7)
        BY <1>1, <4>1 DEF Shares
      <4>2. CASE i \in Done(7)
        <5>1. Done(4) = Slots /\ total.aggregateInput = 0
          BY <1>1, <2>3, <4>2, Earlier
        <5>2. SumFunctionOnSet(r, Slots) = 0
          BY <1>1, <5>1 DEF Residual
        <5>3. r[i] = 0
          BY <1>2, <2>1, <5>2, SumZero
        <5>4. Share(i) = MulDiv(output, 0, 1)
          BY <2>1, <5>1, <5>3 DEF Share
        <5>5. MulDiv(output, 0, 1) = 0
          <6>1. 1 * MulDiv(output, 0, 1) <= output * 0 /\ MulDiv(output, 0, 1) \in Nat
            BY <1>2, Floor
          <6> QED BY <1>2, <6>1
        <5> QED BY <1>1, <4>2, <5>4, <5>5 DEF Shares
      <4> QED BY <4>1, <4>2
    <3>2. SumFunctionOnSet(Column("externalAllocation"), Slots) = 0
      <4>1. \A i \in Slots : Column("externalAllocation")[i] = 0
        BY <2>2, <3>1
      <4> QED BY <1>2, <4>1, SumZero
    <3> QED BY <1>2, <3>2
  <2>4. CASE Done(7) # {} /\ total.aggregateInput # 0
    <3>1. Done(4) = Slots
      BY <1>1, <2>4, Earlier
    <3>2. SumFunctionOnSet(r, Slots) = total.aggregateInput
      BY <1>1, <3>1 DEF Residual
    <3>3. \A i \in Slots : Column("externalAllocation")[i] = 0 \/ Column("externalAllocation")[i] =
               MulDiv(output, r[i], total.aggregateInput)
      BY <1>1, <2>1, <2>2, <2>4 DEF Shares, Share
    <3> HIDE DEF r
    <3> QED BY <1>2, <2>1, <3>2, <3>3, ProportionalSum
  <2> QED BY <2>3, <2>4
<1> QED BY <1>3, <1>4, <1>5, <1>6

\* SharesAreWithinWhole, for every list of orders, every price and every cut into
\* batches, whether or not a product overflows: no candidate gives the cross
\* more than it contributed, and neither the crossed base, nor the quote it is
\* worth, nor the venue's output is shared out beyond what it is (runAllocation,
\* runResidual, reconcile).
THEOREM SharesStayWithinWhole == Spec => []SharesAreWithinWhole
<1>1. IInv => SharesAreWithinWhole
  BY CrossIsWithinContribution, HandedOut DEF IInv, SharesAreWithinWhole
<1> QED BY <1>1, StagesAreExact, PTL

-----------------------------------------------------------------------------
(* The published outcome. *)

\* A bit says whether the entry is positive.
LEMMA BitsTyped ==
  ASSUME NEW h, \A i \in Slots : h[i] \in Nat
  PROVE  /\ \A i \in Slots : Bits(h)[i] \in {0, 1} /\ (Bits(h)[i] = 0 <=> h[i] = 0)
BY DEF Bits

\* A count is zero when the sum of what it counts is.
LEMMA CountZero ==
  ASSUME TypeOK, NEW h, \A i \in Slots : h[i] \in Nat
  PROVE  /\ SumFunctionOnSet(Bits(h), Slots) \in 0 .. Count
         /\ SumFunctionOnSet(h, Slots) = 0 <=> SumFunctionOnSet(Bits(h), Slots) = 0
<1>1. IsFiniteSet(Slots) /\ Cardinality(Slots) = Count
  BY Typed, FS_Interval
<1>2. \A i \in Slots : Bits(h)[i] \in {0, 1} /\ (Bits(h)[i] = 0 <=> h[i] = 0)
  BY BitsTyped
<1>3. SumFunctionOnSet(Bits(h), Slots) \in 0 .. Count
  BY <1>1, <1>2, SumOfBits
<1>4. /\ SumFunctionOnSet(h, Slots) = 0 <=> \A i \in Slots : h[i] = 0
      /\ SumFunctionOnSet(Bits(h), Slots) = 0 <=> \A i \in Slots : Bits(h)[i] = 0
  BY <1>1, <1>2, SumZero
<1> QED BY <1>2, <1>3, <1>4

\* A candidate with a leftover is a buyer or a seller, and effective.
LEMMA ContributorsAreEffective ==
  ASSUME IInv, NEW i \in Slots
  PROVE  /\ slot[i].residualContribution > 0 => slot[i].buyQuote > 0 \/ slot[i].sellBase > 0
         /\ slot[i].buyQuote > 0 => book[i].action = "Buy" /\ price <= book[i].limit
         /\ slot[i].sellBase > 0 => book[i].action = "Sell" /\ price >= book[i].limit
         /\ slot[i].supplyQuote > 0 => book[i].action = "Supply"
<1>1. TypeOK /\ Classification /\ Residual
  BY DEF IInv
<1>2. /\ slot[i].buyQuote \in Nat /\ slot[i].sellBase \in Nat /\ slot[i].supplyQuote \in Nat
      /\ slot[i].crossQuoteUsed \in Nat /\ slot[i].crossBaseUsed \in Nat
  BY <1>1, Typed DEF Field
<1>3. slot[i].residualContribution \in {0, Leftover(i)}
  BY <1>1 DEF Residual
<1>4. Leftover(i) > 0 => slot[i].buyQuote > 0 \/ slot[i].sellBase > 0
  BY <1>2 DEF Leftover, SafeSub
<1>5. /\ slot[i].buyQuote \in {0, BuyQuote(i)} /\ slot[i].sellBase \in {0, SellBase(i)}
      /\ slot[i].supplyQuote \in {0, SupplyQuote(i)}
  BY <1>1 DEF Classification
<1> QED BY <1>3, <1>4, <1>5 DEF BuyQuote, SellBase, SupplyQuote, OrderAmount

\* The stages of a finished epoch.
LEMMA FinishedRank ==
  ASSUME Finished
  PROVE  Rank(stage) \in {6, 7, 8} /\ Rank(stage) > 5 /\ (stage = "Reconciled" => Rank(stage) = 8)
<1>1. stage \in {"Published", "Executed", "NoPublicResidual", "Reconciled"}
  BY DEF Finished
<1>2. /\ Rank("Published") = 6 /\ Rank("Executed") = 7 /\ Rank("NoPublicResidual") = 7
      /\ Rank("Reconciled") = 8
  BY DEF Rank
<1> QED BY <1>1, <1>2

\* OutcomeIsCovered, for every list, price and cut, overflow or not: what the
\* published floors say of an epoch is one of the outcomes the model of the
\* network lets it publish.
THEOREM OutcomeAlwaysCovered == Spec => []OutcomeIsCovered
<1> SUFFICES ASSUME IInv, Finished PROVE Floors \in Outcome(Count)
  BY StagesAreExact, PTL DEF OutcomeIsCovered
<1>1. TypeOK /\ Accumulation /\ Residual
  BY DEF IInv
<1>2. Done(1) = Slots /\ Done(4) = Slots
  BY <1>1, FinishedRank, AllDone
<1> DEFINE R == Column("residualContribution")
           P == Column("supplyQuote")
           E == Contributions
           r == SumFunctionOnSet(Bits(R), Slots)
           p == SumFunctionOnSet(Bits(P), Slots)
           e == SumFunctionOnSet(Bits(E), Slots)
<1>3. /\ total.effectiveCount = e /\ total.supplyContributorCount = p
      /\ total.contributorCount = r
      /\ total.grossSupplyQuote = SumFunctionOnSet(P, Slots)
      /\ total.aggregateInput = SumFunctionOnSet(R, Slots)
  BY <1>1, <1>2 DEF Accumulation, Residual
<1>4. \A i \in Slots :
        /\ R[i] \in Nat /\ R[i] = slot[i].residualContribution
        /\ P[i] \in Nat /\ P[i] = slot[i].supplyQuote
        /\ slot[i].buyQuote \in Nat /\ slot[i].sellBase \in Nat
        /\ E[i] = slot[i].buyQuote + slot[i].sellBase + slot[i].supplyQuote
  BY <1>1, ColumnTyped, Typed DEF Field, Contributions, Contribution
<1>5. \A i \in Slots : E[i] \in Nat
  BY <1>4
<1> HIDE DEF R, P, E
<1>6. /\ r \in 0 .. Count /\ (total.aggregateInput = 0 <=> r = 0)
      /\ p \in 0 .. Count /\ (total.grossSupplyQuote = 0 <=> p = 0)
      /\ e \in 0 .. Count
  BY <1>1, <1>3, <1>4, <1>5, CountZero
<1>7. r + p <= e
  <2> DEFINE h == [i \in Slots |-> Bits(R)[i] + Bits(P)[i]]
  <2>1. \A i \in Slots : /\ Bits(R)[i] \in {0, 1} /\ Bits(P)[i] \in {0, 1} /\ Bits(E)[i] \in {0, 1}
                         /\ (Bits(R)[i] = 0 <=> R[i] = 0) /\ (Bits(P)[i] = 0 <=> P[i] = 0)
                         /\ (Bits(E)[i] = 0 <=> E[i] = 0)
    BY <1>4, <1>5, BitsTyped
  <2>2. \A i \in Slots : Bits(R)[i] + Bits(P)[i] <= Bits(E)[i]
    <3> TAKE i \in Slots
    <3>1. R[i] > 0 => slot[i].buyQuote > 0 \/ slot[i].sellBase > 0
      BY <1>4, ContributorsAreEffective
    <3>2. ~(R[i] > 0 /\ P[i] > 0)
      BY <1>4, <3>1, ContributorsAreEffective
    <3>3. R[i] > 0 \/ P[i] > 0 => E[i] > 0
      BY <1>4, <3>1
    <3>4. R[i] \in Nat /\ P[i] \in Nat /\ E[i] \in Nat
      BY <1>4, <1>5
    <3> QED BY <2>1, <3>2, <3>3, <3>4
  <2>3. IsFiniteSet(Slots)
    BY <1>1, Typed
  <2>4. SumFunctionOnSet(h, Slots) = r + p
    <3>1. \A i \in Slots : Bits(R)[i] \in Nat /\ Bits(P)[i] \in Nat /\ h[i] = Bits(R)[i] + Bits(P)[i]
      BY <2>1
    <3> HIDE DEF h
    <3> QED BY <2>3, <3>1, SumAdd
  <2>5. 1 * SumFunctionOnSet(h, Slots) <= 1 * e
    <3>1. \A i \in Slots : h[i] \in Nat /\ Bits(E)[i] \in Nat /\ 1 * h[i] <= 1 * Bits(E)[i]
      BY <2>1, <2>2
    <3> HIDE DEF h
    <3> QED BY <2>3, <3>1, SumBound
  <2> QED BY <1>6, <2>4, <2>5
<1> HIDE DEF r, p, e
<1> DEFINE c == IF Floors.residual = "Zero" THEN 0 ELSE r
<1>8. Floors.residual = RouteOf(c)
  BY <1>3, <1>6, FloorAssumption DEF Floors, RouteOf
<1>9. Floors.supply = RouteOf(p)
  BY <1>3, <1>6, FloorAssumption DEF Floors, RouteOf
<1>10. <<e, c, p>> \in {k \in (0 .. Count) \X (0 .. Count) \X (0 .. Count) : k[2] + k[3] <= k[1]}
  <2>1. c \in 0 .. Count /\ c + p <= e
    <3>1. Count \in Nat
      BY <1>1, Typed
    <3> QED BY <1>6, <1>7, <3>1
  <2> HIDE DEF c
  <2> QED BY <1>6, <2>1
<1>11. Floors = [epochFloor |-> e >= EpochFloorK, residual |-> RouteOf(c), supply |-> RouteOf(p)]
  <2>1. Floors.epochFloor = (e >= EpochFloorK)
    BY <1>3 DEF Floors
  <2>2. Floors = [epochFloor |-> Floors.epochFloor, residual |-> Floors.residual,
                  supply |-> Floors.supply]
    BY DEF Floors
  <2> QED BY <1>8, <1>9, <2>1, <2>2
<1> HIDE DEF c
<1> DEFINE k == <<e, c, p>>
<1>12. Floors = [epochFloor |-> k[1] >= EpochFloorK, residual |-> RouteOf(k[2]),
                 supply |-> RouteOf(k[3])]
  BY <1>11
<1>13. k \in {t \in (0 .. Count) \X (0 .. Count) \X (0 .. Count) : t[2] + t[3] <= t[1]}
  BY <1>10
<1> HIDE DEF k
<1> QED BY <1>12, <1>13 DEF Outcome

-----------------------------------------------------------------------------
(* An epoch whose products fit in a word.  PRICE_SCALE is 10^18: everything *)
(* escrowed for the epoch may come to 2^97 units before its square does not *)
(* fit.                                                                    *)

Escrows == [i \in Slots |-> book[i].locked]
Escrowed == SumFunctionOnSet(Escrows, Slots)

AmountsFit ==
  /\ Escrowed * Escrowed * Scale + Scale < Word
  /\ Escrowed * output < Word
  /\ \A i \in Slots : /\ Escrowed * Scale + book[i].limit < Word
                      /\ Escrowed * book[i].limit + Scale < Word

NoOverflow ==
  /\ total.crossedBase * price < Word
  /\ \A i \in Slots :
       /\ slot[i].buyQuote * Scale < Word
       /\ total.crossedBase * slot[i].buyDemandBase < Word
       /\ total.crossedBase * slot[i].sellBase < Word
       /\ total.crossedQuote * slot[i].sellBase < Word
       /\ slot[i].crossBaseOut * price + (Scale - 1) < Word
       /\ total.aggregateInput * Scale + book[i].limit < Word
       /\ total.aggregateInput * book[i].limit + Scale < Word
       /\ output * slot[i].residualContribution < Word

\* Products are monotone.
LEMMA TimesMono ==
  ASSUME NEW a \in Nat, NEW b \in Nat, NEW c \in Nat, NEW d \in Nat, a <= b, c <= d
  PROVE  a * c <= b * d /\ a * c \in Nat /\ b * d \in Nat
<1>1. PICK x \in Nat : b = a + x
  <2>1. b - a \in Nat /\ b = a + (b - a)
    OBVIOUS
  <2> QED BY <2>1
<1>2. PICK y \in Nat : d = c + y
  <2>1. d - c \in Nat /\ d = c + (d - c)
    OBVIOUS
  <2> QED BY <2>1
<1>3. b * d = a * c + a * y + x * c + x * y
  BY <1>1, <1>2
<1>4. a * c \in Nat /\ a * y \in Nat /\ x * c \in Nat /\ x * y \in Nat
  OBVIOUS
<1> QED BY <1>3, <1>4

\* One of the terms is at most the sum.
LEMMA TermOfSum ==
  ASSUME NEW f, NEW S, IsFiniteSet(S), \A x \in S : f[x] \in Nat, NEW z \in S
  PROVE  f[z] <= SumFunctionOnSet(f, S)
<1>1. SumFunctionOnSet(f, S) = f[z] + SumFunctionOnSet(f, S \ {z})
  BY SumRemove
<1>2. SumFunctionOnSet(f, S \ {z}) \in Nat
  BY SumNat, FS_Subset
<1> QED BY <1>1, <1>2

\* What an epoch holds comes out of what was escrowed for it.
LEMMA HeldIsEscrowed ==
  ASSUME IInv, Finished
  PROVE  /\ Escrowed \in Nat
         /\ \A i \in Slots :
              /\ slot[i].buyQuote <= Escrowed /\ slot[i].sellBase <= Escrowed
              /\ slot[i].residualContribution <= Escrowed
              /\ slot[i].buyDemandBase <= Escrowed * Scale
              /\ price * slot[i].buyDemandBase <= Escrowed * Scale
         /\ total.crossedBase <= Escrowed
         /\ total.crossedBase * price <= Scale * Escrowed
         /\ total.aggregateInput <= Escrowed
<1>1. TypeOK /\ Classification /\ Accumulation /\ Residual
  BY DEF IInv
<1>2. /\ Done(0) = Slots /\ Done(1) = Slots /\ Done(4) = Slots
  BY <1>1, FinishedRank, AllDone
<1>3. /\ IsFiniteSet(Slots) /\ price \in Nat \ {0} /\ Scale \in Nat \ {0}
      /\ \A i \in Slots : Escrows[i] \in Nat /\ Escrows[i] = book[i].locked
  BY <1>1, Typed DEF Escrows
<1>4. \A i \in Slots : /\ slot[i].buyQuote \in Nat /\ slot[i].sellBase \in Nat
                       /\ slot[i].residualContribution \in Nat /\ slot[i].buyDemandBase \in Nat
                       /\ slot[i].crossQuoteUsed \in Nat /\ slot[i].crossBaseUsed \in Nat
  BY <1>1, Typed DEF Field
<1>5. Escrowed \in Nat /\ \A i \in Slots : Escrows[i] <= Escrowed
  BY <1>3, SumNat, TermOfSum DEF Escrowed
<1>6. \A i \in Slots : slot[i].buyQuote <= Escrows[i] /\ slot[i].sellBase <= Escrows[i]
  BY <1>1, <1>2, <1>3 DEF Classification, BuyQuote, SellBase, OrderAmount
<1>7. \A i \in Slots : slot[i].residualContribution <= Escrows[i]
  <2> TAKE i \in Slots
  <2>1. slot[i].residualContribution = Leftover(i)
    BY <1>1, <1>2 DEF Residual
  <2>2. Leftover(i) <= slot[i].buyQuote \/ Leftover(i) <= slot[i].sellBase
    BY <1>4 DEF Leftover, SafeSub
  <2> QED BY <1>3, <1>4, <1>6, <2>1, <2>2
<1>8. \A i \in Slots : price * slot[i].buyDemandBase <= Scale * Escrows[i]
  <2> TAKE i \in Slots
  <2> DEFINE b == slot[i].buyQuote
             d == slot[i].buyDemandBase
  <2>1. d = MulDiv(b, Scale, price)
    BY <1>1, <1>2 DEF Classification
  <2>2. price * d <= b * Scale
    BY <1>3, <1>4, <2>1, Floor
  <2>3. b * Scale <= Escrows[i] * Scale /\ b * Scale \in Nat /\ Escrows[i] * Scale \in Nat
    BY <1>3, <1>4, <1>6, TimesMono
  <2>4. d \in Nat /\ price * d \in Nat
    BY <1>3, <1>4
  <2> HIDE DEF b, d
  <2>5. Escrows[i] * Scale = Scale * Escrows[i]
    BY <1>3
  <2>6. price * d <= Scale * Escrows[i]
    BY <2>2, <2>3, <2>4, <2>5
  <2> QED BY <2>6 DEF d
<1>9. \A i \in Slots : /\ price * slot[i].buyDemandBase <= Escrowed * Scale
                       /\ slot[i].buyDemandBase <= Escrowed * Scale
  <2> TAKE i \in Slots
  <2> DEFINE d == slot[i].buyDemandBase
             e == Escrows[i]
  <2>1. e \in Nat /\ d \in Nat /\ e <= Escrowed /\ price * d <= Scale * e
    BY <1>3, <1>4, <1>5, <1>8
  <2> HIDE DEF d, e
  <2>2. Scale * e = e * Scale /\ price * d \in Nat
    BY <1>3, <2>1
  <2>3. e * Scale <= Escrowed * Scale /\ e * Scale \in Nat /\ Escrowed * Scale \in Nat
    BY <1>3, <1>5, <2>1, TimesMono
  <2>4. 1 * d <= price * d
    BY <1>3, <2>1, TimesMono
  <2>5. price * d <= Escrowed * Scale /\ d <= Escrowed * Scale
    BY <2>1, <2>2, <2>3, <2>4
  <2> QED BY <2>5 DEF d
<1>10. total.crossedBase <= Escrowed
  <2>1. total.grossSellSupplyBase = SumFunctionOnSet(Column("sellBase"), Slots)
    BY <1>1, <1>2 DEF Accumulation
  <2> DEFINE g == Column("sellBase")
  <2>2. \A i \in Slots : g[i] \in Nat /\ Escrows[i] \in Nat /\ 1 * g[i] <= 1 * Escrows[i]
    <3> TAKE i \in Slots
    <3>1. g[i] = slot[i].sellBase
      BY DEF Column
    <3> QED BY <1>3, <1>4, <1>6, <3>1
  <2> HIDE DEF g
  <2>3. 1 * SumFunctionOnSet(g, Slots) <= 1 * Escrowed
    BY <1>3, <2>2, SumBound DEF Escrowed
  <2>4. SumFunctionOnSet(g, Slots) \in Nat
    BY <1>3, <2>2, SumNat
  <2> QED BY <1>5, <2>1, <2>3, <2>4, CrossedBound DEF g
<1>11. total.crossedBase * price <= Scale * Escrowed
  <2> DEFINE g == Column("buyDemandBase")
             B == SumFunctionOnSet(g, Slots)
  <2>1. total.grossBuyDemandBase = B
    BY <1>1, <1>2 DEF Accumulation
  <2>2. \A i \in Slots : g[i] \in Nat /\ Escrows[i] \in Nat /\ price * g[i] <= Scale * Escrows[i]
    <3> TAKE i \in Slots
    <3>1. g[i] = slot[i].buyDemandBase
      BY DEF Column
    <3> QED BY <1>3, <1>4, <1>8, <3>1
  <2> HIDE DEF g
  <2>3. price * B <= Scale * Escrowed
    BY <1>3, <2>2, SumBound DEF Escrowed
  <2>4. B \in Nat
    BY <1>3, <2>2, SumNat
  <2> HIDE DEF B
  <2>5. total.crossedBase * price <= B * price /\ total.crossedBase * price \in Nat
    BY <1>3, <2>1, <2>4, CrossedBound, TimesMono
  <2>6. B * price = price * B /\ price * B \in Nat /\ Scale * Escrowed \in Nat
    BY <1>3, <1>5, <2>4
  <2> QED BY <2>3, <2>5, <2>6
<1>12. total.aggregateInput <= Escrowed
  <2> DEFINE g == Column("residualContribution")
  <2>1. total.aggregateInput = SumFunctionOnSet(g, Slots)
    BY <1>1, <1>2 DEF Residual
  <2>2. \A i \in Slots : g[i] \in Nat /\ Escrows[i] \in Nat /\ 1 * g[i] <= 1 * Escrows[i]
    <3> TAKE i \in Slots
    <3>1. g[i] = slot[i].residualContribution
      BY DEF Column
    <3> QED BY <1>3, <1>4, <1>7, <3>1
  <2> HIDE DEF g
  <2>3. 1 * SumFunctionOnSet(g, Slots) <= 1 * Escrowed
    BY <1>3, <2>2, SumBound DEF Escrowed
  <2>4. SumFunctionOnSet(g, Slots) \in Nat
    BY <1>3, <2>2, SumNat
  <2> QED BY <1>5, <2>1, <2>3, <2>4
<1>13. \A i \in Slots : /\ slot[i].buyQuote <= Escrowed /\ slot[i].sellBase <= Escrowed
                        /\ slot[i].residualContribution <= Escrowed
  BY <1>3, <1>4, <1>5, <1>6, <1>7
<1> QED BY <1>5, <1>9, <1>10, <1>11, <1>12, <1>13

\* Amounts that fit the word leave no product of the epoch above it.
LEMMA NothingOverflows ==
  ASSUME IInv, Finished, AmountsFit
  PROVE  NoOverflow
<1> DEFINE T == Escrowed
<1>1. TypeOK /\ Crossing /\ Allocation
  BY DEF IInv
<1>2. /\ price \in Nat \ {0} /\ Scale \in Nat \ {0} /\ Word \in Nat /\ output \in Nat
      /\ total.aggregateInput \in Nat /\ \A i \in Slots : book[i].limit \in Nat
  BY <1>1, Typed DEF Total, TypeOK
<1>3. \A i \in Slots : /\ slot[i].buyQuote \in Nat /\ slot[i].sellBase \in Nat
                       /\ slot[i].residualContribution \in Nat /\ slot[i].buyDemandBase \in Nat
                       /\ slot[i].crossBaseOut \in Nat
  BY <1>1, Typed DEF Field
<1>4. T \in Nat
  BY HeldIsEscrowed
<1> HIDE DEF T
<1>5. /\ T * T * Scale + Scale < Word /\ T * output < Word
      /\ \A i \in Slots : T * Scale + book[i].limit < Word /\ T * book[i].limit + Scale < Word
  BY DEF AmountsFit, T
<1>6. /\ \A i \in Slots :
              /\ slot[i].buyQuote <= T /\ slot[i].sellBase <= T
              /\ slot[i].residualContribution <= T
              /\ slot[i].buyDemandBase <= T * Scale
              /\ price * slot[i].buyDemandBase <= T * Scale
      /\ total.crossedBase <= T
      /\ total.crossedBase * price <= Scale * T
      /\ total.aggregateInput <= T
  BY HeldIsEscrowed DEF T
<1>7. /\ T * T \in Nat /\ T * Scale \in Nat /\ Scale * T = T * Scale
      /\ T * T * Scale \in Nat /\ T * (T * Scale) = T * T * Scale
  BY <1>2, <1>4
<1>8. T * Scale + Scale < Word /\ T * T < Word
  <2>1. T * Scale <= T * T * Scale
    <3>1. CASE T = 0
      BY <1>2, <3>1
    <3>2. CASE T # 0
      <4>1. 1 * (T * Scale) <= T * (T * Scale)
        BY <1>4, <1>7, <3>2, TimesMono
      <4> QED BY <1>7, <4>1
    <3> QED BY <3>1, <3>2
  <2>2. (T * T) * 1 <= (T * T) * Scale
    BY <1>2, <1>7, TimesMono
  <2> QED BY <1>2, <1>5, <1>7, <2>1, <2>2
<1>9. total.crossedBase * price < Word
  <2>1. total.crossedBase * price \in Nat
    BY <1>2, CrossedBound
  <2> QED BY <1>2, <1>6, <1>7, <1>8, <2>1
<1>10. total.crossedBase \in Nat /\ total.crossedQuote \in Nat
  BY CrossedBound
<1>11. total.crossedQuote <= T
  <2>1. /\ Rank(stage) >= 3
    BY FinishedRank
  <2>2. total.crossedQuote = MulDiv(total.crossedBase, price, Scale)
    BY <1>1, <2>1 DEF Crossing
  <2>3. Scale * total.crossedQuote <= total.crossedBase * price
    BY <1>2, <1>10, <2>2, Floor
  <2>4. Scale * total.crossedQuote < Scale * T + Scale
    <3>1. /\ Scale * total.crossedQuote \in Nat /\ total.crossedBase * price \in Nat
      BY <1>2, <1>10
    <3> QED BY <1>2, <1>6, <1>7, <2>3, <3>1
  <2> QED BY <1>2, <1>4, <1>10, <2>4, Cancel
<1>12. ASSUME NEW i \in Slots
       PROVE  /\ slot[i].buyQuote * Scale < Word
              /\ total.crossedBase * slot[i].buyDemandBase < Word
              /\ total.crossedBase * slot[i].sellBase < Word
              /\ total.crossedQuote * slot[i].sellBase < Word
  <2> DEFINE b == slot[i].buyQuote
             s == slot[i].sellBase
             d == slot[i].buyDemandBase
             C == total.crossedBase
             q == total.crossedQuote
  <2>1. /\ b \in Nat /\ s \in Nat /\ d \in Nat /\ C \in Nat /\ q \in Nat
        /\ b <= T /\ s <= T /\ d <= T * Scale /\ C <= T /\ q <= T
    BY <1>3, <1>6, <1>10, <1>11
  <2> HIDE DEF b, s, d, C, q
  <2>2. b * Scale <= T * Scale /\ b * Scale \in Nat
    BY <1>2, <1>4, <2>1, TimesMono
  <2>3. C * d <= T * (T * Scale) /\ C * d \in Nat
    BY <1>4, <1>7, <2>1, TimesMono
  <2>4. C * s <= T * T /\ C * s \in Nat /\ q * s <= T * T /\ q * s \in Nat
    BY <1>4, <2>1, TimesMono
  <2>5. b * Scale < Word /\ C * d < Word /\ C * s < Word /\ q * s < Word
    BY <1>2, <1>5, <1>7, <1>8, <2>2, <2>3, <2>4
  <2> QED BY <2>5 DEF b, s, d, C, q
<1>13. ASSUME NEW i \in Slots
       PROVE  slot[i].crossBaseOut * price + (Scale - 1) < Word
  <2> DEFINE o == slot[i].crossBaseOut
             d == slot[i].buyDemandBase
  <2>1. o \in Nat /\ d \in Nat /\ price * d <= T * Scale
    BY <1>3, <1>6
  <2>2. o <= d
    <3>1. o \in {0, MulDiv(total.crossedBase, d, total.grossBuyDemandBase)}
      BY <1>1 DEF Allocation
    <3>2. MulDiv(total.crossedBase, d, total.grossBuyDemandBase) <= d
      BY <2>1, CrossedBound, PartOf
    <3> HIDE DEF o, d
    <3> QED BY <2>1, <3>1, <3>2
  <2> HIDE DEF o, d
  <2>3. o * price <= d * price /\ o * price \in Nat /\ d * price \in Nat /\ d * price = price * d
    BY <1>2, <2>1, <2>2, TimesMono
  <2>4. o * price + (Scale - 1) < Word
    BY <1>2, <1>7, <1>8, <2>1, <2>3
  <2> QED BY <2>4 DEF o
<1>14. ASSUME NEW i \in Slots
       PROVE  /\ total.aggregateInput * Scale + book[i].limit < Word
              /\ total.aggregateInput * book[i].limit + Scale < Word
              /\ output * slot[i].residualContribution < Word
  <2> DEFINE A == total.aggregateInput
             l == book[i].limit
             r == slot[i].residualContribution
  <2>1. /\ A \in Nat /\ l \in Nat /\ r \in Nat /\ A <= T /\ r <= T
        /\ T * Scale + l < Word /\ T * l + Scale < Word
    BY <1>2, <1>3, <1>5, <1>6
  <2> HIDE DEF A, l, r
  <2>2. A * Scale <= T * Scale /\ A * Scale \in Nat
    BY <1>2, <1>4, <2>1, TimesMono
  <2>3. A * l <= T * l /\ A * l \in Nat /\ T * l \in Nat
    BY <1>4, <2>1, TimesMono
  <2>4. output * r <= output * T /\ output * r \in Nat /\ output * T = T * output /\ T * output \in Nat
    BY <1>2, <1>4, <2>1, TimesMono
  <2>5. A * Scale + l < Word /\ A * l + Scale < Word /\ output * r < Word
    BY <1>2, <1>5, <1>7, <2>1, <2>2, <2>3, <2>4
  <2> QED BY <2>5 DEF A, l, r
<1> QED BY <1>9, <1>12, <1>13, <1>14 DEF NoOverflow

-----------------------------------------------------------------------------
(* What an epoch owes. *)

\* A sum of combinations is the combination of the sums.
LEMMA SumLinear ==
  ASSUME NEW f, NEW g, NEW h, NEW S, IsFiniteSet(S), NEW a \in Nat, NEW b \in Nat,
         \A x \in S : f[x] \in Nat /\ g[x] \in Nat /\ h[x] = a * f[x] + b * g[x]
  PROVE  SumFunctionOnSet(h, S) = a * SumFunctionOnSet(f, S) + b * SumFunctionOnSet(g, S)
<1> DEFINE C == {s \in SUBSET S :
              SumFunctionOnSet(h, s) = a * SumFunctionOnSet(f, s) + b * SumFunctionOnSet(g, s)}
<1>1. {} \in C
  BY SumEmpty
<1>2. ASSUME NEW s \in SUBSET S, s # {}, \A y \in s : s \ {y} \in C PROVE s \in C
  <2>1. PICK y \in s : TRUE
    BY <1>2
  <2>2. IsFiniteSet(s) /\ IsFiniteSet(s \ {y})
    BY FS_Subset
  <2> DEFINE F == SumFunctionOnSet(f, s \ {y})
             G == SumFunctionOnSet(g, s \ {y})
             u == f[y]
             v == g[y]
  <2>3. /\ SumFunctionOnSet(f, s) = u + F
        /\ SumFunctionOnSet(g, s) = v + G
        /\ SumFunctionOnSet(h, s) = h[y] + SumFunctionOnSet(h, s \ {y})
    BY <2>1, <2>2, SumRemove
  <2>4. F \in Nat /\ G \in Nat /\ u \in Nat /\ v \in Nat
    BY <2>1, <2>2, SumNat
  <2>5. SumFunctionOnSet(h, s \ {y}) = a * F + b * G /\ h[y] = a * u + b * v
    BY <1>2, <2>1
  <2> HIDE DEF F, G, u, v
  <2>6. a * (u + F) = a * u + a * F /\ b * (v + G) = b * v + b * G
    BY <2>4
  <2>7. a * u \in Nat /\ a * F \in Nat /\ b * v \in Nat /\ b * G \in Nat
    BY <2>4
  <2>8. SumFunctionOnSet(h, s) = a * (u + F) + b * (v + G)
    BY <2>3, <2>5, <2>6, <2>7
  <2> QED BY <2>3, <2>8
<1>3. S \in C
  <2> HIDE DEF C
  <2> QED BY <1>1, <1>2, SubsetInduction
<1> QED BY <1>3

\* Floored shares miss the whole by less than one for each that takes part.
LEMMA ProportionalDust ==
  ASSUME TypeOK, NEW h, NEW g, NEW c \in Nat, NEW d \in Nat, c <= d,
         \A i \in Slots : g[i] \in Nat /\ h[i] = MulDiv(c, g[i], d) /\ c * g[i] < Word,
         SumFunctionOnSet(g, Slots) = d
  PROVE  c <= SumFunctionOnSet(h, Slots) + SafeSub(SumFunctionOnSet(Bits(g), Slots), 1)
<1> DEFINE H == SumFunctionOnSet(h, Slots)
           N == SumFunctionOnSet(Bits(g), Slots)
<1>1. IsFiniteSet(Slots) /\ \A i \in Slots : h[i] \in Nat
  <2>1. ASSUME NEW i \in Slots PROVE h[i] \in Nat
    <3>1. PICK x \in Nat : x = g[i]
      OBVIOUS
    <3>2. MulDiv(c, x, d) \in Nat
      BY Floor
    <3> QED BY <3>1, <3>2
  <2> QED BY <2>1, Typed
<1>2. \A i \in Slots : Bits(g)[i] \in {0, 1} /\ (Bits(g)[i] = 0 <=> g[i] = 0)
  BY BitsTyped
<1>3. H \in Nat /\ N \in Nat
  BY <1>1, <1>2, SumNat
<1>4. CASE d = 0
  <2>1. c = 0 /\ SafeSub(N, 1) \in Nat
    BY <1>3, <1>4 DEF SafeSub
  <2> QED BY <1>3, <2>1
<1>5. CASE d # 0
  <2> DEFINE k == [i \in Slots |-> d * h[i] + (d - 1) * Bits(g)[i]]
  <2>1. \A i \in Slots : k[i] \in Nat /\ g[i] \in Nat /\ c * g[i] <= 1 * k[i]
    <3> TAKE i \in Slots
    <3> DEFINE x == g[i]
               q == MulDiv(c, x, d)
    <3>1. k[i] = d * q + (d - 1) * Bits(g)[i] /\ x \in Nat /\ q \in Nat /\ c * x < Word
      BY <1>1
    <3>2. x = 0 => Bits(g)[i] = 0
      BY <1>2
    <3>3. x # 0 => Bits(g)[i] = 1
      BY <1>2
    <3> HIDE DEF x, k
    <3>4. d * q \in Nat /\ c * x \in Nat
      BY <3>1
    <3>5. CASE x = 0
      <4>1. k[i] = d * q
        BY <1>5, <3>1, <3>2, <3>4, <3>5
      <4>2. c * x = 0
        BY <3>5
      <4> QED BY <3>1, <3>4, <4>1, <4>2 DEF x
    <3>6. CASE x # 0
      <4>1. k[i] = d * q + (d - 1)
        BY <1>5, <3>1, <3>3, <3>4, <3>6
      <4>2. ~(d * (q + 1) <= c * x)
        <5>1. PICK y \in Nat : y = x
          BY <3>1
        <5>2. c * y < Word /\ q = MulDiv(c, y, d)
          BY <3>1, <5>1
        <5>3. \A z \in Nat : d * z <= c * y => z <= MulDiv(c, y, d)
          BY <1>5, <5>2, Floor
        <5> HIDE DEF q
        <5>4. d * (q + 1) <= c * y => q + 1 <= q
          BY <3>1, <5>2, <5>3
        <5> QED BY <3>1, <5>1, <5>4
      <4>3. d * (q + 1) = d * q + d
        BY <3>1
      <4>4. c * x <= d * q + (d - 1)
        BY <3>4, <4>2, <4>3
      <4> QED BY <1>5, <3>1, <3>4, <4>1, <4>4 DEF x
    <3> QED BY <3>5, <3>6
  <2>2. SumFunctionOnSet(k, Slots) = d * H + (d - 1) * N
    <3>1. /\ d - 1 \in Nat
          /\ \A i \in Slots : h[i] \in Nat /\ Bits(g)[i] \in Nat
                              /\ k[i] = d * h[i] + (d - 1) * Bits(g)[i]
      BY <1>1, <1>2, <1>5
    <3> HIDE DEF k
    <3>2. PICK e \in Nat : e = d - 1
      BY <3>1
    <3>3. PICK w : w = Bits(g)
      OBVIOUS
    <3>4. \A i \in Slots : h[i] \in Nat /\ w[i] \in Nat /\ k[i] = d * h[i] + e * w[i]
      BY <3>1, <3>2, <3>3
    <3>5. SumFunctionOnSet(k, Slots) = d * SumFunctionOnSet(h, Slots) + e * SumFunctionOnSet(w, Slots)
      BY <1>1, <3>4, SumLinear
    <3> QED BY <3>2, <3>3, <3>5
  <2>3. c * d <= 1 * SumFunctionOnSet(k, Slots)
    <3> HIDE DEF k
    <3> QED BY <1>1, <2>1, SumBound
  <2> HIDE DEF k, H, N
  <2>4. N # 0
    <3> SUFFICES ASSUME N = 0 PROVE FALSE
      OBVIOUS
    <3>1. \A i \in Slots : Bits(g)[i] \in Nat
      BY <1>2
    <3>2. \A i \in Slots : Bits(g)[i] = 0
      BY <1>1, <3>1, SumZero DEF N
    <3>3. \A i \in Slots : g[i] = 0
      BY <1>2, <3>2
    <3> QED BY <1>1, <1>5, <3>3, SumZero
  <2>5. PICK m \in Nat : N = m + 1
    <3>1. N - 1 \in Nat /\ N = (N - 1) + 1
      BY <1>3, <2>4
    <3> QED BY <3>1
  <2>6. (d - 1) * N = d * m + d - m - 1
    BY <2>5
  <2>7. d * (H + m) = d * H + d * m /\ d * c = c * d
    BY <1>3
  <2>8. d * H \in Nat /\ d * m \in Nat /\ d * c \in Nat
    BY <1>3
  <2>9. d * c < d * (H + m) + d
    BY <1>5, <2>2, <2>3, <2>6, <2>7, <2>8
  <2>10. c <= H + m
    BY <1>3, <1>5, <2>9, Cancel
  <2> QED BY <1>3, <2>5, <2>10 DEF SafeSub, H, N
<1> QED BY <1>4, <1>5

\* The sums of the columns that a debt is made of.
LEMMA DebtSums ==
  ASSUME IInv, Finished, AmountsFit
  PROVE  /\ \A f \in Field : SumOf(f) = SumFunctionOnSet(Column(f), Slots) /\ SumOf(f) \in Nat
         /\ total.grossBuyDemandBase = SumOf("buyDemandBase")
         /\ total.grossSellSupplyBase = SumOf("sellBase")
         /\ total.aggregateInput = SumOf("residualContribution")
         /\ SellerCount = SumFunctionOnSet(Bits(Column("sellBase")), Slots)
         /\ BuyerCount = SumFunctionOnSet(Bits(Column("buyDemandBase")), Slots)
         /\ SafeSub(SellerCount, 1) \in Nat /\ SafeSub(BuyerCount, 1) \in Nat
<1>1. TypeOK /\ Accumulation /\ Residual
  BY DEF IInv
<1>2. Done(1) = Slots /\ Done(4) = Slots
  BY <1>1, FinishedRank, AllDone
<1>3. \A f \in Field : SumOf(f) = SumFunctionOnSet(Column(f), Slots) /\ SumOf(f) \in Nat
  <2> TAKE f \in Field
  <2>1. IsFiniteSet(Slots) /\ \A i \in Slots : Column(f)[i] \in Nat
    BY <1>1, Typed, ColumnTyped
  <2> QED BY <1>1, <2>1, ColumnSum, SumNat
<1>4. ASSUME NEW f \in Field
      PROVE  CountOver(Slots, LAMBDA i : slot[i][f]) = SumFunctionOnSet(Bits(Column(f)), Slots)
  BY <1>1, BatchSum DEF CountOver, SumOver
<1>5. /\ SellerCount = SumFunctionOnSet(Bits(Column("sellBase")), Slots)
      /\ BuyerCount = SumFunctionOnSet(Bits(Column("buyDemandBase")), Slots)
  BY <1>4 DEF SellerCount, BuyerCount, Field
<1>6. SellerCount \in Nat /\ BuyerCount \in Nat
  <2>1. /\ \A i \in Slots : Column("sellBase")[i] \in Nat
        /\ \A i \in Slots : Column("buyDemandBase")[i] \in Nat
        /\ Count \in Nat
    BY <1>1, ColumnTyped, Typed DEF Field
  <2> QED BY <1>1, <1>5, <2>1, CountZero
<1>7. SafeSub(SellerCount, 1) \in Nat /\ SafeSub(BuyerCount, 1) \in Nat
  BY <1>6 DEF SafeSub
<1> QED BY <1>1, <1>2, <1>3, <1>5, <1>7 DEF Accumulation, Residual, Field

\* What is not left over was given to the cross.
LEMMA LeftoverSum ==
  ASSUME IInv, Finished
  PROVE  /\ Direction = "SellBase" => SumFunctionOnSet(Column("sellBase"), Slots) =
              total.aggregateInput + SumFunctionOnSet(Column("crossBaseUsed"), Slots)
         /\ Direction = "BuyBase" => SumFunctionOnSet(Column("buyQuote"), Slots) =
              total.aggregateInput + SumFunctionOnSet(Column("crossQuoteUsed"), Slots)
<1>1. TypeOK /\ Residual
  BY DEF IInv
<1>2. Done(4) = Slots
  BY <1>1, FinishedRank, AllDone
<1>3. \A i \in Slots : slot[i].residualContribution = Leftover(i)
  BY <1>1, <1>2 DEF Residual
<1>4. total.aggregateInput = SumFunctionOnSet(Column("residualContribution"), Slots)
  BY <1>1, <1>2 DEF Residual
<1>5. IsFiniteSet(Slots) /\ \A i \in Slots : \A f \in Field : Column(f)[i] = slot[i][f] /\ slot[i][f] \in Nat
  BY <1>1, Typed, ColumnTyped
<1>6. ASSUME Direction = "SellBase"
      PROVE  \A i \in Slots : Column("sellBase")[i] =
               Column("residualContribution")[i] + Column("crossBaseUsed")[i]
  <2> TAKE i \in Slots
  <2>1. slot[i].residualContribution = SafeSub(slot[i].sellBase, slot[i].crossBaseUsed)
    BY <1>3, <1>6 DEF Leftover
  <2>2. slot[i].crossBaseUsed <= slot[i].sellBase
    BY CrossIsWithinContribution
  <2> QED BY <1>5, <2>1, <2>2 DEF SafeSub, Field
<1>7. ASSUME Direction = "BuyBase"
      PROVE  \A i \in Slots : Column("buyQuote")[i] =
               Column("residualContribution")[i] + Column("crossQuoteUsed")[i]
  <2> TAKE i \in Slots
  <2>1. slot[i].residualContribution = SafeSub(slot[i].buyQuote, slot[i].crossQuoteUsed)
    BY <1>3, <1>7 DEF Leftover
  <2>2. slot[i].crossQuoteUsed <= slot[i].buyQuote
    BY CrossIsWithinContribution
  <2> QED BY <1>5, <2>1, <2>2 DEF SafeSub, Field
<1>8. \A i \in Slots : /\ Column("residualContribution")[i] \in Nat
                       /\ Column("crossBaseUsed")[i] \in Nat /\ Column("crossQuoteUsed")[i] \in Nat
  BY <1>5 DEF Field
<1> QED BY <1>4, <1>5, <1>6, <1>7, <1>8, SumAdd

\* The crossed base is given by the sellers but for dust, and so is its price by
\* the buyers.
LEMMA CrossIsPaid ==
  ASSUME IInv, Finished, AmountsFit
  PROVE  /\ total.crossedBase <= SumOf("crossBaseUsed") + SafeSub(SellerCount, 1)
         /\ total.crossedBase <= SumOf("crossBaseOut") + SafeSub(BuyerCount, 1)
         /\ price * SumOf("crossBaseOut") <= Scale * SumOf("crossQuoteUsed")
         /\ price * SumOf("buyDemandBase") <= Scale * SumOf("buyQuote")
<1>1. TypeOK /\ Classification /\ Allocation /\ NoOverflow
  BY NothingOverflows DEF IInv
<1>2. Done(0) = Slots /\ Done(3) = Slots
  BY <1>1, FinishedRank, AllDone
<1>3. /\ IsFiniteSet(Slots) /\ price \in Nat \ {0} /\ Scale \in Nat \ {0}
      /\ \A i \in Slots : \A f \in Field : Column(f)[i] = slot[i][f] /\ slot[i][f] \in Nat
  BY <1>1, Typed, ColumnTyped
<1>4. \A i \in Slots :
        /\ Column("sellBase")[i] \in Nat /\ total.crossedBase * Column("sellBase")[i] < Word
        /\ Column("crossBaseUsed")[i] =
             MulDiv(total.crossedBase, Column("sellBase")[i], total.grossSellSupplyBase)
        /\ Column("buyDemandBase")[i] \in Nat /\ total.crossedBase * Column("buyDemandBase")[i] < Word
        /\ Column("crossBaseOut")[i] =
             MulDiv(total.crossedBase, Column("buyDemandBase")[i], total.grossBuyDemandBase)
  BY <1>1, <1>2, <1>3 DEF Allocation, NoOverflow, Field
<1>5. /\ SumFunctionOnSet(Column("sellBase"), Slots) = total.grossSellSupplyBase
      /\ SumFunctionOnSet(Column("buyDemandBase"), Slots) = total.grossBuyDemandBase
  BY DebtSums DEF Field
<1>6. total.crossedBase <= SumOf("crossBaseUsed") + SafeSub(SellerCount, 1)
  <2>1. total.crossedBase <= SumFunctionOnSet(Column("crossBaseUsed"), Slots)
          + SafeSub(SumFunctionOnSet(Bits(Column("sellBase")), Slots), 1)
    BY <1>1, <1>4, <1>5, CrossedBound, ProportionalDust
  <2> QED BY <2>1, DebtSums DEF Field
<1>7. total.crossedBase <= SumOf("crossBaseOut") + SafeSub(BuyerCount, 1)
  <2>1. total.crossedBase <= SumFunctionOnSet(Column("crossBaseOut"), Slots)
          + SafeSub(SumFunctionOnSet(Bits(Column("buyDemandBase")), Slots), 1)
    BY <1>1, <1>4, <1>5, CrossedBound, ProportionalDust
  <2> QED BY <2>1, DebtSums DEF Field
<1>8. \A i \in Slots :
        /\ Column("crossBaseOut")[i] \in Nat /\ Column("crossQuoteUsed")[i] \in Nat
        /\ price * Column("crossBaseOut")[i] <= Scale * Column("crossQuoteUsed")[i]
  <2> TAKE i \in Slots
  <2> DEFINE o == slot[i].crossBaseOut
             u == slot[i].crossQuoteUsed
  <2>1. u = MulDivCeil(o, price, Scale) /\ o \in Nat /\ u \in Nat /\ o * price + (Scale - 1) < Word
    BY <1>1, <1>2, <1>3 DEF Allocation, NoOverflow, Field
  <2>2. Column("crossBaseOut")[i] = o /\ Column("crossQuoteUsed")[i] = u
    BY <1>3 DEF Field
  <2> HIDE DEF o, u
  <2>3. o * price <= Scale * u
    BY <1>3, <2>1, Ceil
  <2>4. o * price = price * o
    BY <1>3, <2>1
  <2> QED BY <2>1, <2>2, <2>3, <2>4
<1>9. \A i \in Slots :
        /\ Column("buyDemandBase")[i] \in Nat /\ Column("buyQuote")[i] \in Nat
        /\ price * Column("buyDemandBase")[i] <= Scale * Column("buyQuote")[i]
  <2> TAKE i \in Slots
  <2> DEFINE d == slot[i].buyDemandBase
             b == slot[i].buyQuote
  <2>1. d = MulDiv(b, Scale, price) /\ d \in Nat /\ b \in Nat
    BY <1>1, <1>2, <1>3 DEF Classification, Field
  <2>2. Column("buyDemandBase")[i] = d /\ Column("buyQuote")[i] = b
    BY <1>3 DEF Field
  <2> HIDE DEF d, b
  <2>3. price * d <= b * Scale
    BY <1>3, <2>1, Floor
  <2>4. b * Scale = Scale * b
    BY <1>3, <2>1
  <2> QED BY <2>1, <2>2, <2>3, <2>4
<1>10. /\ price * SumFunctionOnSet(Column("crossBaseOut"), Slots)
             <= Scale * SumFunctionOnSet(Column("crossQuoteUsed"), Slots)
       /\ price * SumFunctionOnSet(Column("buyDemandBase"), Slots)
             <= Scale * SumFunctionOnSet(Column("buyQuote"), Slots)
  BY <1>3, <1>8, <1>9, SumBound
<1> QED BY <1>6, <1>7, <1>10, DebtSums DEF Field

\* DebtIsDust, for every list, price and cut whose amounts fit the word: what the
\* flooring of runAllocation leaves the vault short of is less than one unit of
\* base for each seller, and less than its price for each buyer.
THEOREM DebtIsAlwaysDust == Spec => [](AmountsFit => DebtIsDust)
<1>1. ASSUME IInv, AmountsFit, Finished PROVE DebtIsDust
  <2> DEFINE O == SumOf("crossBaseOut")
             q == SumOf("crossQuoteOut")
             A == total.aggregateInput
             C == total.crossedBase
             P == SumOf("crossQuoteUsed")
             U == SumOf("crossBaseUsed")
             S == SumOf("sellBase")
             B == SumOf("buyQuote")
             D == SumOf("buyDemandBase")
             m == SafeSub(SellerCount, 1)
             n == SafeSub(BuyerCount, 1)
  <2>1. /\ O \in Nat /\ q \in Nat /\ A \in Nat /\ C \in Nat /\ P \in Nat /\ U \in Nat /\ S \in Nat
        /\ B \in Nat /\ D \in Nat /\ m \in Nat /\ n \in Nat
    BY <1>1, DebtSums, CrossedBound DEF Field
  <2>2. TypeOK /\ Crossing /\ price \in Nat \ {0} /\ Scale \in Nat \ {0}
    BY <1>1, Typed DEF IInv
  <2>3. O <= C /\ C <= S /\ C <= D /\ q <= total.crossedQuote
    BY <1>1, HandedOut, CrossedBound, DebtSums
  <2>4. C <= U + m /\ C <= O + n /\ price * O <= Scale * P /\ price * D <= Scale * B
    BY <1>1, CrossIsPaid
  <2>5. Direction = "SellBase" => S = A + U
    BY <1>1, LeftoverSum, DebtSums DEF Field
  <2>6. Direction = "BuyBase" => B = A + P
    BY <1>1, LeftoverSum, DebtSums DEF Field
  <2>7. Scale * q <= price * C
    <3>1. total.crossedQuote = MulDiv(C, price, Scale)
      BY <1>1, <2>2, FinishedRank DEF Crossing
    <3>2. Scale * total.crossedQuote <= C * price /\ total.crossedQuote \in Nat
      <4>1. PICK x \in Nat : x = C
        BY <2>1
      <4>2. total.crossedQuote = MulDiv(x, price, Scale)
        BY <3>1, <4>1
      <4>3. MulDiv(x, price, Scale) \in Nat /\ Scale * MulDiv(x, price, Scale) <= x * price
        BY <2>2, Floor
      <4> QED BY <4>1, <4>2, <4>3
    <3> HIDE DEF q, C
    <3>3. Scale * q <= Scale * total.crossedQuote /\ Scale * q \in Nat
          /\ Scale * total.crossedQuote \in Nat
      BY <2>1, <2>2, <2>3, <3>2, TimesMono
    <3>4. C * price = price * C /\ price * C \in Nat
      BY <2>1, <2>2
    <3> QED BY <3>2, <3>3, <3>4
  <2>8. BaseOwed = O + (IF Direction = "SellBase" THEN A ELSE 0)
    BY DEF BaseOwed
  <2>9. QuoteOwed = q + (IF Direction = "BuyBase" THEN A ELSE 0)
    BY DEF QuoteOwed
  <2> HIDE DEF O, q, A, C, P, U, S, B, D, m, n
  <2>10. BaseOwed <= S + m
    BY <2>1, <2>3, <2>4, <2>5, <2>8
  <2>11. Scale * QuoteOwed <= Scale * B + price * n
    <3>0. price * n \in Nat /\ price * C \in Nat /\ Scale * q \in Nat /\ Scale * B \in Nat
      BY <2>1, <2>2
    <3>1. CASE Direction = "BuyBase"
      <4>1. price * C <= price * (O + n) /\ price * (O + n) = price * O + price * n
        BY <2>1, <2>2, <2>4, TimesMono
      <4>2. /\ Scale * QuoteOwed = Scale * q + Scale * A
            /\ Scale * B = Scale * A + Scale * P
        BY <2>1, <2>2, <2>6, <2>9, <3>1
      <4>3. Scale * A \in Nat /\ Scale * P \in Nat /\ price * O \in Nat
        BY <2>1, <2>2
      <4> QED BY <2>4, <2>7, <3>0, <4>1, <4>2, <4>3
    <3>2. CASE Direction # "BuyBase"
      <4>1. price * C <= price * D /\ price * D \in Nat
        BY <2>1, <2>2, <2>3, TimesMono
      <4>2. Scale * QuoteOwed = Scale * q
        BY <2>1, <2>9, <3>2
      <4> QED BY <2>4, <2>7, <3>0, <4>1, <4>2
    <3> QED BY <3>1, <3>2
  <2> QED BY <2>10, <2>11 DEF DebtIsDust, S, B, m, n
<1>2. IInv => (AmountsFit => DebtIsDust)
  BY <1>1 DEF DebtIsDust
<1> QED BY <1>2, StagesAreExact, PTL

-----------------------------------------------------------------------------
(* Private limits. *)

\* In an epoch without direction everything crosses and nothing is left over.
LEMMA NoDirectionNoResidual ==
  ASSUME IInv, Finished, NoOverflow, Direction = "None"
  PROVE  \A i \in Slots : slot[i].residualContribution = 0
<1> TAKE i \in Slots
<1>1. TypeOK /\ Accumulation /\ Crossing /\ Allocation /\ Residual
  BY DEF IInv
<1>2. /\ Done(1) = Slots /\ Done(3) = Slots /\ Done(4) = Slots /\ Rank(stage) >= 3
  BY <1>1, FinishedRank, AllDone
<1> DEFINE s == slot[i].sellBase
           Q == total.grossSellSupplyBase
           C == total.crossedBase
<1>3. s \in Nat /\ Q \in Nat /\ slot[i].crossBaseUsed \in Nat /\ total.grossBuyDemandBase \in Nat
  BY <1>1, Typed DEF Field, Total
<1>4. C = Q
  BY <1>1, <1>2, <1>3 DEF Crossing, Lesser, Direction
<1>5. slot[i].crossBaseUsed = MulDiv(C, s, Q)
  BY <1>1, <1>2 DEF Allocation
<1>6. slot[i].residualContribution = SafeSub(s, slot[i].crossBaseUsed)
  BY <1>1, <1>2 DEF Residual, Leftover
<1>7. C * s < Word
  BY DEF NoOverflow
<1>8. s <= Q
  <2> DEFINE g == Column("sellBase")
  <2>1. IsFiniteSet(Slots) /\ \A j \in Slots : g[j] \in Nat
    BY <1>1, Typed, ColumnTyped DEF Field
  <2>2. g[i] = s /\ Q = SumFunctionOnSet(g, Slots)
    BY <1>1, <1>2 DEF Column, Accumulation
  <2> HIDE DEF g, s, Q
  <2> QED BY <2>1, <2>2, TermOfSum
<1> HIDE DEF s, Q, C
<1>9. MulDiv(Q, s, Q) <= s /\ MulDiv(Q, s, Q) \in Nat
  <2>1. Q <= Q
    BY <1>3
  <2> QED BY <1>3, <2>1, PartOf, Floor
<1>10. s <= MulDiv(Q, s, Q)
  <2>1. CASE Q = 0
    BY <1>3, <1>8, <1>9, <2>1
  <2>2. CASE Q # 0
    <3>1. Q * s < Word /\ Q * s <= Q * s
      BY <1>3, <1>4, <1>7
    <3> QED BY <1>3, <2>2, <3>1, Floor
  <2> QED BY <2>1, <2>2
<1> QED BY <1>3, <1>4, <1>5, <1>6, <1>9, <1>10 DEF SafeSub

\* The venue's output covers the requirement of every contributor.
LEMMA OutputCoversRequirements ==
  ASSUME IInv, stage = "Reconciled", Direction # "None", total.aggregateInput # 0, NEW i \in Slots
  PROVE  Requirement(i) <= output
<1>1. TypeOK /\ Requirements /\ Execution
  BY DEF IInv
<1>2. Rank(stage) = 8 /\ Done(5) = Slots
  BY <1>1, AllDone DEF Rank
<1>3. Floors.residual # "Zero"
  BY DEF Floors
<1>4. output >= total.aggregateMinimum
  BY <1>1, <1>2, <1>3 DEF Execution
<1>5. Requirement(i) <= total.aggregateMinimum
  BY <1>1, <1>2 DEF Requirements
<1>6. Requirement(i) \in Nat /\ output \in Nat /\ total.aggregateMinimum \in Nat
  BY <1>1, RequirementTyped, Typed DEF TypeOK, Total
<1> QED BY <1>4, <1>5, <1>6

\* A contributor gets at least what its own limit asks of its residual.
LEMMA ContributorsLimit ==
  ASSUME IInv, stage = "Reconciled", NoOverflow, NEW i \in Slots
  PROVE  slot[i].externalAllocation >= AtOwnLimit(i, slot[i].residualContribution)
<1>1. TypeOK /\ Classification /\ Residual /\ Shares
  BY DEF IInv
<1>2. Rank(stage) = 8 /\ Finished
  BY DEF Rank, Finished
<1>3. Done(4) = Slots /\ Done(7) = Slots
  BY <1>1, <1>2, AllDone
<1> DEFINE r == slot[i].residualContribution
           A == total.aggregateInput
           l == book[i].limit
<1>4. /\ r \in Nat /\ A \in Nat /\ l \in Nat /\ output \in Nat /\ Scale \in Nat \ {0}
      /\ price \in Nat \ {0} /\ slot[i].buyQuote \in Nat /\ slot[i].sellBase \in Nat
  BY <1>1, Typed DEF Field, Total, TypeOK
<1>5. slot[i].externalAllocation = Share(i) /\ Share(i) \in Nat
  BY <1>1, <1>3, ShareTyped DEF Shares
<1>6. CASE r = 0
  <2>1. 0 * Scale = 0 /\ 0 * l = 0
    BY <1>4
  <2>2. ASSUME NEW a \in Nat, NEW d \in Nat PROVE MulDiv(0, a, d) = 0
    <3>1. MulDiv(0, a, d) <= a /\ MulDiv(0, a, d) \in Nat /\ d * MulDiv(0, a, d) <= 0 * a
      BY PartOf, Floor
    <3>2. CASE d = 0
      BY <3>2 DEF MulDiv
    <3>3. CASE d # 0
      <4> DEFINE q == MulDiv(0, a, d)
      <4>1. q \in Nat /\ d * q <= 0 /\ 0 * a = 0
        BY <3>1
      <4> HIDE DEF q
      <4>2. d * q < d * 0 + d
        BY <3>3, <4>1
      <4>3. q <= 0
        BY <3>3, <4>1, <4>2, Cancel
      <4> QED BY <4>1, <4>3 DEF q
    <3> QED BY <3>2, <3>3
  <2>3. AtOwnLimit(i, r) = 0
    BY <1>4, <1>6, <2>2 DEF AtOwnLimit
  <2> QED BY <1>5, <2>3
<1>7. CASE r # 0
  <2>1. A # 0
    <3> DEFINE g == Column("residualContribution")
    <3>1. IsFiniteSet(Slots) /\ \A j \in Slots : g[j] \in Nat
      BY <1>1, Typed, ColumnTyped DEF Field
    <3>2. g[i] = r /\ A = SumFunctionOnSet(g, Slots)
      BY <1>1, <1>3 DEF Column, Residual
    <3> HIDE DEF g, r, A
    <3>3. r <= A
      BY <3>1, <3>2, TermOfSum
    <3> QED BY <1>4, <1>7, <3>3
  <2>2. Direction \in {"BuyBase", "SellBase"}
    <3>1. Direction # "None"
      BY <1>2, <1>7, NoDirectionNoResidual
    <3> QED BY <3>1 DEF Direction
  <2>3. Requirement(i) <= output
    BY <2>1, <2>2, OutputCoversRequirements
  <2>4. Share(i) = MulDiv(output, r, A) /\ output * r < Word
    BY <2>1 DEF Share, NoOverflow
  <2>5. ASSUME NEW u \in Nat, NEW w \in Nat \ {0}, MulDivCeil(A, u, w) <= output,
               A * u + (w - 1) < Word
        PROVE  MulDiv(r, u, w) <= Share(i)
    <3> DEFINE q == MulDiv(r, u, w)
    <3>1. q \in Nat /\ w * q <= r * u
      BY <1>4, Floor
    <3>2. A * u <= w * MulDivCeil(A, u, w) /\ MulDivCeil(A, u, w) \in Nat
      BY <1>4, <2>5, Ceil
    <3> DEFINE c == MulDivCeil(A, u, w)
    <3>3. A * u <= output * w
      <4>1. c \in Nat /\ c <= output /\ A * u <= w * c
        BY <2>5, <3>2
      <4> HIDE DEF c, A
      <4>2. c * w <= output * w /\ c * w \in Nat /\ output * w \in Nat
        BY <1>4, <4>1, TimesMono
      <4>3. w * c = c * w /\ A * u \in Nat
        BY <1>4, <4>1 DEF A
      <4> QED BY <4>1, <4>2, <4>3
    <3> HIDE DEF q, A, r
    <3>4. A * q <= output * r
      BY <1>4, <2>1, <3>1, <3>3, ShareKeepsLimit
    <3>5. q <= MulDiv(output, r, A)
      BY <1>4, <2>1, <2>4, <3>1, <3>4, Floor
    <3> QED BY <2>4, <3>5 DEF q, r
  <2>6. CASE Direction = "BuyBase"
    <3>1. slot[i].buyQuote > 0
      <4>1. r = SafeSub(slot[i].buyQuote, slot[i].crossQuoteUsed)
        BY <1>1, <1>3, <2>6 DEF Residual, Leftover
      <4>2. slot[i].crossQuoteUsed \in Nat
        BY <1>1, Typed DEF Field
      <4> QED BY <1>4, <1>7, <4>1, <4>2 DEF SafeSub
    <3>2. book[i].action = "Buy" /\ price <= l /\ l # 0
      BY <1>4, <3>1, ContributorsAreEffective
    <3>3. Requirement(i) = MulDivCeil(A, Scale, l)
      BY <1>7, <2>6 DEF Requirement
    <3>4. A * Scale + (l - 1) < Word
      <4>1. A * Scale + l < Word
        BY DEF NoOverflow
      <4>2. A * Scale \in Nat /\ Word \in Nat
        BY <1>4, FixedPointAssumption
      <4> QED BY <1>4, <4>1, <4>2
    <3>5. AtOwnLimit(i, r) = MulDiv(r, Scale, l)
      BY <3>2 DEF AtOwnLimit
    <3>6. MulDiv(r, Scale, l) <= Share(i) /\ MulDiv(r, Scale, l) \in Nat
      BY <1>4, <2>3, <2>5, <3>2, <3>3, <3>4, Floor
    <3> QED BY <1>5, <3>5, <3>6
  <2>7. CASE Direction = "SellBase"
    <3>1. slot[i].sellBase > 0
      <4>1. r = SafeSub(slot[i].sellBase, slot[i].crossBaseUsed)
        BY <1>1, <1>3, <2>7 DEF Residual, Leftover
      <4>2. slot[i].crossBaseUsed \in Nat /\ slot[i].sellBase \in Nat
        BY <1>1, Typed DEF Field
      <4> QED BY <1>4, <1>7, <4>1, <4>2 DEF SafeSub
    <3>2. book[i].action = "Sell"
      BY <3>1, ContributorsAreEffective
    <3>3. Requirement(i) = MulDivCeil(A, l, Scale)
      BY <1>7, <2>7 DEF Requirement
    <3>4. A * l + (Scale - 1) < Word
      <4>1. A * l + Scale < Word
        BY DEF NoOverflow
      <4>2. A * l \in Nat /\ Word \in Nat
        BY <1>4, FixedPointAssumption
      <4> QED BY <1>4, <4>1, <4>2
    <3>5. AtOwnLimit(i, r) = MulDiv(r, l, Scale)
      BY <3>2 DEF AtOwnLimit
    <3>6. MulDiv(r, l, Scale) <= Share(i) /\ MulDiv(r, l, Scale) \in Nat
      BY <1>4, <2>3, <2>5, <3>3, <3>4, Floor
    <3> QED BY <1>5, <3>5, <3>6
  <2> QED BY <2>2, <2>6, <2>7
<1> QED BY <1>6, <1>7

\* LimitsHold, for every list, price and cut of an epoch whose products fit in
\* a word: once it is reconciled, every contributor's share of the venue's
\* output is at least its contribution at its own private limit.
THEOREM LimitsAlwaysHold == Spec => [](AmountsFit => LimitsHold)
<1>1. IInv => (AmountsFit => LimitsHold)
  <2> SUFFICES ASSUME IInv, AmountsFit, stage = "Reconciled", NEW i \in Slots
               PROVE  slot[i].externalAllocation >= AtOwnLimit(i, slot[i].residualContribution)
    BY DEF LimitsHold
  <2>1. NoOverflow
    BY NothingOverflows DEF Finished
  <2> QED BY <2>1, ContributorsLimit
<1> QED BY <1>1, StagesAreExact, PTL

-----------------------------------------------------------------------------
(* The one-shot reference, value by value. *)

All == DOMAIN book
RefLocked(i, action) == IF book[i].action = action THEN book[i].locked ELSE 0
RefBuyQuote == [i \in All |-> IF price <= book[i].limit THEN RefLocked(i, "Buy") ELSE 0]
RefSellBase == [i \in All |-> IF price >= book[i].limit THEN RefLocked(i, "Sell") ELSE 0]
RefSupply == [i \in All |-> RefLocked(i, "Supply")]
RefDemand == [i \in All |-> Reference!MulDivFloorRef(RefBuyQuote[i], Scale, price)]
RefB == Reference!SumFunctionOnSet(RefDemand, All)
RefQ == Reference!SumFunctionOnSet(RefSellBase, All)
RefCrossed == IF RefB <= RefQ THEN RefB ELSE RefQ
RefCrossedQuote == Reference!MulDivFloorRef(RefCrossed, price, Scale)
RefBaseOut == [i \in All |-> Reference!MulDivFloorRef(RefCrossed, RefDemand[i], RefB)]
RefBaseUsed == [i \in All |-> Reference!MulDivFloorRef(RefCrossed, RefSellBase[i], RefQ)]
RefQuoteOut == [i \in All |-> Reference!MulDivFloorRef(RefCrossedQuote, RefSellBase[i], RefQ)]
RefQuoteUsed == [i \in All |-> Reference!MulDivCeilRef(RefBaseOut[i], price, Scale)]
RefResidual ==
  [i \in All |-> IF RefB > RefQ THEN Reference!SafeSubRef(RefBuyQuote[i], RefQuoteUsed[i])
                 ELSE IF RefQ > RefB THEN Reference!SafeSubRef(RefSellBase[i], RefBaseUsed[i]) ELSE 0]
RefAggregate == Reference!SumFunctionOnSet(RefResidual, All)
RefRequired ==
  [i \in All |-> IF RefResidual[i] = 0 THEN 0
                 ELSE IF RefB > RefQ THEN Reference!MulDivCeilRef(RefAggregate, Scale, book[i].limit)
                 ELSE Reference!MulDivCeilRef(RefAggregate, book[i].limit, Scale)]
RefEffective == [i \in All |-> RefBuyQuote[i] + RefSellBase[i] + RefSupply[i]]
RefCount(f) == Reference!SumFunctionOnSet([i \in All |-> IF f[i] > 0 THEN 1 ELSE 0], All)
RefDirection == IF RefB > RefQ THEN "BuyBase" ELSE IF RefQ > RefB THEN "SellBase" ELSE "None"
Ref == Reference!ClearEpoch(book, price)

\* The reference's copy of the community sum is that sum.
LEMMA SameSum ==
  ASSUME NEW f, NEW S
  PROVE  Reference!SumFunctionOnSet(f, S) = SumFunctionOnSet(f, S)
BY DEF SumFunctionOnSet, FoldFunctionOnSet, MapThenFoldSet, Reference!SumFunctionOnSet,
       Reference!FoldFunctionOnSet, Reference!MapThenFoldSet

\* The reference outcome, field by field.
LEMMA RefIs ==
  Ref = [grossBuyDemandBase |-> RefB, grossSellSupplyBase |-> RefQ,
   grossSupplyQuote |-> Reference!SumFunctionOnSet(RefSupply, All), effectiveCount |-> RefCount(RefEffective),
   crossedBase |-> RefCrossed, crossedQuote |-> RefCrossedQuote,
   direction |-> RefDirection,
   aggregateInput |-> RefAggregate, aggregateMinimum |-> Reference!MaxOfFunction(RefRequired),
   contributorCount |-> RefCount(RefResidual),
   crossBaseOut |-> RefBaseOut, crossQuoteUsed |-> RefQuoteUsed,
   crossBaseUsed |-> RefBaseUsed, crossQuoteOut |-> RefQuoteOut,
   residualContribution |-> RefResidual, requiredVenueTotal |-> RefRequired]
BY DEF Ref, Reference!ClearEpoch, All, RefLocked, RefBuyQuote, RefSellBase, RefSupply, RefDemand,
  RefB, RefQ, RefCrossed, RefCrossedQuote, RefBaseOut, RefBaseUsed, RefQuoteOut, RefQuoteUsed,
  RefResidual, RefAggregate, RefRequired, RefEffective, RefCount, RefDirection

\* The reference's quotients are the engine's while nothing overflows: rounded down,
LEMMA FloorRefIs ==
  ASSUME NEW a \in Nat, NEW b \in Nat, NEW d \in Nat, a * b < Word
  PROVE  Reference!MulDivFloorRef(a, b, d) = MulDiv(a, b, d)
<1>1. a * b \in Nat /\ Word \in Nat
  BY FixedPointAssumption
<1> QED BY <1>1 DEF MulDiv, Reference!MulDivFloorRef

\* and rounded up.
LEMMA CeilRefIs ==
  ASSUME NEW a \in Nat, NEW b \in Nat, NEW d \in Nat, a * b + (d - 1) < Word
  PROVE  Reference!MulDivCeilRef(a, b, d) = MulDivCeil(a, b, d)
<1>1. a * b \in Nat /\ Word \in Nat
  BY FixedPointAssumption
<1>2. CASE d = 0
  BY <1>2 DEF MulDivCeil, Reference!MulDivCeilRef
<1>3. CASE d # 0
  <2> DEFINE m == a * b
  <2>1. m + d - 1 = m + (d - 1) /\ ~(m + (d - 1) >= Word)
    BY <1>1
  <2> HIDE DEF m
  <2> QED BY <1>3, <2>1 DEF MulDivCeil, Reference!MulDivCeilRef, m
<1> QED BY <1>2, <1>3

\* The candidates' contributions and the gross totals.
LEMMA RefContributions ==
  ASSUME IInv, Finished, NoOverflow
  PROVE  /\ All = Slots
         /\ \A i \in Slots :
              /\ RefBuyQuote[i] = slot[i].buyQuote /\ RefSellBase[i] = slot[i].sellBase
              /\ RefSupply[i] = slot[i].supplyQuote /\ RefDemand[i] = slot[i].buyDemandBase
         /\ RefB = total.grossBuyDemandBase /\ RefQ = total.grossSellSupplyBase
         /\ Reference!SumFunctionOnSet(RefSupply, All) = total.grossSupplyQuote
         /\ RefCount(RefEffective) = total.effectiveCount
         /\ RefCrossed = total.crossedBase /\ RefCrossedQuote = total.crossedQuote
         /\ RefDirection = Direction
<1>1. TypeOK /\ Classification /\ Accumulation /\ Crossing
  BY DEF IInv
<1>2. Done(0) = Slots /\ Done(1) = Slots /\ Rank(stage) >= 3
  BY <1>1, FinishedRank, AllDone
<1>3. All = Slots
  <2>1. book \in Seq(Order)
    BY <1>1, ArithmeticAssumption DEF TypeOK
  <2> QED BY <2>1 DEF All, Slots, Count
<1>4. IsFiniteSet(Slots) /\ price \in Nat \ {0} /\ Scale \in Nat \ {0}
  BY <1>1, Typed
<1>5. \A i \in Slots :
        /\ RefBuyQuote[i] = slot[i].buyQuote /\ RefSellBase[i] = slot[i].sellBase
        /\ RefSupply[i] = slot[i].supplyQuote
  BY <1>1, <1>2, <1>3 DEF Classification, RefBuyQuote, RefSellBase, RefSupply, RefLocked,
       BuyQuote, SellBase, SupplyQuote, OrderAmount
<1>6. \A i \in Slots : RefDemand[i] = slot[i].buyDemandBase
  <2> TAKE i \in Slots
  <2> DEFINE b == slot[i].buyQuote
  <2>1. b \in Nat /\ b * Scale < Word
    BY <1>1, Typed DEF Field, NoOverflow
  <2>2. RefDemand[i] = Reference!MulDivFloorRef(b, Scale, price)
    BY <1>3, <1>5 DEF RefDemand
  <2>3. slot[i].buyDemandBase = MulDiv(b, Scale, price)
    BY <1>1, <1>2 DEF Classification
  <2> HIDE DEF b
  <2> QED BY <1>4, <2>1, <2>2, <2>3, FloorRefIs
<1>7. \A i \in Slots : /\ RefDemand[i] = Column("buyDemandBase")[i]
                       /\ RefSellBase[i] = Column("sellBase")[i]
                       /\ RefSupply[i] = Column("supplyQuote")[i]
  BY <1>5, <1>6 DEF Column
<1>8. /\ RefB = total.grossBuyDemandBase /\ RefQ = total.grossSellSupplyBase
      /\ Reference!SumFunctionOnSet(RefSupply, All) = total.grossSupplyQuote
  <2>1. /\ SumFunctionOnSet(RefDemand, Slots) = SumFunctionOnSet(Column("buyDemandBase"), Slots)
        /\ SumFunctionOnSet(RefSellBase, Slots) = SumFunctionOnSet(Column("sellBase"), Slots)
        /\ SumFunctionOnSet(RefSupply, Slots) = SumFunctionOnSet(Column("supplyQuote"), Slots)
    BY <1>4, <1>7, SumCongruence
  <2> QED BY <1>1, <1>2, <1>3, <2>1, SameSum DEF Accumulation, RefB, RefQ
<1>9. RefCount(RefEffective) = total.effectiveCount
  <2> DEFINE g == [i \in All |-> IF RefEffective[i] > 0 THEN 1 ELSE 0]
  <2>1. \A i \in Slots : g[i] = Bits(Contributions)[i]
    <3> TAKE i \in Slots
    <3>1. RefEffective[i] = Contribution(i)
      BY <1>3, <1>5 DEF RefEffective, Contribution
    <3> QED BY <1>3, <3>1 DEF Bits, Contributions
  <2>2. RefCount(RefEffective) = SumFunctionOnSet(g, Slots)
    BY <1>3, SameSum DEF RefCount
  <2> HIDE DEF g
  <2>3. SumFunctionOnSet(g, Slots) = SumFunctionOnSet(Bits(Contributions), Slots)
    BY <1>4, <2>1, SumCongruence
  <2> QED BY <1>1, <1>2, <2>2, <2>3 DEF Accumulation
<1>10. RefCrossed = total.crossedBase
  BY <1>1, <1>2, <1>8 DEF RefCrossed, Crossing, Lesser
<1>11. RefCrossedQuote = total.crossedQuote
  <2>1. total.crossedQuote = MulDiv(total.crossedBase, price, Scale)
    BY <1>1, <1>2 DEF Crossing
  <2>2. total.crossedBase \in Nat /\ total.crossedBase * price < Word
    BY CrossedBound DEF NoOverflow
  <2> QED BY <1>4, <1>10, <2>1, <2>2, FloorRefIs DEF RefCrossedQuote
<1>12. RefDirection = Direction
  <2>1. RefB \in Nat /\ RefQ \in Nat
    BY <1>8, CrossedBound
  <2> QED BY <1>8, <2>1 DEF RefDirection, Direction
<1> QED BY <1>3, <1>5, <1>6, <1>8, <1>9, <1>10, <1>11, <1>12

\* What each candidate gives to and gets from the cross.
LEMMA RefAllocation ==
  ASSUME IInv, Finished, NoOverflow, NEW i \in Slots
  PROVE  /\ RefBaseOut[i] = slot[i].crossBaseOut /\ RefQuoteUsed[i] = slot[i].crossQuoteUsed
         /\ RefBaseUsed[i] = slot[i].crossBaseUsed /\ RefQuoteOut[i] = slot[i].crossQuoteOut
<1>1. TypeOK /\ Allocation
  BY DEF IInv
<1>2. Done(3) = Slots
  BY <1>1, FinishedRank, AllDone
<1> DEFINE d == slot[i].buyDemandBase
           s == slot[i].sellBase
           o == slot[i].crossBaseOut
           B == total.grossBuyDemandBase
           Q == total.grossSellSupplyBase
           C == total.crossedBase
           q == total.crossedQuote
<1>3. /\ price \in Nat \ {0} /\ Scale \in Nat \ {0} /\ d \in Nat /\ s \in Nat /\ o \in Nat
      /\ B \in Nat /\ Q \in Nat /\ C \in Nat /\ q \in Nat
  BY <1>1, Typed, CrossedBound DEF Field
<1>4. C * d < Word /\ C * s < Word /\ q * s < Word /\ o * price + (Scale - 1) < Word
  BY DEF NoOverflow
<1>5. /\ o = MulDiv(C, d, B) /\ slot[i].crossQuoteUsed = MulDivCeil(o, price, Scale)
      /\ slot[i].crossBaseUsed = MulDiv(C, s, Q) /\ slot[i].crossQuoteOut = MulDiv(q, s, Q)
  BY <1>1, <1>2 DEF Allocation
<1>6. /\ RefBaseOut[i] = Reference!MulDivFloorRef(C, d, B)
      /\ RefBaseUsed[i] = Reference!MulDivFloorRef(C, s, Q)
      /\ RefQuoteOut[i] = Reference!MulDivFloorRef(q, s, Q)
      /\ RefQuoteUsed[i] = Reference!MulDivCeilRef(RefBaseOut[i], price, Scale)
  BY RefContributions DEF RefBaseOut, RefBaseUsed, RefQuoteOut, RefQuoteUsed
<1> HIDE DEF d, s, o, B, Q, C, q
<1>7. RefBaseOut[i] = o
  BY <1>3, <1>4, <1>5, <1>6, FloorRefIs
<1>8. RefBaseUsed[i] = slot[i].crossBaseUsed /\ RefQuoteOut[i] = slot[i].crossQuoteOut
  BY <1>3, <1>4, <1>5, <1>6, FloorRefIs
<1>9. RefQuoteUsed[i] = slot[i].crossQuoteUsed
  BY <1>3, <1>4, <1>5, <1>6, <1>7, CeilRefIs
<1> QED BY <1>7, <1>8, <1>9 DEF o

\* What is left over, and what is required of the venue for it.
LEMMA RefResiduals ==
  ASSUME IInv, Finished, NoOverflow
  PROVE  /\ \A i \in Slots : /\ RefResidual[i] = slot[i].residualContribution
                             /\ RefRequired[i] = slot[i].requiredVenueTotal
         /\ RefAggregate = total.aggregateInput
         /\ RefCount(RefResidual) = total.contributorCount
         /\ Reference!MaxOfFunction(RefRequired) = total.aggregateMinimum
<1>1. TypeOK /\ Residual /\ Requirements
  BY DEF IInv
<1>2. Done(4) = Slots /\ Done(5) = Slots
  BY <1>1, FinishedRank, AllDone
<1>3. IsFiniteSet(Slots) /\ Scale \in Nat \ {0} /\ total.aggregateInput \in Nat /\ All = Slots
      /\ total.aggregateMinimum \in Nat
  BY <1>1, Typed, RefContributions DEF Total
<1>4. RefB \in Nat /\ RefQ \in Nat
  BY RefContributions, CrossedBound
<1>5. \A i \in Slots : RefResidual[i] = slot[i].residualContribution
  <2> TAKE i \in Slots
  <2>1. slot[i].residualContribution = Leftover(i)
    BY <1>1, <1>2 DEF Residual
  <2>2. /\ slot[i].buyQuote \in Nat /\ slot[i].crossQuoteUsed \in Nat
        /\ slot[i].sellBase \in Nat /\ slot[i].crossBaseUsed \in Nat
    BY <1>1, Typed DEF Field
  <2>3. RefResidual[i] =
          IF RefB > RefQ THEN Reference!SafeSubRef(slot[i].buyQuote, slot[i].crossQuoteUsed)
          ELSE IF RefQ > RefB THEN Reference!SafeSubRef(slot[i].sellBase, slot[i].crossBaseUsed) ELSE 0
    BY <1>3, RefContributions, RefAllocation DEF RefResidual
  <2>4. CASE RefB > RefQ
    <3>1. Direction = "BuyBase"
      BY <2>4, RefContributions DEF RefDirection
    <3> QED BY <2>1, <2>2, <2>3, <2>4, <3>1 DEF Leftover, SafeSub, Reference!SafeSubRef
  <2>5. CASE RefQ > RefB
    <3>1. Direction = "SellBase"
      BY <1>4, <2>5, RefContributions DEF RefDirection
    <3> QED BY <1>4, <2>1, <2>2, <2>3, <2>5, <3>1 DEF Leftover, SafeSub, Reference!SafeSubRef
  <2>6. CASE ~(RefB > RefQ) /\ ~(RefQ > RefB)
    <3>1. Direction = "None"
      BY <2>6, RefContributions DEF RefDirection
    <3>2. slot[i].residualContribution = 0
      BY <3>1, NoDirectionNoResidual
    <3> QED BY <2>3, <2>6, <3>2
  <2> QED BY <2>4, <2>5, <2>6
<1> DEFINE h == Column("residualContribution")
<1>6. \A i \in Slots : h[i] = slot[i].residualContribution /\ h[i] \in Nat
  BY <1>1, ColumnTyped DEF Field
<1>7. /\ total.aggregateInput = SumFunctionOnSet(h, Slots)
      /\ total.contributorCount = SumFunctionOnSet(Bits(h), Slots)
  BY <1>1, <1>2 DEF Residual
<1> HIDE DEF h
<1>8. RefAggregate = total.aggregateInput
  <2>1. \A i \in Slots : RefResidual[i] = h[i]
    BY <1>5, <1>6
  <2>2. SumFunctionOnSet(RefResidual, Slots) = SumFunctionOnSet(h, Slots)
    BY <1>3, <2>1, SumCongruence
  <2> QED BY <1>3, <1>7, <2>2, SameSum DEF RefAggregate
<1>9. RefCount(RefResidual) = total.contributorCount
  <2> DEFINE g == [i \in All |-> IF RefResidual[i] > 0 THEN 1 ELSE 0]
  <2>1. \A i \in Slots : g[i] = Bits(h)[i]
    BY <1>3, <1>5, <1>6 DEF Bits
  <2>2. RefCount(RefResidual) = SumFunctionOnSet(g, Slots)
    BY <1>3, SameSum DEF RefCount
  <2> HIDE DEF g
  <2>3. SumFunctionOnSet(g, Slots) = SumFunctionOnSet(Bits(h), Slots)
    BY <1>3, <2>1, SumCongruence
  <2> QED BY <1>7, <2>2, <2>3
<1>10. \A i \in Slots : RefRequired[i] = slot[i].requiredVenueTotal
  <2> TAKE i \in Slots
  <2> DEFINE A == total.aggregateInput
             l == book[i].limit
  <2>1. A \in Nat /\ l \in Nat /\ A * Scale + l < Word /\ A * l + Scale < Word
    BY <1>1, <1>3, Typed DEF NoOverflow
  <2>2. slot[i].requiredVenueTotal = Requirement(i)
    BY <1>1, <1>2 DEF Requirements
  <2>3. RefRequired[i] =
          IF RefResidual[i] = 0 THEN 0
          ELSE IF RefB > RefQ THEN Reference!MulDivCeilRef(A, Scale, l)
          ELSE Reference!MulDivCeilRef(A, l, Scale)
    BY <1>3, <1>8 DEF RefRequired
  <2>4. Requirement(i) =
          IF RefResidual[i] = 0 THEN 0
          ELSE IF Direction = "BuyBase" THEN MulDivCeil(A, Scale, l) ELSE MulDivCeil(A, l, Scale)
    BY <1>5 DEF Requirement
  <2>5. Direction = "BuyBase" <=> RefB > RefQ
    BY RefContributions DEF RefDirection
  <2> HIDE DEF A, l
  <2>6. A * Scale + (l - 1) < Word /\ A * l + (Scale - 1) < Word
    <3>1. A * Scale \in Nat /\ A * l \in Nat /\ Word \in Nat
      BY <1>3, <2>1, FixedPointAssumption
    <3> QED BY <1>3, <2>1, <3>1
  <2>7. /\ Reference!MulDivCeilRef(A, Scale, l) = MulDivCeil(A, Scale, l)
        /\ Reference!MulDivCeilRef(A, l, Scale) = MulDivCeil(A, l, Scale)
    BY <1>3, <2>1, <2>6, CeilRefIs
  <2> QED BY <2>2, <2>3, <2>4, <2>5, <2>7
<1>11. Reference!MaxOfFunction(RefRequired) = total.aggregateMinimum
  <2> DEFINE m == total.aggregateMinimum
             V == {0} \cup {RefRequired[i] : i \in DOMAIN RefRequired}
             Top(x) == x \in V /\ \A i \in DOMAIN RefRequired : RefRequired[i] <= x
             c == CHOOSE x \in V : \A i \in DOMAIN RefRequired : RefRequired[i] <= x
  <2>1. DOMAIN RefRequired = Slots
    BY <1>3 DEF RefRequired
  <2>2. \A i \in Slots : RefRequired[i] = Requirement(i) /\ Requirement(i) \in Nat
    BY <1>1, <1>2, <1>10, RequirementTyped DEF Requirements
  <2>3. Top(m)
    BY <1>1, <1>2, <2>1, <2>2 DEF Requirements
  <2>4. V \subseteq Nat
    BY <2>1, <2>2
  <2>5. Top(c)
    BY <2>3
  <2>6. ASSUME NEW x, NEW y, Top(x), Top(y) PROVE x <= y
    <3>1. x \in Nat /\ y \in Nat
      BY <2>4, <2>6
    <3> QED BY <2>6, <3>1
  <2>7. c <= m /\ m <= c
    BY <2>3, <2>5, <2>6
  <2>8. c \in Nat /\ m \in Nat
    BY <2>3, <2>4, <2>5
  <2>9. Reference!MaxOfFunction(RefRequired) = c
    BY DEF Reference!MaxOfFunction
  <2> HIDE DEF c, m
  <2> QED BY <2>7, <2>8, <2>9 DEF m
<1> QED BY <1>5, <1>8, <1>9, <1>10, <1>11

\* The shares of the venue's output.
LEMMA RefShares ==
  ASSUME IInv, stage = "Reconciled", NoOverflow, NEW i \in Slots
  PROVE  slot[i].externalAllocation = Reference!AllocateExternalOutput(Ref, output)[i]
<1>1. TypeOK /\ Residual /\ Shares
  BY DEF IInv
<1>2. Finished /\ Rank(stage) = 8 /\ Done(7) = Slots /\ Done(4) = Slots
  BY <1>1, AllDone DEF Finished, Rank
<1> DEFINE r == slot[i].residualContribution
           A == total.aggregateInput
<1>3. /\ Ref.residualContribution = RefResidual /\ Ref.aggregateInput = A
      /\ DOMAIN RefResidual = Slots /\ RefResidual[i] = r
  BY <1>2, RefIs, RefResiduals, RefContributions DEF RefResidual
<1>4. Reference!AllocateExternalOutput(Ref, output)[i] = Reference!MulDivFloorRef(output, r, A)
  BY <1>3 DEF Reference!AllocateExternalOutput
<1>5. slot[i].externalAllocation = MulDiv(output, r, IF A = 0 THEN 1 ELSE A)
  BY <1>1, <1>2 DEF Shares, Share
<1>6. output \in Nat /\ r \in Nat /\ A \in Nat /\ output * r < Word
  BY <1>1, Typed DEF TypeOK, Field, Total, NoOverflow
<1>7. A = 0 => r = 0
  <2> DEFINE g == Column("residualContribution")
  <2>1. IsFiniteSet(Slots) /\ \A j \in Slots : g[j] \in Nat
    BY <1>1, Typed, ColumnTyped DEF Field
  <2>2. g[i] = r /\ A = SumFunctionOnSet(g, Slots)
    BY <1>1, <1>2 DEF Column, Residual
  <2> HIDE DEF g
  <2>3. r <= A
    BY <2>1, <2>2, TermOfSum
  <2> QED BY <1>6, <2>3
<1> HIDE DEF r, A
<1>8. CASE A = 0
  <2>1. Reference!MulDivFloorRef(output, r, A) = 0
    BY <1>8 DEF Reference!MulDivFloorRef
  <2>2. 1 * MulDiv(output, 0, 1) <= output * 0 /\ MulDiv(output, 0, 1) \in Nat
    BY <1>6, Floor
  <2>3. MulDiv(output, 0, 1) = 0
    BY <1>6, <2>2
  <2> QED BY <1>4, <1>5, <1>7, <1>8, <2>1, <2>3
<1>9. CASE A # 0
  BY <1>4, <1>5, <1>6, <1>9, FloorRefIs
<1> QED BY <1>8, <1>9

\* The reference's own check, of the epoch it is compared with.
LEMMA RefConserves ==
  ASSUME IInv, Finished, NoOverflow
  PROVE  Reference!CheckConservation(Ref, [i \in Slots |-> slot[i].buyQuote],
                                     [i \in Slots |-> slot[i].sellBase])
<1> DEFINE buy == [i \in Slots |-> slot[i].buyQuote]
           sell == [i \in Slots |-> slot[i].sellBase]
<1>1. TypeOK /\ Residual /\ Crossing
  BY DEF IInv
<1>2. IsFiniteSet(Slots) /\ Done(4) = Slots /\ Rank(stage) >= 3
  BY <1>1, Typed, FinishedRank, AllDone
<1>3. /\ Ref.crossedBase = total.crossedBase /\ Ref.crossedQuote = total.crossedQuote
      /\ Ref.grossBuyDemandBase = total.grossBuyDemandBase
      /\ Ref.grossSellSupplyBase = total.grossSellSupplyBase
      /\ Ref.direction = Direction /\ Ref.aggregateInput = total.aggregateInput
      /\ Ref.crossBaseOut = RefBaseOut /\ Ref.crossQuoteOut = RefQuoteOut
      /\ Ref.crossQuoteUsed = RefQuoteUsed /\ Ref.crossBaseUsed = RefBaseUsed
  BY RefIs, RefContributions, RefResiduals
<1>4. /\ Reference!SumFunctionOnSet(RefBaseOut, Slots) <= total.crossedBase
      /\ Reference!SumFunctionOnSet(RefQuoteOut, Slots) <= total.crossedQuote
  <2>1. \A i \in Slots : /\ RefBaseOut[i] = Column("crossBaseOut")[i]
                         /\ RefQuoteOut[i] = Column("crossQuoteOut")[i]
    BY RefAllocation DEF Column
  <2>2. /\ SumFunctionOnSet(RefBaseOut, Slots) = SumFunctionOnSet(Column("crossBaseOut"), Slots)
        /\ SumFunctionOnSet(RefQuoteOut, Slots) = SumFunctionOnSet(Column("crossQuoteOut"), Slots)
    BY <1>2, <2>1, SumCongruence
  <2>3. /\ SumOf("crossBaseOut") = SumFunctionOnSet(Column("crossBaseOut"), Slots)
        /\ SumOf("crossQuoteOut") = SumFunctionOnSet(Column("crossQuoteOut"), Slots)
    BY <1>1, ColumnSum DEF Field
  <2> QED BY <2>2, <2>3, HandedOut, SameSum
<1>5. \A i \in Slots : RefQuoteUsed[i] <= buy[i] /\ RefBaseUsed[i] <= sell[i]
  BY RefAllocation, CrossIsWithinContribution
<1>6. Direction = "None" => total.aggregateInput = 0
  <2> SUFFICES ASSUME Direction = "None" PROVE total.aggregateInput = 0
    OBVIOUS
  <2> DEFINE g == Column("residualContribution")
  <2>1. \A j \in Slots : g[j] = 0
    BY NoDirectionNoResidual DEF Column
  <2>2. total.aggregateInput = SumFunctionOnSet(g, Slots)
    BY <1>1, <1>2 DEF Residual
  <2> HIDE DEF g
  <2> QED BY <1>2, <2>1, <2>2, SumZero
<1>7. Direction = "BuyBase" => total.grossBuyDemandBase > total.crossedBase
  BY <1>1, <1>2, CrossedBound DEF Crossing, Lesser, Direction
<1>8. DOMAIN buy = Slots
  OBVIOUS
<1> HIDE DEF buy, sell
<1>9. Reference!CheckConservation(Ref, buy, sell)
  BY <1>3, <1>4, <1>5, <1>6, <1>7, <1>8, CrossedBound DEF Reference!CheckConservation
<1> QED BY <1>9 DEF buy, sell

\* MatchesReference, for every list, price and cut of an epoch whose products
\* fit in a word: the staged and batched computation publishes, and reconciles
\* to, exactly what the one-shot reference of clearing-math computes.
THEOREM AlwaysMatchesReference == Spec => [](AmountsFit => MatchesReference)
<1>1. ASSUME IInv, AmountsFit, Finished PROVE MatchesReference
  <2>1. NoOverflow
    BY <1>1, NothingOverflows
  <2>2. Direction = Ref.direction
    BY <1>1, <2>1, RefIs, RefContributions
  <2>3. \A t \in Total \ {"supplyContributorCount"} : total[t] = Ref[t]
    <3>1. /\ total.grossBuyDemandBase = Ref.grossBuyDemandBase
          /\ total.grossSellSupplyBase = Ref.grossSellSupplyBase
          /\ total.grossSupplyQuote = Ref.grossSupplyQuote
          /\ total.effectiveCount = Ref.effectiveCount
          /\ total.crossedBase = Ref.crossedBase /\ total.crossedQuote = Ref.crossedQuote
      BY <1>1, <2>1, RefIs, RefContributions
    <3>2. /\ total.aggregateInput = Ref.aggregateInput
          /\ total.contributorCount = Ref.contributorCount
          /\ total.aggregateMinimum = Ref.aggregateMinimum
      BY <1>1, <2>1, RefIs, RefResiduals
    <3> HIDE DEF Ref
    <3> QED BY <3>1, <3>2 DEF Total
  <2>4. ASSUME NEW i \in Slots
        PROVE  /\ slot[i].crossBaseOut = Ref.crossBaseOut[i]
               /\ slot[i].crossQuoteUsed = Ref.crossQuoteUsed[i]
               /\ slot[i].crossBaseUsed = Ref.crossBaseUsed[i]
               /\ slot[i].crossQuoteOut = Ref.crossQuoteOut[i]
               /\ slot[i].residualContribution = Ref.residualContribution[i]
               /\ slot[i].requiredVenueTotal = Ref.requiredVenueTotal[i]
    BY <1>1, <2>1, RefIs, RefAllocation, RefResiduals
  <2>5. \A i \in Slots : \A f \in {"crossBaseOut", "crossQuoteUsed", "crossBaseUsed",
          "crossQuoteOut", "residualContribution", "requiredVenueTotal"} : slot[i][f] = Ref[f][i]
    BY <2>4
  <2>6. stage = "Reconciled" => \A i \in Slots :
          slot[i].externalAllocation = Reference!AllocateExternalOutput(Ref, output)[i]
    BY <1>1, <2>1, RefShares
  <2>7. Reference!CheckConservation(Ref, [i \in Slots |-> slot[i].buyQuote],
                                    [i \in Slots |-> slot[i].sellBase])
    BY <1>1, <2>1, RefConserves
  <2>8. MatchesReference <=> (Finished =>
          /\ Direction = Ref.direction
          /\ \A t \in Total \ {"supplyContributorCount"} : total[t] = Ref[t]
          /\ \A i \in Slots : \A f \in {"crossBaseOut", "crossQuoteUsed", "crossBaseUsed",
                "crossQuoteOut", "residualContribution", "requiredVenueTotal"} :
               slot[i][f] = Ref[f][i]
          /\ stage = "Reconciled" => \A i \in Slots :
               slot[i].externalAllocation = Reference!AllocateExternalOutput(Ref, output)[i]
          /\ Reference!CheckConservation(Ref, [i \in Slots |-> slot[i].buyQuote],
                                         [i \in Slots |-> slot[i].sellBase]))
    BY DEF MatchesReference, Ref
  <2> QED BY <2>2, <2>3, <2>5, <2>6, <2>7, <2>8
<1>2. ~Finished => MatchesReference
  BY DEF MatchesReference
<1>3. IInv => (AmountsFit => MatchesReference)
  BY <1>1, <1>2
<1> QED BY <1>3, StagesAreExact, PTL
================================================================================
