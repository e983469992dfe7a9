---------------------------- MODULE SumTheorems ----------------------------
(***************************************************************************)
(* What a sum over a finite set is, for every set: SumOver folds over the  *)
(* set in an order of its own choosing, and the lemmas show that the order *)
(* does not matter.  The theorems on balances and refunds rest on them.    *)
(*                                                                         *)
(* Inductions are over sets of numbers and sets of subsets, so that no     *)
(* step instantiates an operator.                                          *)
(***************************************************************************)
EXTENDS Sums, FiniteSetTheorems, WellFoundedInduction, TLAPS

\* the time that the provers have for a step
USE SMTT(40), ZenonT(40)

\* a set of natural numbers has a least one
LEMMA LeastNat ==
  ASSUME NEW T \in SUBSET Nat, T # {}
  PROVE  \E n \in T : \A m \in T : n <= m
<1> DEFINE R == OpToRel(<, Nat)
<1>1. R = {ss \in Nat \X Nat : ss[1] < ss[2]}
  BY DEF OpToRel
<1>2. IsWellFoundedOn(R, Nat)
  BY NatLessThanWellFounded, ZenonT(40)
<1> HIDE DEF R
<1>3. PICK x \in T : \A y \in T : ~(<<y, x>> \in R)
  BY <1>2, WFMin, ZenonT(40)
<1>4. \A y \in T : ~(y < x)
  BY <1>1, <1>3, ZenonT(40)
<1> QED
  BY <1>4

\* a set with 0 and every successor of its elements has all natural numbers
LEMMA NatSetInduction ==
  ASSUME NEW T \in SUBSET Nat, 0 \in T, \A n \in T : n + 1 \in T
  PROVE  T = Nat
<1>1. SUFFICES ASSUME Nat \ T # {} PROVE FALSE
  BY ZenonT(40)
<1>2. PICK n \in Nat \ T : \A m \in Nat \ T : n <= m
  BY <1>1, LeastNat, ZenonT(40)
<1>3. n - 1 \in T
  BY <1>2
<1> QED
  BY <1>2, <1>3

\* a family of subsets of a finite set that has every set whose proper subsets it has,
\* has them all
LEMMA SubsetInduction ==
  ASSUME NEW S, IsFiniteSet(S), NEW P \in SUBSET (SUBSET S),
         \A s \in SUBSET S : (\A u \in SUBSET s : u # s => u \in P) => s \in P
  PROVE  P = SUBSET S
<1> DEFINE R == StrictSubsetOrdering(S)
           C == (SUBSET S) \ P
<1>1. R = {ss \in (SUBSET S) \X (SUBSET S) : ss[1] \subseteq ss[2] /\ ss[1] # ss[2]}
  BY DEF StrictSubsetOrdering
<1>2. IsWellFoundedOn(R, SUBSET S)
  BY FS_StrictSubsetOrderingWellFounded, FS_FiniteSubsetsOfFinite, ZenonT(40)
<1> HIDE DEF R
<1>3. SUFFICES ASSUME C # {} PROVE FALSE
  OBVIOUS
<1>4. PICK s \in C : \A u \in C : ~(<<u, s>> \in R)
  <2> HIDE DEF C
  <2>1. C \subseteq SUBSET S
    BY DEF C
  <2> QED
    BY <1>2, <1>3, <2>1, WFMin
<1>5. \A u \in SUBSET s : u # s => u \in P
  BY <1>1, <1>4, ZenonT(40)
<1> QED
  BY <1>4, <1>5

\* the element that a sum takes out of a set next
Pick(s) == CHOOSE x \in s : TRUE

\* the sum over s, from the sums g over smaller sets
Steps(f, g, s) == IF s = {} THEN 0 ELSE f[Pick(s)] + g[s \ {Pick(s)}]

\* SumOver is the function that SumOver iterates, at the whole set
LEMMA SumOverDef ==
  ASSUME NEW f, NEW S
  PROVE  SumOver(f, S) = (CHOOSE g : g = [s \in SUBSET S |-> Steps(f, g, s)])[S]
BY DEF SumOver, MapThenSumSet, MapThenFoldSet, Steps, Pick

\* a set that is not empty has the element that is taken out of it
LEMMA PickIn == ASSUME NEW s, s # {} PROVE Pick(s) \in s
BY DEF Pick

\* there is a function that satisfies the recursion of SumOver
LEMMA SumExists ==
  ASSUME NEW f, NEW S, IsFiniteSet(S)
  PROVE  \E g : g = [s \in SUBSET S |-> Steps(f, g, s)]
<1> DEFINE A(n) == {s \in SUBSET S : Cardinality(s) <= n}
           T == {n \in Nat : \E g : g = [s \in A(n) |-> Steps(f, g, s)]}
<1>0. \A s \in SUBSET S : IsFiniteSet(s) /\ Cardinality(s) \in Nat
  BY FS_Subset, FS_CardinalityType
<1>1. 0 \in T
  <2> DEFINE g == [s \in A(0) |-> 0]
  <2>1. \A s \in A(0) : s = {}
    BY <1>0, FS_EmptySet
  <2>2. \A s \in A(0) : Steps(f, g, s) = 0
    BY <2>1 DEF Steps
  <2> QED
    BY <2>2, ZenonT(40)
<1>2. ASSUME NEW n \in T PROVE n + 1 \in T
  <2>1. PICK g : g = [s \in A(n) |-> Steps(f, g, s)]
    BY <1>2, ZenonT(40)
  <2> DEFINE h == [s \in A(n + 1) |-> Steps(f, g, s)]
  <2>2. ASSUME NEW s \in A(n + 1) PROVE Steps(f, g, s) = Steps(f, h, s)
    <3> DEFINE u == s \ {Pick(s)}
    <3>1. CASE s = {}
      BY <3>1 DEF Steps
    <3>2. CASE s # {}
      <4>1. Pick(s) \in s
        BY <3>2, PickIn
      <4>2. Cardinality(u) = Cardinality(s) - 1
        BY <4>1, <1>0, FS_RemoveElement
      <4>3. u \in A(n) /\ u \in A(n + 1)
        BY <4>2, <1>0
      <4>4. g[u] = h[u]
        BY <4>3, <2>1
      <4> QED
        BY <4>4, <3>2 DEF Steps
    <3> QED
      BY <3>1, <3>2
  <2>3. h = [s \in A(n + 1) |-> Steps(f, h, s)]
    BY <2>2
  <2>4. \E k : k = [s \in A(n + 1) |-> Steps(f, k, s)]
    <3> HIDE DEF h, A
    <3> QED
      BY <2>3
  <2>5. n + 1 \in Nat
    BY <1>2
  <2> HIDE DEF A
  <2> QED
    BY <2>4, <2>5
<1>3. T = Nat
  <2> HIDE DEF T
  <2>1. T \in SUBSET Nat
    BY DEF T
  <2> QED
    BY <1>1, <1>2, <2>1, NatSetInduction
<1>4. Cardinality(S) \in T
  BY <1>3, FS_CardinalityType, ZenonT(40)
<1>5. A(Cardinality(S)) = SUBSET S
  BY FS_Subset
<1> QED
  BY <1>4, <1>5, ZenonT(40)

\* g has the sums over the subsets of S
IsSum(f, S, g) == g = [s \in SUBSET S |-> Steps(f, g, s)]

\* SumOver is a value of a function with the sums over all subsets
LEMMA SumIs ==
  ASSUME NEW f, NEW S, IsFiniteSet(S)
  PROVE  \E g : IsSum(f, S, g) /\ SumOver(f, S) = g[S]
<1>1. \E g : IsSum(f, S, g)
  BY SumExists, ZenonT(40) DEF IsSum
<1>2. IsSum(f, S, CHOOSE g : IsSum(f, S, g))
  BY <1>1
<1>3. SumOver(f, S) = (CHOOSE g : IsSum(f, S, g))[S]
  BY SumOverDef, ZenonT(40) DEF IsSum
<1> QED
  BY <1>2, <1>3, ZenonT(40)

\* the sums over the subsets of a set do not depend on the set they are part of
LEMMA SumUnique ==
  ASSUME NEW f, NEW S, NEW T, IsFiniteSet(S), IsFiniteSet(T), T \subseteq S,
         NEW g, NEW h, IsSum(f, S, g), IsSum(f, T, h)
  PROVE  g[T] = h[T]
<1> DEFINE P == {s \in SUBSET T : g[s] = h[s]}
<1>1. ASSUME NEW s \in SUBSET T, \A u \in SUBSET s : u # s => u \in P
      PROVE  s \in P
  <2> DEFINE u == s \ {Pick(s)}
  <2>1. CASE s = {}
    BY <2>1 DEF IsSum, Steps
  <2>2. CASE s # {}
    <3>1. g[u] = h[u]
      BY <1>1, <2>2, PickIn
    <3>2. g[s] = f[Pick(s)] + g[u] /\ h[s] = f[Pick(s)] + h[u]
      BY <2>2, ZenonT(40) DEF IsSum, Steps
    <3> QED
      BY <3>1, <3>2
  <2> QED
    BY <2>1, <2>2
<1>2. P = SUBSET T
  <2> HIDE DEF P
  <2>1. P \in SUBSET (SUBSET T)
    BY DEF P
  <2> QED
    BY <1>1, <2>1, SubsetInduction
<1> QED
  BY <1>2

\* SumOver satisfies its recursion
LEMMA SumUnfold ==
  ASSUME NEW f, NEW S, IsFiniteSet(S)
  PROVE  /\ S = {} => SumOver(f, S) = 0
         /\ S # {} => SumOver(f, S) = f[Pick(S)] + SumOver(f, S \ {Pick(S)})
<1> DEFINE U == S \ {Pick(S)}
<1>1. PICK g : IsSum(f, S, g) /\ SumOver(f, S) = g[S]
  BY SumIs
<1>2. IsFiniteSet(U)
  BY FS_RemoveElement
<1>3. PICK h : IsSum(f, U, h) /\ SumOver(f, U) = h[U]
  BY SumIs, <1>2
<1>4. g[U] = h[U]
  BY <1>1, <1>2, <1>3, SumUnique
<1>5. g[S] = Steps(f, g, S)
  BY <1>1 DEF IsSum
<1> QED
  BY <1>1, <1>3, <1>4, <1>5 DEF Steps

\* a sum of integers is an integer
LEMMA SumType ==
  ASSUME NEW f, NEW S, IsFiniteSet(S), \A x \in S : f[x] \in Int
  PROVE  SumOver(f, S) \in Int
<1> DEFINE P == {s \in SUBSET S : SumOver(f, s) \in Int}
<1>1. ASSUME NEW s \in SUBSET S, \A u \in SUBSET s : u # s => u \in P
      PROVE  s \in P
  <2>0. IsFiniteSet(s)
    BY FS_Subset
  <2>1. CASE s = {}
    <3>1. SumOver(f, s) = 0
      BY <2>0, <2>1, SumUnfold, ZenonT(40)
    <3> QED
      BY <3>1
  <2>2. CASE s # {}
    <3>1. Pick(s) \in s
      BY <2>2, PickIn
    <3>2. SumOver(f, s \ {Pick(s)}) \in Int
      BY <1>1, <3>1
    <3>3. SumOver(f, s) = f[Pick(s)] + SumOver(f, s \ {Pick(s)})
      BY <2>0, <2>2, SumUnfold
    <3> QED
      BY <3>1, <3>2, <3>3
  <2> QED
    BY <2>1, <2>2
<1>2. P = SUBSET S
  <2> HIDE DEF P
  <2>1. P \in SUBSET (SUBSET S)
    BY DEF P
  <2> QED
    BY <1>1, <2>1, SubsetInduction
<1> QED
  BY <1>2

\* any element can be taken out of a sum first
LEMMA SumRemove ==
  ASSUME NEW f, NEW S, IsFiniteSet(S), \A x \in S : f[x] \in Int, NEW y \in S
  PROVE  SumOver(f, S) = f[y] + SumOver(f, S \ {y})
<1> DEFINE P == {s \in SUBSET S : \A x \in s : SumOver(f, s) = f[x] + SumOver(f, s \ {x})}
<1>0. \A s \in SUBSET S : IsFiniteSet(s) /\ SumOver(f, s) \in Int
  BY FS_Subset, SumType
<1>1. ASSUME NEW s \in SUBSET S, \A u \in SUBSET s : u # s => u \in P
      PROVE  s \in P
  <2>1. SUFFICES ASSUME NEW x \in s
                 PROVE  SumOver(f, s) = f[x] + SumOver(f, s \ {x})
    OBVIOUS
  <2> DEFINE p == Pick(s)
             U == s \ {p}
             V == s \ {x}
             W == (s \ {p}) \ {x}
  <2>2. p \in s
    BY <2>1, PickIn
  <2>3. SumOver(f, s) = f[p] + SumOver(f, U)
    BY <1>0, <2>1, SumUnfold
  <2>4. CASE p = x
    BY <2>3, <2>4
  <2>5. CASE p # x
    <3>1. SumOver(f, U) = f[x] + SumOver(f, W)
      BY <1>1, <2>1, <2>2, <2>5
    <3>2. V \ {p} = W
      OBVIOUS
    <3>3. SumOver(f, V) = f[p] + SumOver(f, V \ {p})
      BY <1>1, <2>1, <2>2, <2>5
    <3>4. SumOver(f, W) \in Int /\ f[p] \in Int /\ f[x] \in Int
      BY <1>0, <2>2
    <3>5. SumOver(f, V) = f[p] + SumOver(f, W)
      <4> HIDE DEF V, W
      <4> QED
        BY <3>2, <3>3
    <3> HIDE DEF p, U, W
    <3> QED
      BY <2>3, <3>1, <3>4, <3>5
  <2> QED
    BY <2>4, <2>5
<1>2. P = SUBSET S
  <2> HIDE DEF P
  <2>1. P \in SUBSET (SUBSET S)
    BY DEF P
  <2> QED
    BY <1>1, <2>1, SubsetInduction
<1>3. S \in P
  BY <1>2
<1> QED
  BY <1>3

\* the sum over nothing
LEMMA SumEmpty == ASSUME NEW f PROVE SumOver(f, {}) = 0
BY SumUnfold, FS_EmptySet, ZenonT(40)

\* one more element adds its value
LEMMA SumAdd ==
  ASSUME NEW f, NEW S, IsFiniteSet(S), NEW y, y \notin S,
         \A x \in S \cup {y} : f[x] \in Int
  PROVE  SumOver(f, S \cup {y}) = SumOver(f, S) + f[y]
<1> DEFINE T == S \cup {y}
<1>1. IsFiniteSet(T)
  BY FS_AddElement
<1>2. T \ {y} = S
  OBVIOUS
<1>3. SumOver(f, T) = f[y] + SumOver(f, S)
  <2>1. y \in T /\ \A x \in T : f[x] \in Int
    OBVIOUS
  <2> HIDE DEF T
  <2>2. SumOver(f, T) = f[y] + SumOver(f, T \ {y})
    BY <1>1, <2>1, SumRemove
  <2> QED
    BY <1>2, <2>2
<1>4. SumOver(f, S) \in Int /\ f[y] \in Int
  BY SumType
<1> QED
  BY <1>2, <1>3, <1>4

\* functions that agree have the same sum
LEMMA SumSame ==
  ASSUME NEW f, NEW g, NEW S, IsFiniteSet(S), \A x \in S : f[x] = g[x]
  PROVE  SumOver(f, S) = SumOver(g, S)
<1> DEFINE P == {s \in SUBSET S : SumOver(f, s) = SumOver(g, s)}
<1>1. ASSUME NEW s \in SUBSET S, \A u \in SUBSET s : u # s => u \in P
      PROVE  s \in P
  <2>0. IsFiniteSet(s)
    BY FS_Subset
  <2>1. CASE s = {}
    BY <2>1, SumEmpty
  <2>2. CASE s # {}
    <3>1. Pick(s) \in s
      BY <2>2, PickIn
    <3>2. SumOver(f, s \ {Pick(s)}) = SumOver(g, s \ {Pick(s)})
      BY <1>1, <3>1
    <3>3. /\ SumOver(f, s) = f[Pick(s)] + SumOver(f, s \ {Pick(s)})
          /\ SumOver(g, s) = g[Pick(s)] + SumOver(g, s \ {Pick(s)})
      BY <2>0, <2>2, SumUnfold
    <3> QED
      BY <3>1, <3>2, <3>3
  <2> QED
    BY <2>1, <2>2
<1>2. P = SUBSET S
  <2> HIDE DEF P
  <2>1. P \in SUBSET (SUBSET S)
    BY DEF P
  <2> QED
    BY <1>1, <2>1, SubsetInduction
<1> QED
  BY <1>2

\* a sum changes by as much as the one value that changes
LEMMA SumChange ==
  ASSUME NEW f, NEW g, NEW S, IsFiniteSet(S), NEW y \in S,
         \A x \in S : f[x] \in Int, g[y] \in Int,
         \A x \in S \ {y} : g[x] = f[x]
  PROVE  SumOver(g, S) = SumOver(f, S) - f[y] + g[y]
<1>1. \A x \in S : g[x] \in Int
  OBVIOUS
<1>2. IsFiniteSet(S \ {y})
  BY FS_RemoveElement
<1>3. SumOver(f, S) = f[y] + SumOver(f, S \ {y})
  BY SumRemove
<1>4. SumOver(g, S) = g[y] + SumOver(g, S \ {y})
  BY <1>1, SumRemove
<1>5. SumOver(f, S \ {y}) = SumOver(g, S \ {y})
  BY <1>2, SumSame
<1>6. SumOver(f, S \ {y}) \in Int /\ f[y] \in Int
  BY <1>2, SumType
<1> QED
  BY <1>3, <1>4, <1>5, <1>6

\* a sum of zeros
LEMMA SumZero ==
  ASSUME NEW f, NEW S, IsFiniteSet(S), \A x \in S : f[x] = 0
  PROVE  SumOver(f, S) = 0
<1> DEFINE P == {s \in SUBSET S : SumOver(f, s) = 0}
<1>1. ASSUME NEW s \in SUBSET S, \A u \in SUBSET s : u # s => u \in P
      PROVE  s \in P
  <2>0. IsFiniteSet(s)
    BY FS_Subset
  <2>1. CASE s = {}
    BY <2>1, SumEmpty
  <2>2. CASE s # {}
    <3>1. Pick(s) \in s
      BY <2>2, PickIn
    <3>2. SumOver(f, s \ {Pick(s)}) = 0
      BY <1>1, <3>1
    <3>3. SumOver(f, s) = f[Pick(s)] + SumOver(f, s \ {Pick(s)})
      BY <2>0, <2>2, SumUnfold
    <3>4. f[Pick(s)] = 0
      BY <3>1
    <3>5. SumOver(f, s) = 0
      BY <3>2, <3>3, <3>4
    <3> QED
      BY <3>5
  <2> QED
    BY <2>1, <2>2
<1>2. P = SUBSET S
  <2> HIDE DEF P
  <2>1. P \in SUBSET (SUBSET S)
    BY DEF P
  <2> QED
    BY <1>1, <2>1, SubsetInduction
<1> QED
  BY <1>2

\* the sum of natural numbers is one, and no term is larger than it
LEMMA SumNat ==
  ASSUME NEW f, NEW S, IsFiniteSet(S), \A x \in S : f[x] \in Nat
  PROVE  SumOver(f, S) \in Nat /\ \A x \in S : f[x] <= SumOver(f, S)
<1> DEFINE P == {s \in SUBSET S : SumOver(f, s) \in Nat}
<1>1. ASSUME NEW s \in SUBSET S, \A u \in SUBSET s : u # s => u \in P
      PROVE  s \in P
  <2>0. IsFiniteSet(s)
    BY FS_Subset
  <2>1. CASE s = {}
    BY <2>1, SumEmpty
  <2>2. CASE s # {}
    <3>1. Pick(s) \in s
      BY <2>2, PickIn
    <3>2. SumOver(f, s \ {Pick(s)}) \in Nat
      BY <1>1, <3>1
    <3>3. SumOver(f, s) = f[Pick(s)] + SumOver(f, s \ {Pick(s)})
      BY <2>0, <2>2, SumUnfold
    <3>4. f[Pick(s)] \in Nat
      BY <3>1
    <3>5. SumOver(f, s) \in Nat
      BY <3>2, <3>3, <3>4
    <3> QED
      BY <3>5
  <2> QED
    BY <2>1, <2>2
<1>2. P = SUBSET S
  <2> HIDE DEF P
  <2>1. P \in SUBSET (SUBSET S)
    BY DEF P
  <2> QED
    BY <1>1, <2>1, SubsetInduction
<1>3. \A s \in SUBSET S : SumOver(f, s) \in Nat
  BY <1>2
<1>4. ASSUME NEW x \in S PROVE f[x] <= SumOver(f, S)
  <2>1. SumOver(f, S) = f[x] + SumOver(f, S \ {x})
    BY SumRemove
  <2>2. SumOver(f, S \ {x}) \in Nat /\ f[x] \in Nat
    BY <1>3
  <2> QED
    BY <2>1, <2>2
<1> QED
  BY <1>3, <1>4

\* the sum of pointwise sums
LEMMA SumPlus ==
  ASSUME NEW f, NEW g, NEW h, NEW S, IsFiniteSet(S),
         \A x \in S : f[x] \in Int /\ g[x] \in Int /\ h[x] = f[x] + g[x]
  PROVE  SumOver(h, S) = SumOver(f, S) + SumOver(g, S)
<1> DEFINE P == {s \in SUBSET S : SumOver(h, s) = SumOver(f, s) + SumOver(g, s)}
<1>0. \A s \in SUBSET S : IsFiniteSet(s) /\ SumOver(f, s) \in Int /\ SumOver(g, s) \in Int
  BY FS_Subset, SumType
<1>1. ASSUME NEW s \in SUBSET S, \A u \in SUBSET s : u # s => u \in P
      PROVE  s \in P
  <2>1. CASE s = {}
    <3>1. SumOver(f, s) = 0 /\ SumOver(g, s) = 0 /\ SumOver(h, s) = 0
      BY <2>1, SumEmpty
    <3> QED
      BY <3>1
  <2>2. CASE s # {}
    <3> DEFINE p == Pick(s)
               U == s \ {p}
    <3>1. p \in s
      BY <2>2, PickIn
    <3>2. SumOver(h, U) = SumOver(f, U) + SumOver(g, U)
      BY <1>1, <3>1
    <3>3. /\ SumOver(f, s) = f[p] + SumOver(f, U)
          /\ SumOver(g, s) = g[p] + SumOver(g, U)
          /\ SumOver(h, s) = h[p] + SumOver(h, U)
      BY <1>0, <2>2, SumUnfold, ZenonT(40)
    <3>4. /\ SumOver(f, U) \in Int /\ SumOver(g, U) \in Int
          /\ f[p] \in Int /\ g[p] \in Int /\ h[p] = f[p] + g[p]
      BY <1>0, <3>1
    <3>5. SumOver(h, s) = SumOver(f, s) + SumOver(g, s)
      <4> HIDE DEF p, U
      <4> QED
        BY <3>2, <3>3, <3>4
    <3> QED
      BY <3>5
  <2> QED
    BY <2>1, <2>2
<1>2. P = SUBSET S
  <2> HIDE DEF P
  <2>1. P \in SUBSET (SUBSET S)
    BY DEF P
  <2> QED
    BY <1>1, <2>1, SubsetInduction
<1> QED
  BY <1>2

\* the sum of pointwise differences
LEMMA SumMinus ==
  ASSUME NEW f, NEW g, NEW h, NEW S, IsFiniteSet(S),
         \A x \in S : f[x] \in Int /\ g[x] \in Int /\ h[x] = f[x] - g[x]
  PROVE  SumOver(h, S) = SumOver(f, S) - SumOver(g, S)
<1>1. \A x \in S : h[x] \in Int /\ g[x] \in Int /\ f[x] = h[x] + g[x]
  OBVIOUS
<1>2. SumOver(f, S) = SumOver(h, S) + SumOver(g, S)
  BY <1>1, SumPlus
<1>3. SumOver(h, S) \in Int /\ SumOver(g, S) \in Int
  BY <1>1, SumType
<1> QED
  BY <1>2, <1>3

\* values outside a subset that are zero do not count
LEMMA SumWithin ==
  ASSUME NEW f, NEW g, NEW S, IsFiniteSet(S), NEW T \in SUBSET S,
         \A x \in T : f[x] \in Int /\ g[x] = f[x],
         \A x \in S \ T : g[x] = 0
  PROVE  SumOver(g, S) = SumOver(f, T)
<1> DEFINE P == {s \in SUBSET S : SumOver(g, s) = SumOver(f, s \cap T)}
<1>0. \A s \in SUBSET S : IsFiniteSet(s) /\ IsFiniteSet(s \cap T)
  BY FS_Subset
<1>1. ASSUME NEW s \in SUBSET S, \A u \in SUBSET s : u # s => u \in P
      PROVE  s \in P
  <2>1. CASE s = {}
    <3>1. s \cap T = {}
      BY <2>1
    <3> QED
      BY <2>1, <3>1, SumEmpty
  <2>2. CASE s # {}
    <3> DEFINE p == Pick(s)
               U == s \ {p}
    <3>1. p \in s
      BY <2>2, PickIn
    <3>2. SumOver(g, U) = SumOver(f, U \cap T)
      BY <1>1, <3>1
    <3>3. SumOver(g, s) = g[p] + SumOver(g, U)
      BY <1>0, <2>2, SumUnfold, ZenonT(40)
    <3>4. SumOver(f, U \cap T) \in Int
      <4>1. \A x \in U \cap T : f[x] \in Int
        OBVIOUS
      <4> QED
        BY <1>0, <4>1, SumType
    <3>5. CASE p \in T
      <4>1. (s \cap T) \ {p} = U \cap T /\ p \in s \cap T
        BY <3>1, <3>5
      <4>2. SumOver(f, s \cap T) = f[p] + SumOver(f, U \cap T)
        <5>1. \A x \in s \cap T : f[x] \in Int
          OBVIOUS
        <5> HIDE DEF p, U
        <5> QED
          BY <1>0, <4>1, <5>1, SumRemove
      <4>3. g[p] = f[p]
        BY <3>5
      <4>4. SumOver(g, s) = SumOver(f, s \cap T)
        <5> HIDE DEF p, U
        <5> QED
          BY <3>2, <3>3, <4>2, <4>3
      <4> QED
        BY <4>4
    <3>6. CASE p \notin T
      <4>1. s \cap T = U \cap T
        BY <3>6
      <4>2. g[p] = 0
        BY <3>1, <3>6
      <4>3. SumOver(g, s) = SumOver(f, s \cap T)
        <5>1. SumOver(g, U) \in Int
          BY <3>2, <3>4
        <5> HIDE DEF p, U
        <5>2. SumOver(g, s) = SumOver(g, U)
          BY <3>3, <4>2, <5>1
        <5> QED
          BY <3>2, <4>1, <5>2
      <4> QED
        BY <4>3
    <3> QED
      BY <3>5, <3>6
  <2> QED
    BY <2>1, <2>2
<1>2. P = SUBSET S
  <2> HIDE DEF P
  <2>1. P \in SUBSET (SUBSET S)
    BY DEF P
  <2> QED
    BY <1>1, <2>1, SubsetInduction
<1>3. S \cap T = T /\ S \in P
  BY <1>2
<1> QED
  BY <1>3

\* a sum may be taken in two parts
LEMMA SumSplit ==
  ASSUME NEW f, NEW S, IsFiniteSet(S), NEW T \in SUBSET S, \A x \in S : f[x] \in Int
  PROVE  SumOver(f, S) = SumOver(f, T) + SumOver(f, S \ T)
<1> DEFINE g == [x \in S |-> IF x \in T THEN f[x] ELSE 0]
           h == [x \in S |-> IF x \in T THEN 0 ELSE f[x]]
<1>1. SumOver(g, S) = SumOver(f, T)
  <2>1. /\ \A x \in T : f[x] \in Int /\ g[x] = f[x]
        /\ \A x \in S \ T : g[x] = 0
    OBVIOUS
  <2> HIDE DEF g
  <2> QED
    BY <2>1, SumWithin
<1>2. SumOver(h, S) = SumOver(f, S \ T)
  <2> DEFINE R == S \ T
  <2>1. /\ R \in SUBSET S
        /\ \A x \in R : f[x] \in Int /\ h[x] = f[x]
        /\ \A x \in S \ R : h[x] = 0
    OBVIOUS
  <2> HIDE DEF h, R
  <2>2. SumOver(h, S) = SumOver(f, R)
    BY <2>1, SumWithin
  <2> QED
    BY <2>2 DEF R
<1>3. \A x \in S : g[x] \in Int /\ h[x] \in Int /\ f[x] = g[x] + h[x]
  OBVIOUS
<1> HIDE DEF g, h
<1>4. SumOver(f, S) = SumOver(g, S) + SumOver(h, S)
  BY <1>3, SumPlus
<1> QED
  BY <1>1, <1>2, <1>4

\* what is summed by key and then over the keys is the sum
LEMMA SumByKey ==
  ASSUME NEW f, NEW key, NEW I, IsFiniteSet(I), NEW K, IsFiniteSet(K),
         \A i \in I : f[i] \in Int /\ key[i] \in K
  PROVE  SumOver([k \in K |-> SumOver(f, {i \in I : key[i] = k})], K) = SumOver(f, I)
<1> DEFINE G(s) == [k \in K |-> SumOver(f, {i \in s : key[i] = k})]
           P == {s \in SUBSET I : SumOver(G(s), K) = SumOver(f, s)}
<1>0. ASSUME NEW s \in SUBSET I
      PROVE  /\ IsFiniteSet(s)
             /\ \A k \in K : IsFiniteSet({i \in s : key[i] = k}) /\ G(s)[k] \in Int
  <2>1. IsFiniteSet(s) /\ \A k \in K : IsFiniteSet({i \in s : key[i] = k})
    BY FS_Subset
  <2>2. ASSUME NEW k \in K PROVE G(s)[k] \in Int
    <3>1. \A i \in {j \in s : key[j] = k} : f[i] \in Int
      OBVIOUS
    <3> QED
      BY <2>1, <3>1, SumType
  <2> QED
    BY <2>1, <2>2
<1>1. ASSUME NEW s \in SUBSET I, \A u \in SUBSET s : u # s => u \in P
      PROVE  s \in P
  <2>1. CASE s = {}
    <3>1. \A k \in K : G(s)[k] = 0
      <4>1. \A k \in K : {i \in s : key[i] = k} = {}
        BY <2>1
      <4> QED
        BY <4>1, SumEmpty
    <3>2. SumOver(G(s), K) = 0
      <4> HIDE DEF G
      <4> QED
        BY <3>1, SumZero
    <3>3. SumOver(f, s) = 0
      BY <2>1, SumEmpty
    <3> QED
      BY <3>2, <3>3
  <2>2. CASE s # {}
    <3> DEFINE p == Pick(s)
               U == s \ {p}
               q == key[p]
    <3>1. p \in s /\ U \in SUBSET s /\ U # s /\ q \in K /\ f[p] \in Int
      BY <2>2, PickIn
    <3>2. SumOver(G(U), K) = SumOver(f, U)
      BY <1>1, <3>1
    <3>3. SumOver(f, s) = f[p] + SumOver(f, U)
      BY <1>0, <2>2, SumUnfold
    <3>4. G(s)[q] = G(U)[q] + f[p]
      <4> DEFINE A == {i \in U : key[i] = q}
      <4>1. {i \in s : key[i] = q} = A \cup {p} /\ p \notin A
        BY <3>1
      <4>2. IsFiniteSet(A) /\ \A x \in A \cup {p} : f[x] \in Int
        BY <1>0, <3>1
      <4>3. SumOver(f, A \cup {p}) = SumOver(f, A) + f[p]
        <5> HIDE DEF A, p, U, q
        <5> QED
          BY <4>1, <4>2, SumAdd
      <4>4. G(s)[q] = SumOver(f, A \cup {p}) /\ G(U)[q] = SumOver(f, A)
        <5>1. G(s)[q] = SumOver(f, {i \in s : key[i] = q})
          BY <3>1
        <5>2. G(U)[q] = SumOver(f, {i \in U : key[i] = q})
          BY <3>1
        <5> QED
          BY <4>1, <5>1, <5>2
      <4> QED
        BY <4>3, <4>4
    <3>5. \A k \in K \ {q} : G(s)[k] = G(U)[k]
      <4>1. \A k \in K \ {q} : {i \in s : key[i] = k} = {i \in U : key[i] = k}
        OBVIOUS
      <4> QED
        BY <4>1
    <3>6. U \in SUBSET I
      BY <3>1
    <3>7. \A k \in K : G(U)[k] \in Int
      BY <1>0, <3>6, ZenonT(40)
    <3>8. G(s)[q] \in Int
      BY <1>0, <3>1, ZenonT(40)
    <3>9. SumOver(G(s), K) = SumOver(G(U), K) - G(U)[q] + G(s)[q]
      <4> HIDE DEF G, U, p, q
      <4> QED
        BY <3>1, <3>5, <3>7, <3>8, SumChange
    <3>10. SumOver(f, U) \in Int
      <4>1. \A x \in U : f[x] \in Int
        OBVIOUS
      <4> QED
        BY <1>0, <3>6, <4>1, SumType
    <3>11. SumOver(G(s), K) = SumOver(f, s)
      <4> HIDE DEF G, U, p, q
      <4> QED
        BY <3>1, <3>2, <3>3, <3>4, <3>7, <3>9, <3>10
    <3> QED
      BY <3>11
  <2> QED
    BY <2>1, <2>2
<1>2. P = SUBSET I
  <2> HIDE DEF P
  <2>1. P \in SUBSET (SUBSET I)
    BY DEF P
  <2> QED
    BY <1>1, <2>1, SubsetInduction
<1>3. I \in P
  BY <1>2
<1> QED
  BY <1>3

-----------------------------------------------------------------------------
(* Folds over a set in an order that the caller chooses *)

\* a finite set of natural numbers that is not empty has a largest one
LEMMA MaxNat ==
  ASSUME NEW S \in SUBSET Nat, IsFiniteSet(S), S # {}
  PROVE  Max(S) \in S /\ \A y \in S : y <= Max(S)
<1> DEFINE P == {s \in SUBSET S : s # {} => \E x \in s : \A y \in s : y <= x}
<1>1. ASSUME NEW s \in SUBSET S, \A u \in SUBSET s : u # s => u \in P
      PROVE  s \in P
  <2>1. SUFFICES ASSUME s # {} PROVE \E x \in s : \A y \in s : y <= x
    OBVIOUS
  <2>2. PICK p \in s : TRUE
    BY <2>1, ZenonT(40)
  <2>3. s \ {p} \in P
    BY <1>1, <2>2, ZenonT(40)
  <2>4. CASE s \ {p} = {}
    BY <2>2, <2>4
  <2>5. CASE s \ {p} # {}
    <3>1. PICK m \in s \ {p} : \A y \in s \ {p} : y <= m
      BY <2>3, <2>5
    <3>2. CASE p <= m
      BY <3>1, <3>2
    <3>3. CASE ~(p <= m)
      BY <3>1, <3>3
    <3> QED
      BY <3>2, <3>3
  <2> QED
    BY <2>4, <2>5
<1>2. P = SUBSET S
  <2> HIDE DEF P
  <2>1. P \in SUBSET (SUBSET S)
    BY DEF P
  <2> QED
    BY <1>1, <2>1, SubsetInduction, ZenonT(40)
<1>3. \E x \in S : \A y \in S : y <= x
  BY <1>2
<1>4. \E x \in S : \A y \in S : x >= y
  BY <1>3
<1> QED
  BY <1>4, ZenonT(40) DEF Max

\* g has the results of a fold over the subsets of S
IsFold(g, S, base, step, pick) ==
  \A s \in SUBSET S :
    g[s] = IF s = {} THEN base ELSE step[<<pick[s], g[s \ {pick[s]}]>>]

\* a fold whose values stay in a set is a function of the subsets folded over
LEMMA FoldExists ==
  ASSUME NEW S, IsFiniteSet(S), NEW V, NEW base \in V, NEW step \in [S \X V -> V],
         NEW pick, \A s \in SUBSET S : s # {} => pick[s] \in s
  PROVE  \E g \in [SUBSET S -> V] : IsFold(g, S, base, step, pick)
<1> DEFINE A(n) == {s \in SUBSET S : Cardinality(s) <= n}
           Value(g, s) == IF s = {} THEN base ELSE step[<<pick[s], g[s \ {pick[s]}]>>]
           T == {n \in Nat : \E g \in [A(n) -> V] : \A s \in A(n) : g[s] = Value(g, s)}
<1>0. \A s \in SUBSET S : IsFiniteSet(s) /\ Cardinality(s) \in Nat
  BY FS_Subset, FS_CardinalityType
<1>1. 0 \in T
  <2> DEFINE g == [s \in A(0) |-> base]
  <2>1. \A s \in A(0) : s = {}
    BY <1>0, FS_EmptySet
  <2>2. g \in [A(0) -> V] /\ \A s \in A(0) : g[s] = Value(g, s)
    BY <2>1
  <2> QED
    BY <2>2, ZenonT(40)
<1>2. ASSUME NEW n \in T PROVE n + 1 \in T
  <2>1. PICK g \in [A(n) -> V] : \A s \in A(n) : g[s] = Value(g, s)
    BY <1>2, ZenonT(40)
  <2> DEFINE h == [s \in A(n + 1) |-> Value(g, s)]
  <2>2. ASSUME NEW s \in A(n + 1) PROVE h[s] = Value(h, s) /\ h[s] \in V
    <3> DEFINE u == s \ {pick[s]}
    <3>1. CASE s = {}
      BY <3>1, ZenonT(40)
    <3>2. CASE s # {}
      <4>1. pick[s] \in s
        BY <3>2
      <4>2. Cardinality(u) = Cardinality(s) - 1
        BY <4>1, <1>0, FS_RemoveElement
      <4>3. u \in A(n) /\ u \in A(n + 1)
        BY <4>2, <1>0
      <4>4. h[u] = g[u] /\ g[u] \in V
        BY <4>3, <2>1, ZenonT(40)
      <4>5. <<pick[s], g[u]>> \in S \X V
        BY <4>1, <4>4
      <4>6. step[<<pick[s], g[u]>>] \in V
        BY <4>5
      <4>7. h[s] = step[<<pick[s], g[u]>>]
        BY <3>2
      <4> QED
        BY <3>2, <4>4, <4>6, <4>7, ZenonT(40)
    <3> QED
      BY <3>1, <3>2, ZenonT(40)
  <2>3. h \in [A(n + 1) -> V] /\ \A s \in A(n + 1) : h[s] = Value(h, s)
    BY <2>2, ZenonT(40)
  <2>4. \E k \in [A(n + 1) -> V] : \A s \in A(n + 1) : k[s] = Value(k, s)
    <3> HIDE DEF h, A, Value
    <3> QED
      BY <2>3
  <2>5. n + 1 \in Nat
    BY <1>2
  <2> HIDE DEF A, Value
  <2> QED
    BY <2>4, <2>5
<1>3. T = Nat
  <2> HIDE DEF T
  <2>1. T \in SUBSET Nat
    BY DEF T
  <2> QED
    BY <1>1, <1>2, <2>1, NatSetInduction
<1>4. Cardinality(S) \in T
  BY <1>3, FS_CardinalityType, ZenonT(40)
<1>5. A(Cardinality(S)) = SUBSET S
  BY FS_Subset
<1>6. \E g \in [SUBSET S -> V] : \A s \in SUBSET S : g[s] = Value(g, s)
  <2> HIDE DEF Value, A
  <2> QED
    BY <1>4, <1>5, ZenonT(40)
<1> QED
  BY <1>6, ZenonT(40) DEF IsFold
=============================================================================
