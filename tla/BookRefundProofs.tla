-------------------------- MODULE BookRefundProofs --------------------------
(***************************************************************************)
(* What BookLedger promises about refunds and about the credit of a txn    *)
(* that was debited, and that a debit takes what its in-memory reference   *)
(* does, for every set of accounts and txns, every request and every clock.*)
(***************************************************************************)
EXTENDS BookLedgerProofs

\* the time that the provers have for a step
USE SMTT(40), ZenonT(40)

-----------------------------------------------------------------------------
(* How much of every row a refund restores *)

\* the numbers up to k
LEMMA UpTo ==
  ASSUME NEW n \in Nat, NEW k \in 1..n
  PROVE  /\ 1..k \in SUBSET (1..n) /\ 1..k # {} /\ Max(1..k) = k
         /\ (1..k) \ {k} = 1..(k - 1) /\ k \notin 1..(k - 1) /\ 1..k = 1..(k - 1) \cup {k}
         /\ IsFiniteSet(1..(k - 1))
<1>1. k \in 1..k /\ \A y \in 1..k : k >= y
  OBVIOUS
<1>2. \A x \in 1..k : (\A y \in 1..k : x >= y) => x = k
  BY <1>1
<1>3. Max(1..k) = k
  BY <1>1, <1>2 DEF Max
<1>4. IsFiniteSet(1..(k - 1))
  BY FS_Interval
<1>5. (1..k) \ {k} = 1..(k - 1) /\ k \notin 1..(k - 1)
  OBVIOUS
<1>6. 1..k = 1..(k - 1) \cup {k}
  OBVIOUS
<1>7. 1..k \in SUBSET (1..n) /\ 1..k # {}
  BY <1>1
<1> QED
  BY <1>3, <1>4, <1>5, <1>6, <1>7

\* the largest of some of the numbers up to n
LEMMA MaxOfPrefix ==
  ASSUME NEW n \in Nat, NEW s \in SUBSET (1..n), s # {}
  PROVE  Max(s) \in s
<1>1. IsFiniteSet(1..n)
  BY FS_Interval
<1>2. IsFiniteSet(s)
  BY <1>1, FS_Subset, ZenonT(40)
<1>3. s \in SUBSET Nat
  OBVIOUS
<1> QED
  BY <1>2, <1>3, MaxNat

\* what the first k rows have
Reach(rows, k) == SumOver(AmountsOf(rows), 1..k)

\* the amounts of rows add up step by step
LEMMA ReachSteps ==
  ASSUME NEW rows \in Seq(Rows)
  PROVE  /\ Len(rows) \in Nat /\ DOMAIN rows = 1..Len(rows)
         /\ \A k \in 1..Len(rows) : rows[k] \in Rows
         /\ Reach(rows, 0) = 0 /\ Reach(rows, Len(rows)) = Total(rows)
         /\ \A k \in 0..Len(rows) : Reach(rows, k) \in Nat
         /\ \A k \in 1..Len(rows) : Reach(rows, k) = Reach(rows, k - 1) + rows[k].amount
<1> DEFINE n == Len(rows)
<1>1. n \in Nat /\ DOMAIN rows = 1..n
  BY SeqElements
<1>2. \A k \in 1..n : rows[k] \in Rows
  BY SeqElements
<1>3. \A k \in 1..n : AmountsOf(rows)[k] = rows[k].amount /\ rows[k].amount \in Nat
  BY <1>1, <1>2 DEF AmountsOf, Rows
<1>4. Reach(rows, 0) = 0
  <2>1. 1..0 = {}
    OBVIOUS
  <2> QED
    BY <2>1, SumEmpty DEF Reach
<1>5. ASSUME NEW k \in 0..n PROVE Reach(rows, k) \in Nat
  <2>1. IsFiniteSet(1..k)
    BY <1>1, FS_Interval
  <2>2. \A i \in 1..k : AmountsOf(rows)[i] \in Nat
    BY <1>1, <1>3
  <2> QED
    BY <2>1, <2>2, SumNat DEF Reach
<1>6. ASSUME NEW k \in 1..n PROVE Reach(rows, k) = Reach(rows, k - 1) + rows[k].amount
  <2> DEFINE K == 1..(k - 1)
  <2>1. k \notin K /\ 1..k = K \cup {k} /\ IsFiniteSet(K)
    BY <1>1, UpTo
  <2>2. \A i \in K \cup {k} : AmountsOf(rows)[i] \in Int
    BY <1>1, <1>3
  <2>3. SumOver(AmountsOf(rows), K \cup {k}) = SumOver(AmountsOf(rows), K) + AmountsOf(rows)[k]
    <3> HIDE DEF K
    <3> QED
      BY <2>1, <2>2, SumAdd
  <2> QED
    BY <1>3, <2>1, <2>3, ZenonT(40) DEF Reach
<1> QED
  BY <1>1, <1>2, <1>4, <1>5, <1>6 DEF Reach, Total

\* one step of RefundUse
Used(row, s) ==
  LET already == Lowest(s.offset, row.amount)
      use == Lowest(row.amount - already, s.refund)
  IN [offset |-> s.offset - already, refund |-> s.refund - use,
      uses |-> Append(s.uses, use)]

UseState == [offset : Nat, refund : Nat, uses : Seq(Nat)]

\* g has what RefundUse makes of a subset of the rows
IsUse(rows, prior, amount, g) ==
  g = [s \in SUBSET DOMAIN rows |->
         IF s = {} THEN [offset |-> prior, refund |-> amount, uses |-> << >>]
         ELSE Used(rows[Max(s)], g[s \ {Max(s)}])]

\* RefundUse is the function it iterates, at the set of all rows
LEMMA RefundUseDef ==
  ASSUME NEW rows, NEW prior, NEW amount
  PROVE  RefundUse(rows, prior, amount)
           = (CHOOSE g : IsUse(rows, prior, amount, g))[DOMAIN rows]
BY DEF RefundUse, MapThenFoldSet, IsUse, Used

\* a step keeps the state of RefundUse in its type
LEMMA UsedType ==
  ASSUME NEW row \in Rows, NEW s \in UseState
  PROVE  Used(row, s) \in UseState
<1> DEFINE already == Lowest(s.offset, row.amount)
           use == Lowest(row.amount - already, s.refund)
<1>1. s.offset \in Nat /\ s.refund \in Nat /\ s.uses \in Seq(Nat) /\ row.amount \in Nat
  BY DEF UseState, Rows
<1>2. s.offset - already \in Nat /\ row.amount - already \in Nat
  BY <1>1 DEF Lowest
<1>3. use \in Nat /\ s.refund - use \in Nat
  <2> HIDE DEF already
  <2> QED
    BY <1>1, <1>2 DEF Lowest
<1>4. Append(s.uses, use) \in Seq(Nat)
  <2> HIDE DEF use
  <2> QED
    BY <1>1, <1>3, SeqAppend
<1>5. Used(row, s) = [offset |-> s.offset - already, refund |-> s.refund - use,
                      uses |-> Append(s.uses, use)]
  BY DEF Used
<1> HIDE DEF already, use
<1> QED
  BY <1>2, <1>3, <1>4, <1>5 DEF UseState

\* the states of RefundUse, after every number of rows
LEMMA RefundUseStates ==
  ASSUME NEW rows \in Seq(Rows), NEW prior \in Nat, NEW amount \in Nat
  PROVE  \E st \in [0..Len(rows) -> UseState] :
           /\ st[0] = [offset |-> prior, refund |-> amount, uses |-> << >>]
           /\ \A k \in 1..Len(rows) : st[k] = Used(rows[k], st[k - 1])
           /\ RefundUse(rows, prior, amount) = st[Len(rows)]
<1> DEFINE n == Len(rows)
           I == 1..n
           base == [offset |-> prior, refund |-> amount, uses |-> << >>]
           pick == [s \in SUBSET I |-> Max(s)]
           step == [es \in I \X UseState |-> Used(rows[es[1]], es[2])]
<1>1. n \in Nat /\ DOMAIN rows = I /\ IsFiniteSet(I) /\ \A k \in I : rows[k] \in Rows
  BY ReachSteps, FS_Interval
<1>2. base \in UseState
  <2>1. << >> \in Seq(Nat)
    BY SeqEmpty
  <2> QED
    BY <2>1 DEF UseState
<1>3. step \in [I \X UseState -> UseState]
  BY <1>1, UsedType
<1>4. \A s \in SUBSET I : s # {} => Max(s) \in s
  BY <1>1, MaxOfPrefix, ZenonT(40)
<1>5. PICK g \in [SUBSET I -> UseState] : IsFold(g, I, base, step, pick)
  <2>1. \A s \in SUBSET I : s # {} => pick[s] \in s
    BY <1>4
  <2> HIDE DEF I, base, pick, step
  <2> QED
    BY <1>1, <1>2, <1>3, <2>1, FoldExists, ZenonT(40)
<1>6. IsUse(rows, prior, amount, g)
  <2>1. ASSUME NEW s \in SUBSET I
        PROVE  g[s] = IF s = {} THEN base ELSE Used(rows[Max(s)], g[s \ {Max(s)}])
    <3>1. CASE s = {}
      BY <1>5, <3>1, ZenonT(40) DEF IsFold
    <3>2. CASE s # {}
      <4>1. pick[s] = Max(s) /\ Max(s) \in I
        BY <1>4, <3>2, ZenonT(40)
      <4>2. g[s \ {Max(s)}] \in UseState
        BY ZenonT(40)
      <4>3. g[s] = step[<<Max(s), g[s \ {Max(s)}]>>]
        <5> HIDE DEF pick, step, base
        <5> QED
          BY <1>5, <3>2, <4>1, ZenonT(40) DEF IsFold
      <4>4. <<Max(s), g[s \ {Max(s)}]>> \in I \X UseState
        BY <4>1, <4>2
      <4>5. \A es \in I \X UseState : step[es] = Used(rows[es[1]], es[2])
        OBVIOUS
      <4> HIDE DEF step, I
      <4> QED
        BY <3>2, <4>3, <4>4, <4>5
    <3> QED
      BY <3>1, <3>2
  <2> HIDE DEF I
  <2> QED
    BY <1>1, <2>1, ZenonT(40) DEF IsUse
<1> DEFINE c == CHOOSE h : IsUse(rows, prior, amount, h)
<1>7. IsUse(rows, prior, amount, c)
  BY <1>6
<1>8. RefundUse(rows, prior, amount) = c[I]
  BY <1>1, RefundUseDef
<1> HIDE DEF c, I
<1>9. \A s \in SUBSET I :
        c[s] = IF s = {} THEN base ELSE Used(rows[Max(s)], c[s \ {Max(s)}])
  <2> HIDE DEF base
  <2> QED
    BY <1>1, <1>7, ZenonT(40) DEF IsUse, base
<1> DEFINE P == {s \in SUBSET I : c[s] \in UseState}
<1>10. ASSUME NEW s \in SUBSET I, \A u \in SUBSET s : u # s => u \in P
       PROVE  s \in P
  <2>1. CASE s = {}
    BY <1>2, <1>9, <2>1, ZenonT(40)
  <2>2. CASE s # {}
    <3>1. Max(s) \in s
      BY <1>4, <2>2
    <3>2. c[s \ {Max(s)}] \in UseState
      BY <1>10, <3>1
    <3>3. c[s] = Used(rows[Max(s)], c[s \ {Max(s)}])
      BY <1>9, <2>2, ZenonT(40)
    <3>4. rows[Max(s)] \in Rows
      BY <1>1, <3>1
    <3> QED
      BY <3>2, <3>3, <3>4, UsedType, ZenonT(40)
  <2> QED
    BY <2>1, <2>2
<1>11. P = SUBSET I
  <2> HIDE DEF P
  <2>1. P \in SUBSET (SUBSET I)
    BY DEF P
  <2> QED
    BY <1>1, <1>10, <2>1, SubsetInduction
<1> DEFINE st == [k \in 0..n |-> c[1..k]]
<1>12. st \in [0..n -> UseState]
  <2>1. \A k \in 0..n : 1..k \in SUBSET I
    BY <1>1 DEF I
  <2> QED
    BY <1>11, <2>1
<1>13. st[0] = base
  <2>1. 1..0 = {} /\ {} \in SUBSET I /\ 0 \in 0..n
    BY <1>1
  <2> HIDE DEF base
  <2> QED
    BY <1>9, <2>1, ZenonT(40)
<1>14. ASSUME NEW k \in 1..n PROVE st[k] = Used(rows[k], st[k - 1])
  <2>1. /\ 1..k \in SUBSET I /\ 1..k # {} /\ Max(1..k) = k /\ (1..k) \ {k} = 1..(k - 1)
        /\ k \in 0..n /\ k - 1 \in 0..n
    BY <1>1, UpTo DEF I
  <2>2. c[1..k] = Used(rows[k], c[1..(k - 1)])
    BY <1>9, <2>1, ZenonT(40)
  <2> QED
    BY <2>1, <2>2
<1>15. RefundUse(rows, prior, amount) = st[n]
  BY <1>1, <1>8 DEF I
<1> HIDE DEF st
<1> QED
  BY <1>12, <1>13, <1>14, <1>15, ZenonT(40)

\* what a refund of amount, after refunds of prior, has restored once it has reached p
Restored(p, prior, amount) == Lowest(IF p > prior THEN p - prior ELSE 0, amount)

\* the state of RefundUse after k rows
UseOK(rows, prior, amount, k, s) ==
  /\ s.offset = prior - Lowest(Reach(rows, k), prior)
  /\ s.refund = amount - Restored(Reach(rows, k), prior, amount)
  /\ Len(s.uses) = k
  /\ \A i \in 1..k :
       s.uses[i] = Restored(Reach(rows, i), prior, amount)
                     - Restored(Reach(rows, i - 1), prior, amount)

\* what is restored of a, after d, by a refund of m
LEMMA LowestStep ==
  ASSUME NEW d \in Nat, NEW a \in Nat, NEW m \in Nat
  PROVE  Lowest(a, m - Lowest(d, m)) = Lowest(d + a, m) - Lowest(d, m)
BY DEF Lowest

\* a row more
LEMMA UsedKeeps ==
  ASSUME NEW rows \in Seq(Rows), NEW prior \in Nat, NEW amount \in Nat, NEW k \in 1..Len(rows),
         NEW s \in UseState, UseOK(rows, prior, amount, k - 1, s)
  PROVE  UseOK(rows, prior, amount, k, Used(rows[k], s))
<1> DEFINE row == rows[k]
           already == Lowest(s.offset, row.amount)
           use == Lowest(row.amount - already, s.refund)
           p == Reach(rows, k - 1)
           q == Reach(rows, k)
           r == Used(row, s)
<1>1. /\ s.offset \in Nat /\ s.refund \in Nat /\ s.uses \in Seq(Nat)
      /\ row.amount \in Nat /\ p \in Nat /\ q \in Nat /\ q = p + row.amount
  <2>1. Len(rows) \in Nat /\ k - 1 \in 0..Len(rows) /\ k \in 0..Len(rows)
    BY ReachSteps
  <2>2. row \in Rows
    BY ReachSteps
  <2> QED
    BY <2>1, <2>2, ReachSteps, ZenonT(40) DEF UseState, Rows
<1>2. /\ s.offset = prior - Lowest(p, prior)
      /\ s.refund = amount - Restored(p, prior, amount)
      /\ Len(s.uses) = k - 1
  BY DEF UseOK
<1>3. r = [offset |-> s.offset - already, refund |-> s.refund - use,
           uses |-> Append(s.uses, use)]
  BY DEF Used
<1>4. r.offset = s.offset - already /\ r.refund = s.refund - use /\ r.uses = Append(s.uses, use)
  BY <1>3
<1>5. /\ s.offset - already = prior - Lowest(q, prior)
      /\ use = Restored(q, prior, amount) - Restored(p, prior, amount)
  <2> HIDE DEF p, q, row
  <2>1. CASE p >= prior
    <3>1. Lowest(p, prior) = prior /\ Lowest(q, prior) = prior
      BY <1>1, <2>1 DEF Lowest
    <3>2. s.offset = 0 /\ already = 0
      BY <1>1, <1>2, <3>1 DEF Lowest
    <3>3. /\ Restored(p, prior, amount) = Lowest(p - prior, amount)
          /\ Restored(q, prior, amount) = Lowest((p - prior) + row.amount, amount)
      <4>1. \A m \in Nat : m >= prior => (IF m > prior THEN m - prior ELSE 0) = m - prior
        OBVIOUS
      <4>2. \A m \in Nat : m >= prior => Restored(m, prior, amount) = Lowest(m - prior, amount)
        BY <4>1 DEF Restored
      <4>3. q >= prior /\ q - prior = (p - prior) + row.amount
        BY <1>1, <2>1
      <4>4. Restored(q, prior, amount) = Lowest(q - prior, amount)
        BY <1>1, <4>2, <4>3
      <4> QED
        BY <1>1, <2>1, <4>2, <4>3, <4>4, ZenonT(40)
    <3>4. use = Lowest(row.amount, s.refund)
      BY <1>1, <3>2
    <3>5. Lowest(row.amount, amount - Lowest(p - prior, amount))
            = Lowest((p - prior) + row.amount, amount) - Lowest(p - prior, amount)
      <4>1. p - prior \in Nat
        BY <1>1, <2>1
      <4> QED
        BY <1>1, <4>1, LowestStep, ZenonT(40)
    <3> HIDE DEF already, use
    <3>6. use = Restored(q, prior, amount) - Restored(p, prior, amount)
      BY <1>2, <3>3, <3>4, <3>5
    <3> QED
      BY <3>1, <3>2, <3>6
  <2>2. CASE p < prior /\ q <= prior
    <3>1. Lowest(p, prior) = p /\ Lowest(q, prior) = q
      BY <1>1, <2>2 DEF Lowest
    <3>2. already = row.amount
      BY <1>1, <1>2, <2>2, <3>1 DEF Lowest
    <3>3. Restored(p, prior, amount) = 0 /\ Restored(q, prior, amount) = 0
      BY <1>1, <2>2 DEF Restored, Lowest
    <3>4. use = 0
      BY <1>1, <3>2 DEF Lowest
    <3> HIDE DEF already, use
    <3> QED
      BY <1>1, <1>2, <3>1, <3>2, <3>3, <3>4
  <2>3. CASE p < prior /\ q > prior
    <3>1. Lowest(p, prior) = p /\ Lowest(q, prior) = prior
      BY <1>1, <2>3 DEF Lowest
    <3>2. already = prior - p
      BY <1>1, <1>2, <2>3, <3>1 DEF Lowest
    <3>3. Restored(p, prior, amount) = 0 /\ Restored(q, prior, amount) = Lowest(q - prior, amount)
      BY <1>1, <2>3 DEF Restored, Lowest
    <3>4. use = Lowest(row.amount - (prior - p), amount)
      BY <1>1, <1>2, <3>2, <3>3
    <3>5. row.amount - (prior - p) = q - prior
      BY <1>1
    <3>6. Lowest(q - prior, amount) \in Int
      BY <1>1 DEF Lowest
    <3> HIDE DEF already, use
    <3> QED
      BY <1>1, <1>2, <3>1, <3>2, <3>3, <3>4, <3>5, <3>6
  <2> QED
    BY <1>1, <2>1, <2>2, <2>3
<1>6. use = Restored(q, prior, amount) - Restored(p, prior, amount)
  BY <1>5
<1>7. s.refund - use = amount - Restored(q, prior, amount)
  <2>1. Restored(p, prior, amount) \in Int /\ Restored(q, prior, amount) \in Int
    <3> HIDE DEF p, q
    <3> QED
      BY <1>1 DEF Restored, Lowest
  <2> HIDE DEF p, q, use
  <2> QED
    BY <1>1, <1>2, <1>6, <2>1
<1>8. use \in Nat
  <2>1. already \in Nat /\ row.amount - already \in Nat
    <3> HIDE DEF row
    <3> QED
      BY <1>1 DEF Lowest
  <2> HIDE DEF already, row
  <2> QED
    BY <1>1, <2>1, ZenonT(40) DEF Lowest
<1> HIDE DEF use, already, p, q, r
<1>9. /\ Len(r.uses) = k /\ r.uses[k] = use
      /\ \A i \in 1..(k - 1) : r.uses[i] = s.uses[i]
  <2>1. /\ Len(Append(s.uses, use)) = Len(s.uses) + 1 /\ Append(s.uses, use)[Len(s.uses) + 1] = use
        /\ \A i \in 1..Len(s.uses) : Append(s.uses, use)[i] = s.uses[i]
    BY <1>1, <1>8, SeqAppend
  <2>2. Len(s.uses) + 1 = k
    BY <1>2
  <2> QED
    BY <1>2, <1>4, <2>1, <2>2
<1>10. ASSUME NEW i \in 1..k
       PROVE  r.uses[i] = Restored(Reach(rows, i), prior, amount)
                            - Restored(Reach(rows, i - 1), prior, amount)
  <2>1. CASE i = k
    BY <1>6, <1>9, <2>1, ZenonT(40) DEF p, q
  <2>2. CASE i # k
    <3>1. i \in 1..(k - 1)
      BY <2>2
    <3> QED
      BY <1>9, <3>1 DEF UseOK
  <2> QED
    BY <2>1, <2>2, ZenonT(40)
<1>11. UseOK(rows, prior, amount, k, r)
  BY <1>4, <1>5, <1>7, <1>9, <1>10, ZenonT(40) DEF UseOK, q
<1> QED
  BY <1>11 DEF r

\* RefundUse restores of row i what lies between prior and prior + amount
LEMMA RefundUseIs ==
  ASSUME NEW rows \in Seq(Rows), NEW prior \in Nat, NEW amount \in Nat
  PROVE  /\ RefundUse(rows, prior, amount) \in UseState
         /\ UseOK(rows, prior, amount, Len(rows), RefundUse(rows, prior, amount))
<1> DEFINE n == Len(rows)
<1>1. n \in Nat
  BY ReachSteps
<1>2. PICK st \in [0..n -> UseState] :
        /\ st[0] = [offset |-> prior, refund |-> amount, uses |-> << >>]
        /\ \A k \in 1..n : st[k] = Used(rows[k], st[k - 1])
        /\ RefundUse(rows, prior, amount) = st[n]
  BY RefundUseStates
<1> DEFINE T == {k \in Nat : k <= n => UseOK(rows, prior, amount, k, st[k])}
<1>3. 0 \in T
  <2>1. Reach(rows, 0) = 0
    BY ReachSteps
  <2>2. Lowest(0, prior) = 0 /\ Restored(0, prior, amount) = 0
    BY DEF Lowest, Restored
  <2>3. st[0].offset = prior /\ st[0].refund = amount /\ st[0].uses = << >> /\ Len(<< >>) = 0
    BY <1>2
  <2> QED
    BY <2>1, <2>2, <2>3 DEF UseOK
<1>4. ASSUME NEW k \in T PROVE k + 1 \in T
  <2> SUFFICES ASSUME k + 1 <= n PROVE UseOK(rows, prior, amount, k + 1, st[k + 1])
    OBVIOUS
  <2>1. k + 1 \in 1..n /\ (k + 1) - 1 = k /\ k \in 0..n
    BY <1>1
  <2>2. st[k + 1] = Used(rows[k + 1], st[k])
    BY <1>2, <2>1, ZenonT(40)
  <2>3. UseOK(rows, prior, amount, (k + 1) - 1, st[k]) /\ st[k] \in UseState
    BY <1>1, <1>4, <2>1
  <2> QED
    BY <2>1, <2>2, <2>3, UsedKeeps, ZenonT(40)
<1>5. T = Nat
  <2> HIDE DEF T
  <2>1. T \in SUBSET Nat
    BY DEF T
  <2> QED
    BY <1>3, <1>4, <2>1, NatSetInduction, ZenonT(40)
<1>6. UseOK(rows, prior, amount, n, st[n]) /\ st[n] \in UseState
  BY <1>1, <1>5
<1> QED
  BY <1>2, <1>6, ZenonT(40)

\* what is restored of a row is a number, and nothing if nothing is refunded
LEMMA UseType ==
  ASSUME NEW rows \in Seq(Rows), NEW x \in Nat, NEW y \in Nat, NEW i \in DOMAIN rows
  PROVE  /\ RefundUse(rows, x, y).uses[i] \in Int
         /\ RefundUse(rows, 0, 0).uses[i] = 0
<1> DEFINE p == Reach(rows, i - 1)
           q == Reach(rows, i)
<1>1. i \in 1..Len(rows) /\ p \in Nat /\ q \in Nat
  <2>1. Len(rows) \in Nat /\ i \in 1..Len(rows)
    BY ReachSteps, ZenonT(40)
  <2>2. i \in 0..Len(rows) /\ i - 1 \in 0..Len(rows)
    BY <2>1
  <2> QED
    BY <2>1, <2>2, ReachSteps, ZenonT(40)
<1>2. /\ RefundUse(rows, x, y).uses[i] = Restored(q, x, y) - Restored(p, x, y)
      /\ RefundUse(rows, 0, 0).uses[i] = Restored(q, 0, 0) - Restored(p, 0, 0)
  <2>1. /\ UseOK(rows, x, y, Len(rows), RefundUse(rows, x, y))
        /\ UseOK(rows, 0, 0, Len(rows), RefundUse(rows, 0, 0))
    <3>1. 0 \in Nat
      OBVIOUS
    <3> QED
      BY <3>1, RefundUseIs, ZenonT(40)
  <2> QED
    BY <1>1, <2>1, ZenonT(40) DEF UseOK
<1> HIDE DEF p, q
<1>3. \A m \in Nat : Restored(m, x, y) \in Int /\ Restored(m, 0, 0) = 0
  BY DEF Restored, Lowest
<1>4. /\ Restored(q, x, y) \in Int /\ Restored(p, x, y) \in Int
      /\ Restored(q, 0, 0) = 0 /\ Restored(p, 0, 0) = 0
  BY <1>1, <1>3, ZenonT(40)
<1> QED
  BY <1>2, <1>4

\* a refund of y after refunds of x restores what is missing to a refund of x + y
LEMMA UseTiles ==
  ASSUME NEW rows \in Seq(Rows), NEW x \in Nat, NEW y \in Nat, NEW i \in DOMAIN rows
  PROVE  RefundUse(rows, 0, x).uses[i] + RefundUse(rows, x, y).uses[i]
           = RefundUse(rows, 0, x + y).uses[i]
<1> DEFINE p == Reach(rows, i - 1)
           q == Reach(rows, i)
<1>1. x + y \in Nat /\ 0 \in Nat
  OBVIOUS
<1>2. i \in 1..Len(rows) /\ p \in Nat /\ q \in Nat
  <2>1. Len(rows) \in Nat /\ i \in 1..Len(rows)
    BY ReachSteps, ZenonT(40)
  <2>2. i \in 0..Len(rows) /\ i - 1 \in 0..Len(rows)
    BY <2>1
  <2> QED
    BY <2>1, <2>2, ReachSteps, ZenonT(40)
<1>3. /\ RefundUse(rows, 0, x).uses[i] = Restored(q, 0, x) - Restored(p, 0, x)
      /\ RefundUse(rows, x, y).uses[i] = Restored(q, x, y) - Restored(p, x, y)
      /\ RefundUse(rows, 0, x + y).uses[i] = Restored(q, 0, x + y) - Restored(p, 0, x + y)
  <2>1. /\ UseOK(rows, 0, x, Len(rows), RefundUse(rows, 0, x))
        /\ UseOK(rows, x, y, Len(rows), RefundUse(rows, x, y))
        /\ UseOK(rows, 0, x + y, Len(rows), RefundUse(rows, 0, x + y))
    BY <1>1, RefundUseIs, ZenonT(40)
  <2> QED
    BY <1>2, <2>1, ZenonT(40) DEF UseOK
<1> HIDE DEF p, q
<1>4. \A m \in Nat : /\ Restored(m, 0, x) + Restored(m, x, y) = Restored(m, 0, x + y)
                     /\ Restored(m, 0, x) \in Int /\ Restored(m, x, y) \in Int
  BY <1>1 DEF Restored, Lowest
<1>5. (Restored(q, 0, x) - Restored(p, 0, x)) + (Restored(q, x, y) - Restored(p, x, y))
        = Restored(q, 0, x + y) - Restored(p, 0, x + y)
  <2>1. /\ Restored(q, 0, x) + Restored(q, x, y) = Restored(q, 0, x + y)
        /\ Restored(q, 0, x) \in Int /\ Restored(q, x, y) \in Int
    BY <1>2, <1>4, ZenonT(40)
  <2>2. /\ Restored(p, 0, x) + Restored(p, x, y) = Restored(p, 0, x + y)
        /\ Restored(p, 0, x) \in Int /\ Restored(p, x, y) \in Int
    BY <1>2, <1>4, ZenonT(40)
  <2> QED
    BY <2>1, <2>2
<1> QED
  BY <1>3, <1>5, ZenonT(40)

-----------------------------------------------------------------------------
(* The parts of a refund *)

\* the days that a row had left when it was taken
LeftOf(row) == IF row.expire > row.day THEN DiffDays(row.expire, row.day) ELSE 1

\* what is restored of a row
PartOf(row, use, today) == [expire |-> today + LeftOf(row), amount |-> use]

\* one step of RefundParts
Added(row, use, today, parts) ==
  IF use = 0 THEN parts ELSE AddPart(parts, PartOf(row, use, today))

\* g has what RefundParts makes of a subset of the rows
IsRestore(rows, uses, today, g) ==
  g = [s \in SUBSET DOMAIN rows |->
         IF s = {} THEN << >>
         ELSE Added(rows[Max(s)], uses[Max(s)], today, g[s \ {Max(s)}])]

\* RefundParts is the function it iterates, at the set of all rows
LEMMA RefundPartsDef ==
  ASSUME NEW t
  PROVE  LET rows == taken[Origin(t)]
             uses == RefundUse(rows, PriorDebited(t), Amount(t)).uses
         IN RefundParts(t)
              = (CHOOSE g : IsRestore(rows, uses, Today, g))[DOMAIN rows]
BY DEF RefundParts, Uses, MapThenFoldSet, IsRestore, Added, PartOf, LeftOf

\* a row has between one day and MaxDays left
LEMMA LeftType ==
  ASSUME NEW row \in Rows
  PROVE  LeftOf(row) \in 1..MaxDays
<1>1. row.expire \in Nat /\ row.day \in Nat
  BY DEF Rows
<1>2. MaxDays \in Nat \ {0}
  BY DateAssumption
<1> QED
  BY <1>1, <1>2 DEF LeftOf, DiffDays, Lowest

\* a row that expires later has no less left
LEMMA LeftGrows ==
  ASSUME NEW r \in Rows, NEW s \in Rows, r.day = s.day, r.expire <= s.expire
  PROVE  LeftOf(r) <= LeftOf(s)
<1>1. r.expire \in Nat /\ r.day \in Nat /\ s.expire \in Nat
  BY DEF Rows
<1>2. MaxDays \in Nat \ {0}
  BY DateAssumption
<1> QED
  BY <1>1, <1>2 DEF LeftOf, DiffDays, Lowest

\* the last part grows
Merged(parts, use) == [parts EXCEPT ![Len(parts)].amount = @ + use]

\* a part that is merged with the last one adds its amount
LEMMA TotalMerge ==
  ASSUME NEW parts \in Seq(Parts), parts # << >>, NEW use \in Nat \ {0}
  PROVE  /\ Merged(parts, use) \in Seq(Parts) /\ Len(Merged(parts, use)) = Len(parts)
         /\ Len(parts) \in Nat \ {0}
         /\ \A i \in 1..Len(parts) : Merged(parts, use)[i].expire = parts[i].expire
         /\ Total(Merged(parts, use)) = Total(parts) + use
<1> DEFINE n == Len(parts)
           more == Merged(parts, use)
<1>1. n \in Nat \ {0} /\ DOMAIN parts = 1..n /\ \A i \in 1..n : parts[i] \in Parts
  OBVIOUS
<1>2. n \in 1..n
  BY <1>1
<1>3. more = [parts EXCEPT ![n] = [parts[n] EXCEPT !.amount = parts[n].amount + use]]
  BY DEF Merged
<1>4. [parts[n] EXCEPT !.amount = parts[n].amount + use]
        = [expire |-> parts[n].expire, amount |-> parts[n].amount + use]
  <2> DEFINE q == parts[n]
  <2>1. q \in [expire : Nat \ {0}, amount : Nat \ {0}]
    BY <1>1, <1>2, ZenonT(40) DEF Parts
  <2> HIDE DEF q
  <2>2. [q EXCEPT !.amount = q.amount + use] = [expire |-> q.expire, amount |-> q.amount + use]
    BY <2>1
  <2> QED
    BY <2>2 DEF q
<1> DEFINE last == [expire |-> parts[n].expire, amount |-> parts[n].amount + use]
<1>5. last \in Parts
  BY <1>1, <1>2 DEF Parts
<1>6. more = [parts EXCEPT ![n] = last]
  BY <1>3, <1>4, ZenonT(40)
<1> HIDE DEF last, more, n
<1>7. more \in Seq(Parts) /\ Len(more) = n
  BY <1>1, <1>5, <1>6 DEF n
<1>8. more[n] = last /\ \A i \in 1..n : i # n => more[i] = parts[i]
  BY <1>1, <1>2, <1>6, ZenonT(40)
<1>9. \A i \in 1..n : more[i].expire = parts[i].expire
  BY <1>8 DEF last
<1>10. Total(more) = Total(parts) + use
  <2> DEFINE f == AmountsOf(parts)
             h == AmountsOf(more)
  <2>1. /\ DOMAIN parts = 1..n /\ DOMAIN more = 1..n /\ IsFiniteSet(1..n)
        /\ \A i \in 1..n : f[i] = parts[i].amount /\ f[i] \in Nat
        /\ \A i \in 1..n : h[i] = more[i].amount /\ h[i] \in Nat
    BY <1>1, <1>7, AmountsOfParts, ZenonT(40)
  <2> HIDE DEF f, h
  <2>2. h[n] = f[n] + use
    BY <1>2, <1>8, <2>1 DEF last
  <2>3. \A i \in (1..n) \ {n} : h[i] = f[i]
    BY <1>8, <2>1, ZenonT(40)
  <2>4. SumOver(h, 1..n) = SumOver(f, 1..n) - f[n] + h[n]
    <3>1. (\A i \in 1..n : f[i] \in Int) /\ h[n] \in Int
      BY <1>2, <2>1
    <3> QED
      BY <1>2, <2>1, <2>3, <3>1, SumChange
  <2>5. SumOver(f, 1..n) \in Int
    <3>1. \A i \in 1..n : f[i] \in Int
      BY <2>1
    <3> QED
      BY <2>1, <3>1, SumType, ZenonT(40)
  <2>6. f[n] \in Nat
    BY <1>2, <2>1, ZenonT(40)
  <2>7. SumOver(h, 1..n) = SumOver(f, 1..n) + use
    BY <2>2, <2>4, <2>5, <2>6
  <2> QED
    BY <2>1, <2>7, ZenonT(40) DEF Total, f, h
<1> QED
  BY <1>1, <1>7, <1>9, <1>10, ZenonT(40) DEF more, n

\* r is parts, with the last part merged with a new one, or with a new one added
Adds(row, use, today, parts, r) ==
  \/ use = 0 /\ r = parts
  \/ /\ use # 0 /\ parts # << >> /\ parts[Len(parts)].expire = today + LeftOf(row)
     /\ r = Merged(parts, use)
  \/ /\ use # 0 /\ (parts # << >> => parts[Len(parts)].expire # today + LeftOf(row))
     /\ PartOf(row, use, today) \in Parts
     /\ r = Append(parts, PartOf(row, use, today))

\* a step keeps parts in their type
LEMMA AddedIs ==
  ASSUME NEW row \in Rows, NEW use \in Nat, NEW today \in Nat, NEW parts \in Seq(Parts)
  PROVE  /\ Added(row, use, today, parts) \in Seq(Parts)
         /\ Adds(row, use, today, parts, Added(row, use, today, parts))
<1> DEFINE part == PartOf(row, use, today)
           n == Len(parts)
<1>1. LeftOf(row) \in Nat \ {0}
  <2>1. LeftOf(row) \in 1..MaxDays /\ MaxDays \in Nat
    BY LeftType, DateAssumption, ZenonT(40)
  <2> HIDE DEF LeftOf
  <2> QED
    BY <2>1
<1>2. part.expire = today + LeftOf(row) /\ part.amount = use
  BY DEF PartOf
<1>3. CASE use = 0
  BY <1>3, ZenonT(40) DEF Added, Adds
<1>4. CASE use # 0
  <2>1. part \in Parts
    <3>1. today + LeftOf(row) \in Nat \ {0} /\ use \in Nat \ {0}
      BY <1>1, <1>4
    <3> HIDE DEF LeftOf
    <3> QED
      BY <3>1 DEF Parts, PartOf
  <2>2. Added(row, use, today, parts) = AddPart(parts, part)
    BY <1>4 DEF Added
  <2> HIDE DEF part
  <2>3. CASE parts # << >> /\ parts[n].expire = part.expire
    <3>1. AddPart(parts, part) = Merged(parts, use)
      BY <1>2, <2>3 DEF AddPart, Merged
    <3>2. Merged(parts, use) \in Seq(Parts)
      BY <1>4, <2>3, TotalMerge, ZenonT(40)
    <3> QED
      BY <1>2, <1>4, <2>2, <2>3, <3>1, <3>2, ZenonT(40) DEF Adds
  <2>4. CASE ~(parts # << >> /\ parts[n].expire = part.expire)
    <3>1. AddPart(parts, part) = Append(parts, part)
      BY <2>4 DEF AddPart
    <3>2. Append(parts, part) \in Seq(Parts)
      BY <2>1, SeqAppend, ZenonT(40)
    <3> QED
      BY <1>2, <1>4, <2>1, <2>2, <2>4, <3>1, <3>2, ZenonT(40) DEF Adds, part
  <2> QED
    BY <2>3, <2>4, ZenonT(40)
<1> QED
  BY <1>3, <1>4, ZenonT(40)

\* the rows of a debit: of one day, and in the order of their dates
RowsOK(rows) ==
  /\ \A i \in DOMAIN rows : rows[i].expire <= NoExpire
  /\ \A i, j \in DOMAIN rows :
       rows[i].day = rows[j].day /\ (i < j => rows[i].expire < rows[j].expire)

\* the parts after k rows: what was restored, of different dates, none after that of row k
RestoreOK(rows, prior, amount, today, k, s) ==
  /\ Total(s) = Restored(Reach(rows, k), prior, amount)
  /\ \A i, j \in DOMAIN s : i < j => s[i].expire < s[j].expire
  /\ \A i \in DOMAIN s : k # 0 /\ s[i].expire <= today + LeftOf(rows[k])

\* a row more
LEMMA AddedKeeps ==
  ASSUME NEW rows \in Seq(Rows), RowsOK(rows), NEW prior \in Nat, NEW amount \in Nat,
         NEW today \in Nat, NEW k \in 1..Len(rows), NEW use \in Nat,
         use = Restored(Reach(rows, k), prior, amount)
                 - Restored(Reach(rows, k - 1), prior, amount),
         NEW s \in Seq(Parts), RestoreOK(rows, prior, amount, today, k - 1, s)
  PROVE  RestoreOK(rows, prior, amount, today, k, Added(rows[k], use, today, s))
<1> DEFINE left == LeftOf(rows[k])
           part == PartOf(rows[k], use, today)
           n == Len(s)
           r == Added(rows[k], use, today, s)
           before == Restored(Reach(rows, k - 1), prior, amount)
           after == Restored(Reach(rows, k), prior, amount)
<1>1. /\ n \in Nat /\ DOMAIN s = 1..n
      /\ \A i \in 1..n : s[i].expire \in Nat \ {0}
  BY AmountsOfParts, ZenonT(40)
<1>2. Len(rows) \in Nat /\ DOMAIN rows = 1..Len(rows) /\ rows[k] \in Rows
  BY ReachSteps, ZenonT(40)
<1>3. left \in Nat
  <2>1. left \in 1..MaxDays /\ MaxDays \in Nat
    BY <1>2, LeftType, DateAssumption, ZenonT(40)
  <2> HIDE DEF left
  <2> QED
    BY <2>1
<1>4. \A i \in 1..n : s[i].expire <= today + left
  <2> SUFFICES ASSUME NEW i \in 1..n PROVE s[i].expire <= today + left
    BY ZenonT(40)
  <2> DEFINE l == LeftOf(rows[k - 1])
  <2>1. k - 1 # 0 /\ s[i].expire <= today + l
    BY <1>1, ZenonT(40) DEF RestoreOK
  <2>2. k - 1 \in 1..Len(rows) /\ k - 1 < k
    BY <1>2, <2>1
  <2>3. rows[k - 1] \in Rows
    BY <2>2, ReachSteps, ZenonT(40)
  <2>4. rows[k - 1].day = rows[k].day /\ rows[k - 1].expire < rows[k].expire
    BY <1>2, <2>2, ZenonT(40) DEF RowsOK
  <2>5. l <= left
    <3>1. rows[k - 1].expire <= rows[k].expire
      <4>1. rows[k - 1].expire \in Nat /\ rows[k].expire \in Nat
        BY <1>2, <2>3, ZenonT(40) DEF Rows
      <4> QED
        BY <2>4, <4>1
    <3> QED
      BY <1>2, <2>3, <2>4, <3>1, LeftGrows, ZenonT(40)
  <2>6. l \in Nat
    <3>1. l \in 1..MaxDays /\ MaxDays \in Nat
      BY <2>3, LeftType, DateAssumption, ZenonT(40)
    <3> HIDE DEF l
    <3> QED
      BY <3>1
  <2> HIDE DEF l, left
  <2>7. s[i].expire \in Nat
    BY <1>1, ZenonT(40)
  <2> QED
    BY <1>3, <2>1, <2>5, <2>6, <2>7
<1>5. before \in Nat /\ after \in Nat /\ after = before + use
  <2>1. k \in 0..Len(rows) /\ k - 1 \in 0..Len(rows)
    BY <1>2
  <2>2. Reach(rows, k) \in Nat /\ Reach(rows, k - 1) \in Nat
    BY <2>1, ReachSteps, ZenonT(40)
  <2>3. \A p \in Nat : Restored(p, prior, amount) \in Nat
    BY DEF Restored, Lowest
  <2>4. before \in Nat /\ after \in Nat
    BY <2>2, <2>3, ZenonT(40)
  <2>5. use = after - before
    OBVIOUS
  <2> HIDE DEF before, after
  <2> QED
    BY <2>4, <2>5
<1>6. Total(s) = before /\ \A i, j \in 1..n : i < j => s[i].expire < s[j].expire
  BY <1>1, ZenonT(40) DEF RestoreOK
<1> HIDE DEF before
<1>7. CASE use = 0 /\ r = s
  <2>1. Total(r) = after
    BY <1>5, <1>6, <1>7
  <2>2. k # 0
    BY <1>2
  <2> HIDE DEF r, left, after
  <2>3. RestoreOK(rows, prior, amount, today, k, r)
    BY <1>1, <1>4, <1>6, <1>7, <2>1, <2>2, ZenonT(40) DEF RestoreOK, after, left
  <2> QED
    BY <2>3, ZenonT(40) DEF r
<1>8. CASE use # 0 /\ s # << >> /\ s[n].expire = today + left
           /\ r = Merged(s, use)
  <2>1. /\ r \in Seq(Parts) /\ Len(r) = n /\ n \in Nat \ {0}
        /\ \A i \in 1..n : r[i].expire = s[i].expire
        /\ Total(r) = Total(s) + use
    <3> HIDE DEF r, part, left, after
    <3>1. use \in Nat \ {0}
      BY <1>8
    <3> QED
      BY <1>8, <3>1, TotalMerge, ZenonT(40)
  <2>2. DOMAIN r = 1..n
    BY <2>1, AmountsOfParts, ZenonT(40)
  <2>3. Total(r) = after /\ k # 0
    BY <1>2, <1>5, <1>6, <2>1
  <2> HIDE DEF r, left, after, n
  <2>4. RestoreOK(rows, prior, amount, today, k, r)
    BY <1>4, <1>6, <2>1, <2>2, <2>3, ZenonT(40) DEF RestoreOK, after, left
  <2> QED
    BY <2>4 DEF r
<1>9. CASE use # 0 /\ (s # << >> => s[n].expire # today + left) /\ part \in Parts
           /\ r = Append(s, part)
  <2>1. /\ r \in Seq(Parts) /\ Len(r) = n + 1 /\ r[n + 1] = part
        /\ \A i \in 1..n : r[i] = s[i]
    <3> HIDE DEF r, part, left, after
    <3> QED
      BY <1>9, SeqAppend
  <2>2. DOMAIN r = 1..(n + 1)
    BY <2>1, AmountsOfParts, ZenonT(40)
  <2>3. Total(r) = Total(s) + use
    <3>1. part.amount = use
      BY ZenonT(40) DEF PartOf
    <3> HIDE DEF part, r
    <3> QED
      BY <1>9, <3>1, TotalAppend, ZenonT(40)
  <2>4. Total(r) = after /\ k # 0
    BY <1>2, <1>5, <1>6, <2>3
  <2>5. part.expire = today + left
    BY ZenonT(40) DEF PartOf
  <2>6. n # 0 => s # << >>
    BY <1>1
  <2> HIDE DEF r, left, after, n, part
  <2>7. \A i \in 1..n : s[i].expire < today + left
    <3> SUFFICES ASSUME NEW i \in 1..n PROVE s[i].expire < today + left
      BY ZenonT(40)
    <3>1. n \in 1..n /\ s[n].expire # today + left /\ s[n].expire <= today + left
      BY <1>1, <1>4, <1>9, <2>6
    <3>2. i < n => s[i].expire < s[n].expire
      BY <1>6, <3>1, ZenonT(40)
    <3>3. s[i].expire \in Nat /\ s[n].expire \in Nat
      BY <1>1, <3>1, ZenonT(40)
    <3> DEFINE x == s[i].expire
               y == s[n].expire
    <3> HIDE DEF x, y
    <3>4. CASE i = n
      BY <1>3, <3>1, <3>3, <3>4
    <3>5. CASE i # n
      <4>1. i < n
        BY <1>1, <3>5
      <4>2. x \in Nat /\ y \in Nat /\ x < y /\ y <= today + left
        BY <3>1, <3>2, <3>3, <4>1, ZenonT(40) DEF x, y
      <4>3. x < today + left
        BY <1>3, <4>2
      <4> QED
        BY <4>3, ZenonT(40) DEF x
    <3> QED
      BY <3>4, <3>5, ZenonT(40)
  <2>8. ASSUME NEW i \in 1..(n + 1), NEW j \in 1..(n + 1), i < j
        PROVE  r[i].expire < r[j].expire
    <3>1. i \in 1..n
      BY <1>1, <2>8
    <3>2. CASE j = n + 1
      BY <2>1, <2>5, <2>7, <3>1, <3>2, ZenonT(40)
    <3>3. CASE j # n + 1
      <4>1. j \in 1..n
        BY <1>1, <3>3
      <4> QED
        BY <1>6, <2>1, <2>8, <3>1, <4>1, ZenonT(40)
    <3> QED
      BY <3>2, <3>3, ZenonT(40)
  <2>9. ASSUME NEW i \in 1..(n + 1) PROVE r[i].expire <= today + left
    <3>1. CASE i = n + 1
      BY <1>3, <2>1, <2>5, <3>1
    <3>2. CASE i # n + 1
      <4>1. i \in 1..n
        BY <1>1, <3>2
      <4> QED
        BY <1>4, <2>1, <4>1, ZenonT(40)
    <3> QED
      BY <3>1, <3>2, ZenonT(40)
  <2>10. RestoreOK(rows, prior, amount, today, k, r)
    BY <2>2, <2>4, <2>8, <2>9, ZenonT(40) DEF RestoreOK, after, left
  <2> QED
    BY <2>10 DEF r
<1> QED
  <2>1. \/ use = 0 /\ r = s
        \/ use # 0 /\ s # << >> /\ s[n].expire = today + left /\ r = Merged(s, use)
        \/ use # 0 /\ (s # << >> => s[n].expire # today + left) /\ part \in Parts
           /\ r = Append(s, part)
    <3>1. Adds(rows[k], use, today, s, r)
      BY <1>2, AddedIs, ZenonT(40)
    <3> QED
      BY <3>1, ZenonT(40) DEF Adds
  <2> QED
    BY <1>7, <1>8, <1>9, <2>1, ZenonT(40)

\* the states of RefundParts, after every number of rows
LEMMA RefundPartsStates ==
  ASSUME NEW t, NEW rows \in Seq(Rows), NEW uses, rows = taken[Origin(t)],
         uses = RefundUse(rows, PriorDebited(t), Amount(t)).uses,
         \A k \in 1..Len(rows) : uses[k] \in Nat, Today \in Nat
  PROVE  \E st \in [0..Len(rows) -> Seq(Parts)] :
           /\ st[0] = << >>
           /\ \A k \in 1..Len(rows) : st[k] = Added(rows[k], uses[k], Today, st[k - 1])
           /\ RefundParts(t) = st[Len(rows)]
<1> DEFINE n == Len(rows)
           I == 1..n
           V == Seq(Parts)
           today == Today
           pick == [s \in SUBSET I |-> Max(s)]
           step == [es \in I \X V |-> Added(rows[es[1]], uses[es[1]], today, es[2])]
<1>1. n \in Nat /\ DOMAIN rows = I /\ IsFiniteSet(I) /\ \A k \in I : rows[k] \in Rows
  <2>1. n \in Nat /\ DOMAIN rows = I /\ \A k \in I : rows[k] \in Rows
    BY ReachSteps, ZenonT(40)
  <2>2. 1 \in Int /\ n \in Int
    BY <2>1
  <2>3. IsFiniteSet(I)
    BY <2>2, FS_Interval, ZenonT(40)
  <2> QED
    BY <2>1, <2>3, ZenonT(40)
<1>2. << >> \in V
  BY SeqEmpty, ZenonT(40)
<1> HIDE DEF V, today
<1>3. \A k \in I, v \in V : Added(rows[k], uses[k], today, v) \in V
  BY <1>1, AddedIs, ZenonT(40) DEF V, today
<1>4. \A s \in SUBSET I : s # {} => Max(s) \in s
  BY <1>1, MaxOfPrefix, ZenonT(40)
<1>5. PICK g \in [SUBSET I -> V] : IsFold(g, I, << >>, step, pick)
  <2>1. \A s \in SUBSET I : s # {} => pick[s] \in s
    BY <1>4, ZenonT(40)
  <2>2. step \in [I \X V -> V]
    BY <1>3, ZenonT(40)
  <2> HIDE DEF I, pick, step
  <2> QED
    BY <1>1, <1>2, <2>1, <2>2, FoldExists, ZenonT(40)
<1>6. IsRestore(rows, uses, today, g)
  <2>1. ASSUME NEW s \in SUBSET I
        PROVE  g[s] = IF s = {} THEN << >>
                      ELSE Added(rows[Max(s)], uses[Max(s)], today, g[s \ {Max(s)}])
    <3>1. CASE s = {}
      BY <1>5, <3>1, ZenonT(40) DEF IsFold
    <3>2. CASE s # {}
      <4>1. pick[s] = Max(s) /\ Max(s) \in I
        BY <1>4, <3>2, ZenonT(40)
      <4>2. g[s \ {Max(s)}] \in V
        BY ZenonT(40)
      <4>3. g[s] = step[<<Max(s), g[s \ {Max(s)}]>>]
        <5> HIDE DEF pick, step
        <5> QED
          BY <1>5, <3>2, <4>1, ZenonT(40) DEF IsFold
      <4>4. <<Max(s), g[s \ {Max(s)}]>> \in I \X V
        BY <4>1, <4>2, ZenonT(40)
      <4>5. \A es \in I \X V : step[es] = Added(rows[es[1]], uses[es[1]], today, es[2])
        BY ZenonT(40)
      <4> HIDE DEF step, I
      <4> QED
        BY <3>2, <4>3, <4>4, <4>5, ZenonT(40)
    <3> QED
      BY <3>1, <3>2, ZenonT(40)
  <2> HIDE DEF I
  <2> QED
    BY <1>1, <2>1, ZenonT(40) DEF IsRestore
<1> DEFINE c == CHOOSE h : IsRestore(rows, uses, today, h)
<1>7. IsRestore(rows, uses, today, c)
  BY <1>6
<1>8. RefundParts(t) = c[I]
  BY <1>1, RefundPartsDef, ZenonT(40) DEF today
<1> HIDE DEF c, I
<1>9. \A s \in SUBSET I :
        c[s] = IF s = {} THEN << >>
               ELSE Added(rows[Max(s)], uses[Max(s)], today, c[s \ {Max(s)}])
  BY <1>1, <1>7, ZenonT(40) DEF IsRestore
<1> DEFINE P == {s \in SUBSET I : c[s] \in V}
<1>10. ASSUME NEW s \in SUBSET I, \A u \in SUBSET s : u # s => u \in P
       PROVE  s \in P
  <2>1. CASE s = {}
    BY <1>2, <1>9, <2>1, ZenonT(40)
  <2>2. CASE s # {}
    <3>1. Max(s) \in s
      BY <1>4, <2>2, ZenonT(40)
    <3>2. c[s \ {Max(s)}] \in V
      BY <1>10, <3>1, ZenonT(40)
    <3>3. c[s] = Added(rows[Max(s)], uses[Max(s)], today, c[s \ {Max(s)}])
      BY <1>9, <2>2, ZenonT(40)
    <3> QED
      BY <1>3, <3>1, <3>2, <3>3
  <2> QED
    BY <2>1, <2>2, ZenonT(40)
<1>11. P = SUBSET I
  <2> HIDE DEF P
  <2>1. P \in SUBSET (SUBSET I)
    BY DEF P
  <2> QED
    BY <1>1, <1>10, <2>1, SubsetInduction
<1> DEFINE st == [k \in 0..n |-> c[1..k]]
<1>12. st \in [0..n -> V]
  <2>1. \A k \in 0..n : 1..k \in SUBSET I
    BY <1>1 DEF I
  <2> QED
    BY <1>11, <2>1, ZenonT(40)
<1>13. st[0] = << >>
  <2>1. 1..0 = {} /\ {} \in SUBSET I /\ 0 \in 0..n
    BY <1>1
  <2> QED
    BY <1>9, <2>1, ZenonT(40)
<1>14. ASSUME NEW k \in 1..n PROVE st[k] = Added(rows[k], uses[k], today, st[k - 1])
  <2>1. /\ 1..k \in SUBSET I /\ 1..k # {} /\ Max(1..k) = k /\ (1..k) \ {k} = 1..(k - 1)
        /\ k \in 0..n /\ k - 1 \in 0..n
    <3>1. 1..k \in SUBSET I /\ 1..k # {} /\ Max(1..k) = k /\ (1..k) \ {k} = 1..(k - 1)
      BY <1>1, UpTo, ZenonT(40) DEF I
    <3>2. k \in 0..n /\ k - 1 \in 0..n
      BY <1>1
    <3> QED
      BY <3>1, <3>2
  <2>2. c[1..k] = Added(rows[k], uses[k], today, c[1..(k - 1)])
    BY <1>9, <2>1, ZenonT(40)
  <2> QED
    BY <2>1, <2>2, ZenonT(40)
<1>15. RefundParts(t) = st[n]
  BY <1>1, <1>8 DEF I
<1> HIDE DEF st
<1> QED
  BY <1>12, <1>13, <1>14, <1>15, ZenonT(40) DEF V, today

\* the parts of a refund within what its origin took: they add up to its amount, and
\* their dates differ and come before noExpireBookDate
LEMMA RefundPartsAre ==
  ASSUME NEW t \in Txns, NEW rows \in Seq(Rows), rows = taken[Origin(t)], RowsOK(rows),
         clock \in 0..MaxClock, PriorDebited(t) \in Nat,
         PriorDebited(t) + Amount(t) <= Total(rows)
  PROVE  LET parts == RefundParts(t)
         IN /\ parts \in Seq(Parts) /\ Total(parts) = Amount(t)
            /\ \A i, j \in DOMAIN parts : i < j => parts[i].expire < parts[j].expire
            /\ \A i \in DOMAIN parts : parts[i].expire < NoExpire
<1> DEFINE n == Len(rows)
           prior == PriorDebited(t)
           amount == Amount(t)
           use == RefundUse(rows, prior, amount)
           uses == use.uses
           today == Today
<1>1. amount \in Nat /\ prior \in Nat
  BY RequestOf
<1>2. n \in Nat /\ Reach(rows, 0) = 0 /\ Reach(rows, n) = Total(rows)
      /\ \A k \in 0..n : Reach(rows, k) \in Nat
  BY ReachSteps, ZenonT(40)
<1>3. today \in Nat /\ today + MaxDays < NoExpire
  <2>1. /\ clock \div WindowsPerDay \in Nat /\ MaxClock \div WindowsPerDay \in Nat
        /\ clock \div WindowsPerDay <= MaxClock \div WindowsPerDay
    BY DateAssumption
  <2>2. /\ MaxDays \in Nat /\ NoExpire \in Nat
        /\ MaxClock \div WindowsPerDay + 1 + MaxDays < NoExpire
    BY DateAssumption
  <2>3. today = 1 + clock \div WindowsPerDay
    BY DEF Today, Day
  <2> HIDE DEF today
  <2> QED
    BY <2>1, <2>2, <2>3
<1>4. use \in UseState /\ UseOK(rows, prior, amount, n, use)
  <2> HIDE DEF prior, amount
  <2> QED
    BY <1>1, RefundUseIs, ZenonT(40)
<1>5. \A k \in 1..n : /\ uses[k] \in Nat
                      /\ uses[k] = Restored(Reach(rows, k), prior, amount)
                                     - Restored(Reach(rows, k - 1), prior, amount)
  <2>1. uses \in Seq(Nat) /\ Len(uses) = n
    <3> HIDE DEF use, prior, amount
    <3> QED
      BY <1>4 DEF UseState, UseOK
  <2>2. \A k \in 1..n : uses[k] \in Nat
    <3> HIDE DEF uses
    <3> QED
      BY <2>1
  <2>3. \A k \in 1..n : uses[k] = Restored(Reach(rows, k), prior, amount)
                                    - Restored(Reach(rows, k - 1), prior, amount)
    <3> HIDE DEF use, prior, amount
    <3> QED
      BY <1>4, ZenonT(40) DEF UseOK
  <2> QED
    BY <2>2, <2>3, ZenonT(40)
<1>6. PICK st \in [0..n -> Seq(Parts)] :
        /\ st[0] = << >>
        /\ \A k \in 1..n : st[k] = Added(rows[k], uses[k], today, st[k - 1])
        /\ RefundParts(t) = st[n]
  <2>1. Today \in Nat /\ \A k \in 1..Len(rows) : uses[k] \in Nat
    BY <1>3, <1>5, ZenonT(40)
  <2>2. uses = RefundUse(rows, PriorDebited(t), Amount(t)).uses
    OBVIOUS
  <2> HIDE DEF uses
  <2> QED
    BY <2>1, <2>2, RefundPartsStates
<1> HIDE DEF uses, use, prior, amount, today
<1> DEFINE T == {k \in Nat : k <= n => RestoreOK(rows, prior, amount, today, k, st[k])}
<1>7. 0 \in T
  <2>1. Restored(0, prior, amount) = 0
    BY <1>1 DEF Restored, Lowest
  <2>2. DOMAIN << >> = {}
    OBVIOUS
  <2>3. Total(<< >>) = 0
    BY <2>2, SumEmpty DEF Total
  <2>4. RestoreOK(rows, prior, amount, today, 0, << >>)
    BY <1>2, <2>1, <2>2, <2>3, ZenonT(40) DEF RestoreOK
  <2> QED
    BY <1>6, <2>4
<1>8. ASSUME NEW k \in T PROVE k + 1 \in T
  <2> SUFFICES ASSUME k + 1 <= n PROVE RestoreOK(rows, prior, amount, today, k + 1, st[k + 1])
    OBVIOUS
  <2> DEFINE m == k + 1
  <2>1. m \in 1..n /\ m - 1 = k /\ k \in 0..n
    BY <1>2
  <2> HIDE DEF m
  <2>2. st[m] = Added(rows[m], uses[m], today, st[k])
    BY <1>6, <2>1, ZenonT(40)
  <2>3. RestoreOK(rows, prior, amount, today, m - 1, st[k]) /\ st[k] \in Seq(Parts)
    BY <1>2, <1>8, <2>1
  <2>4. /\ uses[m] \in Nat
        /\ uses[m] = Restored(Reach(rows, m), prior, amount)
                       - Restored(Reach(rows, m - 1), prior, amount)
    BY <1>5, <2>1
  <2>5. RestoreOK(rows, prior, amount, today, m, Added(rows[m], uses[m], today, st[k]))
    BY <1>1, <1>3, <2>1, <2>3, <2>4, AddedKeeps, ZenonT(40)
  <2> QED
    BY <2>2, <2>5, ZenonT(40) DEF m
<1>9. T = Nat
  <2> HIDE DEF T
  <2>1. T \in SUBSET Nat
    BY ZenonT(40) DEF T
  <2> QED
    BY <1>7, <1>8, <2>1, NatSetInduction, ZenonT(40)
<1>10. RestoreOK(rows, prior, amount, today, n, st[n]) /\ st[n] \in Seq(Parts)
  BY <1>2, <1>9
<1> HIDE DEF T
<1> DEFINE parts == st[n]
<1>11. Total(parts) = amount
  <2>1. prior + amount <= Reach(rows, n) /\ Reach(rows, n) \in Nat
    BY <1>2 DEF prior, amount
  <2>2. Total(parts) = Restored(Reach(rows, n), prior, amount)
    BY <1>10, ZenonT(40) DEF RestoreOK
  <2> QED
    BY <1>1, <2>1, <2>2 DEF Restored, Lowest
<1>12. \A i, j \in DOMAIN parts : i < j => parts[i].expire < parts[j].expire
  BY <1>10, ZenonT(40) DEF RestoreOK
<1>13. ASSUME NEW i \in DOMAIN parts PROVE parts[i].expire < NoExpire
  <2> DEFINE left == LeftOf(rows[n])
  <2>1. n # 0 /\ parts[i].expire <= today + left
    BY <1>10, ZenonT(40) DEF RestoreOK
  <2>2. rows[n] \in Rows
    BY <1>2, <2>1
  <2>3. left \in 1..MaxDays /\ MaxDays \in Nat /\ NoExpire \in Nat
    BY <2>2, LeftType, DateAssumption, ZenonT(40)
  <2>4. parts[i].expire \in Nat
    BY <1>10, AmountsOfParts, ZenonT(40)
  <2> HIDE DEF left, parts
  <2> QED
    BY <1>3, <2>1, <2>3, <2>4
<1> QED
  BY <1>6, <1>10, <1>11, <1>12, <1>13, ZenonT(40) DEF amount

-----------------------------------------------------------------------------
(* The journal: what the change rows of debited txns say *)

Debited(t) == status[t] \in {"PAY_SUCCESS", "RECV_SUCCESS"}

\* the refunds of t that are debited
RefundsOf(t) == {r \in Txns : IsRefund(r) /\ Origin(r) = t /\ Debited(r)}

\* no date is after noExpireBookDate
Dated ==
  /\ \A a \in Accounts : \A e \in DOMAIN book[a] : e <= NoExpire
  /\ \A t \in Txns : expireAt[t] < NoExpire

\* the rows of a txn are in order, and they are there and add up once it is debited
TakenOK ==
  \A t \in Txns :
    /\ RowsOK(taken[t])
    /\ DebitAccount(t) \notin BookEnabled => taken[t] = << >>
    /\ Debited(t) /\ DebitAccount(t) \in BookEnabled => Total(taken[t]) = Amount(t)

\* what a refund refunds has settled
RefundsFollow ==
  \A t \in Txns :
    Debited(t) /\ IsRefund(t) => ~IsRefund(Origin(t)) /\ status[Origin(t)] = "RECV_SUCCESS"

\* what can be refunded is what was not
Refundables ==
  \A t \in Txns :
    status[t] # "NONE" /\ ~IsRefund(t) =>
      refundable[t] + SumOver(Amounts, RefundsOf(t)) = Amount(t)

JournalInv == Dated /\ TakenOK /\ RefundsFollow /\ Refundables

\* two sequences of parts or rows with the same amounts have the same total
LEMMA TotalSame ==
  ASSUME NEW p, NEW q, DOMAIN p = DOMAIN q, \A i \in DOMAIN p : p[i].amount = q[i].amount
  PROVE  Total(p) = Total(q)
<1>1. AmountsOf(p) = AmountsOf(q)
  BY DEF AmountsOf
<1> QED
  BY <1>1, ZenonT(40) DEF Total

\* the total of one part
LEMMA TotalOne ==
  ASSUME NEW part \in Parts
  PROVE  << part >> \in Seq(Parts) /\ Total(<< part >>) = part.amount
<1>1. << part >> = Append(<< >>, part)
  OBVIOUS
<1>2. << >> \in Seq(Parts)
  BY SeqEmpty
<1>3. DOMAIN << >> = {}
  OBVIOUS
<1>4. Total(<< >>) = 0
  BY <1>3, SumEmpty, ZenonT(40) DEF Total
<1>5. part.amount \in Nat
  BY DEF Parts
<1>6. Append(<< >>, part) \in Seq(Parts)
  BY <1>2, SeqAppend
<1>7. Total(Append(<< >>, part)) = Total(<< >>) + part.amount
  BY <1>2, TotalAppend, ZenonT(40)
<1> QED
  BY <1>1, <1>4, <1>5, <1>6, <1>7

\* the refunds of the origin of a debited refund: the others and the refund itself
LEMMA PriorAndSelf ==
  ASSUME BooksInv, JournalInv, NEW t \in Txns, IsRefund(t), Debited(t)
  PROVE  LET o == Origin(t)
         IN /\ o \in Txns /\ ~IsRefund(o) /\ status[o] = "RECV_SUCCESS"
            /\ PriorDebited(t) \in Nat /\ PriorDebited(t) + Amount(t) <= Amount(o)
<1> DEFINE o == Origin(t)
           R == RefundsOf(o)
           Q == R \ {t}
<1>1. o \in Txns /\ Amount(t) \in Nat
  BY RequestOf, ZenonT(40)
<1>2. ~IsRefund(o) /\ status[o] = "RECV_SUCCESS"
  BY ZenonT(40) DEF JournalInv, RefundsFollow
<1>3. refundable[o] + SumOver(Amounts, R) = Amount(o)
  BY <1>1, <1>2, ZenonT(40) DEF JournalInv, Refundables
<1>4. t \in R /\ R \subseteq Txns /\ IsFiniteSet(R) /\ IsFiniteSet(Q)
  <2>1. t \in R /\ R \subseteq Txns
    BY DEF RefundsOf
  <2> HIDE DEF R
  <2> QED
    BY <2>1, FS_Subset, BookFiniteAssumption, ZenonT(40)
<1>5. {r \in Txns \ {t} : /\ IsRefund(r) /\ Origin(r) = Origin(t)
                          /\ status[r] \in {"PAY_SUCCESS", "RECV_SUCCESS"}} = Q
  BY DEF RefundsOf, Debited
<1>6. PriorDebited(t) = SumOver(Amounts, Q)
  BY <1>5, ZenonT(40) DEF PriorDebited
<1>7. \A x \in Txns : Amounts[x] = Amount(x) /\ Amounts[x] \in Nat /\ Amounts[x] \in Int
  BY RequestOf DEF Amounts
<1> HIDE DEF R, Q
<1>8. SumOver(Amounts, R) = Amounts[t] + SumOver(Amounts, R \ {t})
  <2>1. \A x \in R : Amounts[x] \in Int
    BY <1>4, <1>7, ZenonT(40)
  <2> QED
    BY <1>4, <2>1, SumRemove
<1>9. SumOver(Amounts, Q) \in Nat
  <2>1. \A x \in Q : Amounts[x] \in Nat
    BY <1>4, <1>7, ZenonT(40) DEF Q
  <2> QED
    BY <1>4, <2>1, SumNat, ZenonT(40)
<1>10. refundable[o] \in Nat /\ Amount(o) \in Nat
  BY <1>1, RequestOf, ZenonT(40) DEF BooksInv
<1>11. PriorDebited(t) + Amount(t) <= Amount(o)
  <2>1. SumOver(Amounts, R) = Amount(t) + SumOver(Amounts, Q)
    BY <1>7, <1>8, ZenonT(40) DEF Q
  <2> QED
    BY <1>1, <1>3, <1>6, <1>9, <1>10, <2>1
<1> QED
  BY <1>1, <1>2, <1>6, <1>9, <1>11, ZenonT(40)

\* once a txn is debited its credit is not refused, and its parts have dates of books
LEMMA CreditGoesThrough ==
  ASSUME BooksInv, JournalInv, NEW t \in Txns, status[t] = "PAY_SUCCESS"
  PROVE  /\ ~CreditRefused(t)
         /\ CreditAccount(t) \in BookEnabled =>
              \A i \in DOMAIN CreditParts(t) : CreditParts(t)[i].expire <= NoExpire
<1> SUFFICES ASSUME CreditAccount(t) \in BookEnabled
             PROVE  LET parts == CreditParts(t)
                    IN /\ parts \in Seq(Parts) /\ Total(parts) = Amount(t)
                       /\ \A i, j \in DOMAIN parts : i # j => parts[i].expire # parts[j].expire
                       /\ \A i \in DOMAIN parts : parts[i].expire <= NoExpire
  BY DEF CreditRefused
<1> DEFINE parts == CreditParts(t)
<1>1. Debited(t)
  BY DEF Debited
<1>2. /\ Amount(t) \in Nat \ {0} /\ NoExpire \in Nat \ {0}
  <2>1. clock \in 0..MaxClock
    BY ZenonT(40) DEF BooksInv
  <2>2. Day(clock) \in Nat /\ Day(clock) < NoExpire /\ NoExpire \in Nat
    BY <2>1, Days, DateAssumption, ZenonT(40)
  <2> QED
    BY <2>2, RequestOf
<1>3. CASE IsRefund(t)
  <2> DEFINE o == Origin(t)
             rows == taken[o]
  <2>1. /\ o \in Txns /\ ~IsRefund(o) /\ status[o] = "RECV_SUCCESS"
        /\ PriorDebited(t) \in Nat /\ PriorDebited(t) + Amount(t) <= Amount(o)
    BY <1>1, <1>3, PriorAndSelf, ZenonT(40)
  <2>2. DebitAccount(o) = CreditAccount(t)
    BY <1>3, <2>1, ZenonT(40) DEF DebitAccount, CreditAccount
  <2>3. Total(rows) = Amount(o) /\ RowsOK(rows)
    BY <2>1, <2>2, ZenonT(40) DEF JournalInv, TakenOK, Debited
  <2>4. rows \in Seq(Rows) /\ clock \in 0..MaxClock
    BY <2>1 DEF BooksInv
  <2>5. parts = RefundParts(t)
    BY <1>3, ZenonT(40) DEF CreditParts
  <2>6. /\ RefundParts(t) \in Seq(Parts) /\ Total(RefundParts(t)) = Amount(t)
        /\ \A i, j \in DOMAIN RefundParts(t) :
             i < j => RefundParts(t)[i].expire < RefundParts(t)[j].expire
        /\ \A i \in DOMAIN RefundParts(t) : RefundParts(t)[i].expire < NoExpire
    BY <2>1, <2>3, <2>4, RefundPartsAre, ZenonT(40)
  <2> HIDE DEF parts
  <2>7. /\ DOMAIN parts = 1..Len(parts) /\ Len(parts) \in Nat
        /\ \A i \in DOMAIN parts : parts[i].expire \in Nat
    BY <2>5, <2>6, AmountsOfParts, ZenonT(40)
  <2>8. \A i, j \in DOMAIN parts : i # j => parts[i].expire # parts[j].expire
    <3> SUFFICES ASSUME NEW i \in DOMAIN parts, NEW j \in DOMAIN parts, i # j
                 PROVE  parts[i].expire # parts[j].expire
      OBVIOUS
    <3>1. i < j \/ j < i
      BY <2>7
    <3>2. i < j => parts[i].expire < parts[j].expire
      BY <2>5, <2>6, ZenonT(40)
    <3>3. j < i => parts[j].expire < parts[i].expire
      BY <2>5, <2>6, ZenonT(40)
    <3> QED
      BY <2>7, <3>1, <3>2, <3>3
  <2>9. \A i \in DOMAIN parts : parts[i].expire <= NoExpire
    BY <1>2, <2>5, <2>6, <2>7
  <2> QED
    BY <2>5, <2>6, <2>8, <2>9, ZenonT(40) DEF parts
<1>4. CASE ~IsRefund(t) /\ Req[t].scene = "P2P" /\ taken[t] # << >>
  <2> DEFINE rows == taken[t]
             mapped == [i \in DOMAIN rows |-> [expire |-> rows[i].expire, amount |-> rows[i].amount]]
  <2>1. parts = mapped
    BY <1>4, ZenonT(40) DEF CreditParts, TransferParts
  <2>2. rows \in Seq(Rows)
    BY ZenonT(40) DEF BooksInv
  <2>3. RowsOK(rows) /\ Total(rows) = Amount(t)
    BY <1>1, <1>4 DEF JournalInv, TakenOK
  <2> HIDE DEF rows
  <2>4. Len(rows) \in Nat /\ DOMAIN rows = 1..Len(rows) /\ \A i \in DOMAIN rows : rows[i] \in Rows
    BY <2>2, SeqElements, ZenonT(40)
  <2>5. \A i \in DOMAIN rows : [expire |-> rows[i].expire, amount |-> rows[i].amount] \in Parts
    BY <2>4, ZenonT(40) DEF Rows, Parts
  <2>6. mapped \in Seq(Parts) /\ DOMAIN mapped = DOMAIN rows
    BY <2>4, <2>5
  <2>7. \A i \in DOMAIN rows : mapped[i].expire = rows[i].expire /\ mapped[i].amount = rows[i].amount
    OBVIOUS
  <2> HIDE DEF mapped
  <2>8. Total(mapped) = Amount(t)
    BY <2>3, <2>6, <2>7, TotalSame, ZenonT(40)
  <2>9. \A i, j \in DOMAIN rows : i # j => rows[i].expire # rows[j].expire
    <3> SUFFICES ASSUME NEW i \in DOMAIN rows, NEW j \in DOMAIN rows, i # j
                 PROVE  rows[i].expire # rows[j].expire
      OBVIOUS
    <3>1. rows[i].expire \in Nat /\ rows[j].expire \in Nat
      BY <2>4, ZenonT(40) DEF Rows
    <3>2. i < j \/ j < i
      BY <2>4
    <3>3. (i < j => rows[i].expire < rows[j].expire) /\ (j < i => rows[j].expire < rows[i].expire)
      BY <2>3, ZenonT(40) DEF RowsOK
    <3> QED
      BY <3>1, <3>2, <3>3
  <2>10. \A i \in DOMAIN rows : rows[i].expire <= NoExpire
    BY <2>3, ZenonT(40) DEF RowsOK
  <2> QED
    BY <2>1, <2>6, <2>7, <2>8, <2>9, <2>10
<1>5. CASE ~IsRefund(t) /\ ~(Req[t].scene = "P2P" /\ taken[t] # << >>)
  <2> DEFINE date == IF expireAt[t] = 0 THEN NoExpire ELSE expireAt[t]
             part == [expire |-> date, amount |-> Amount(t)]
  <2>1. parts = << part >>
    BY <1>5, ZenonT(40) DEF CreditParts, TransferParts
  <2>2. date \in Nat \ {0} /\ date <= NoExpire
    BY <1>2 DEF BooksInv, JournalInv, Dated
  <2>3. part \in Parts /\ part.expire = date /\ part.amount = Amount(t)
    <3> HIDE DEF date
    <3> QED
      BY <1>2, <2>2, ZenonT(40) DEF Parts
  <2> HIDE DEF part, date
  <2>4. << part >> \in Seq(Parts) /\ Total(<< part >>) = Amount(t)
    BY <2>3, TotalOne, ZenonT(40)
  <2>5. DOMAIN << part >> = {1} /\ << part >>[1] = part
    OBVIOUS
  <2> QED
    BY <2>1, <2>2, <2>3, <2>4, <2>5
<1> QED
  BY <1>3, <1>4, <1>5, ZenonT(40)

-----------------------------------------------------------------------------
(* The journal is kept *)

\* the journal is kept at first
LEMMA JournalInit == Init => JournalInv
<1> SUFFICES ASSUME Init PROVE JournalInv
  OBVIOUS
<1>1. NoExpire \in Nat /\ 0 < NoExpire
  <2>1. 0 \in 0..MaxClock
    BY DateAssumption
  <2>2. Day(0) \in Nat /\ Day(0) < NoExpire
    BY <2>1, Days, ZenonT(40)
  <2> QED
    BY <2>2, DateAssumption
<1>2. \A t \in Txns : status[t] = "NONE" /\ expireAt[t] = 0 /\ taken[t] = << >>
  BY ZenonT(40) DEF Init
<1>3. \A a \in Accounts : DOMAIN book[a] \subseteq {NoExpire}
  <2> SUFFICES ASSUME NEW a \in Accounts PROVE DOMAIN book[a] \subseteq {NoExpire}
    OBVIOUS
  <2>1. book[a] = [e \in IF a \in BookEnabled THEN {NoExpire} ELSE {} |-> 0]
    BY DEF Init
  <2> QED
    BY <2>1, ZenonT(40)
<1>4. Dated
  BY <1>1, <1>2, <1>3 DEF Dated
<1>5. \A t \in Txns : RowsOK(taken[t])
  <2>1. DOMAIN << >> = {}
    OBVIOUS
  <2> QED
    BY <1>2, <2>1 DEF RowsOK
<1>6. \A t \in Txns : ~Debited(t)
  BY <1>2 DEF Debited
<1> QED
  BY <1>2, <1>4, <1>5, <1>6, ZenonT(40) DEF JournalInv, TakenOK, RefundsFollow, Refundables

\* the same txns are debited, the same refunds are
LEMMA SameRefunds ==
  ASSUME \A x \in Txns : Debited(x)' <=> Debited(x), NEW u \in Txns
  PROVE  RefundsOf(u)' = RefundsOf(u)
BY DEF RefundsOf, IsRefund, Origin

\* the steps that debit no txn, apart from what they do to the books
LEMMA UndebitedKeep ==
  ASSUME JournalInv, Dated', UNCHANGED <<taken, refundable>>,
         \A x \in Txns : Debited(x)' <=> Debited(x),
         \A x \in Txns : status[x] = "RECV_SUCCESS" => status'[x] = "RECV_SUCCESS",
         \A x \in Txns : ~IsRefund(x) /\ status'[x] # "NONE" => status[x] # "NONE"
  PROVE  JournalInv'
<1>1. TakenOK'
  BY DEF JournalInv, TakenOK, RowsOK, Total, AmountsOf, DebitAccount, Amount, IsRefund, Origin
<1>2. RefundsFollow'
  <2> SUFFICES ASSUME NEW t \in Txns, Debited(t)', IsRefund(t)
               PROVE  ~IsRefund(Origin(t)) /\ status'[Origin(t)] = "RECV_SUCCESS"
    BY ZenonT(40) DEF RefundsFollow, IsRefund, Origin
  <2>1. ~IsRefund(Origin(t)) /\ status[Origin(t)] = "RECV_SUCCESS"
    BY ZenonT(40) DEF JournalInv, RefundsFollow
  <2> QED
    BY <2>1, RequestOf, ZenonT(40)
<1>3. Refundables'
  <2> SUFFICES ASSUME NEW t \in Txns, status'[t] # "NONE", ~IsRefund(t)
               PROVE  refundable'[t] + SumOver(Amounts, RefundsOf(t)') = Amount(t)
    BY DEF Refundables, IsRefund, Amount, Amounts
  <2>1. RefundsOf(t)' = RefundsOf(t)
    BY SameRefunds, ZenonT(40)
  <2>2. refundable[t] + SumOver(Amounts, RefundsOf(t)) = Amount(t)
    BY DEF JournalInv, Refundables
  <2> QED
    BY <2>1, <2>2, ZenonT(40)
<1> QED
  BY <1>1, <1>2, <1>3, ZenonT(40) DEF JournalInv

\* what a new txn credits expires before noExpireBookDate
LEMMA ExpiryDated ==
  ASSUME BooksInv, NEW t \in Txns
  PROVE  CreditExpireAt(t) < NoExpire
<1>1. clock \in Nat /\ clock <= MaxClock
  BY DateAssumption DEF BooksInv
<1>2. /\ WindowsPerDay \in Nat \ {0} /\ MaxClock \in Nat /\ NoExpire \in Nat
      /\ MaxClock \div WindowsPerDay + 1 + Req[t].days < NoExpire
  BY DateAssumption, ZenonT(40)
<1>3. Req[t].days \in Nat
  BY RequestOf, ZenonT(40)
<1>4. /\ clock \div WindowsPerDay \in Nat /\ MaxClock \div WindowsPerDay \in Nat
      /\ clock \div WindowsPerDay <= MaxClock \div WindowsPerDay
  BY <1>1, <1>2
<1> DEFINE q == clock \div WindowsPerDay
           z == MaxClock \div WindowsPerDay
           n == Req[t].days
<1>5. Today = 1 + q
  BY DEF Today, Day
<1>6. q \in Nat /\ z \in Nat /\ q <= z /\ z + 1 + n < NoExpire /\ n \in Nat
  BY <1>2, <1>3, <1>4, ZenonT(40)
<1>7. CreditExpireAt(t) = Today + n \/ CreditExpireAt(t) = 0
  BY ZenonT(40) DEF CreditExpireAt
<1> HIDE DEF q, z, n
<1> QED
  BY <1>2, <1>5, <1>6, <1>7

\* a submission of a transfer keeps the journal: no refund of it is debited
LEMMA SubmitKeepsJournal ==
  ASSUME BooksInv, JournalInv, NEW t \in Txns, SubmitTransfer(t)
  PROVE  JournalInv'
<1>1. /\ status' = [status EXCEPT ![t] = "INIT"] /\ status[t] = "NONE" /\ ~IsRefund(t)
      /\ refundable' = [refundable EXCEPT ![t] = Amount(t)]
      /\ expireAt' = [expireAt EXCEPT ![t] = CreditExpireAt(t)]
      /\ book' = book /\ taken' = taken
  BY ZenonT(40) DEF SubmitTransfer
<1>2. /\ status \in [Txns -> Statuses] /\ refundable \in [Txns -> Nat]
      /\ expireAt \in [Txns -> Nat]
  BY ZenonT(40) DEF BooksInv
<1>3. /\ status'[t] = "INIT" /\ refundable'[t] = Amount(t) /\ expireAt'[t] = CreditExpireAt(t)
      /\ \A x \in Txns \ {t} : /\ status'[x] = status[x] /\ refundable'[x] = refundable[x]
                               /\ expireAt'[x] = expireAt[x]
  BY <1>1, <1>2, ZenonT(40)
<1>4. \A x \in Txns : Debited(x)' <=> Debited(x)
  <2>1. ~Debited(t)' /\ ~Debited(t)
    BY <1>1, <1>3, ZenonT(40) DEF Debited
  <2>2. \A x \in Txns \ {t} : Debited(x)' <=> Debited(x)
    BY <1>3, ZenonT(40) DEF Debited
  <2> QED
    BY <2>1, <2>2, ZenonT(40)
<1>5. Dated'
  <2>1. CreditExpireAt(t) < NoExpire
    BY ExpiryDated, ZenonT(40)
  <2>2. \A x \in Txns : expireAt'[x] < NoExpire
    BY <1>3, <2>1, ZenonT(40) DEF JournalInv, Dated
  <2> QED
    BY <1>1, <2>2, ZenonT(40) DEF JournalInv, Dated
<1>6. TakenOK'
  BY <1>1, <1>4 DEF JournalInv, TakenOK, RowsOK, Total, AmountsOf, DebitAccount, Amount, IsRefund,
                    Origin
<1>7. RefundsFollow'
  <2> SUFFICES ASSUME NEW r \in Txns, Debited(r)', IsRefund(r)
               PROVE  ~IsRefund(Origin(r)) /\ status'[Origin(r)] = "RECV_SUCCESS"
    BY DEF RefundsFollow, IsRefund, Origin
  <2>1. ~IsRefund(Origin(r)) /\ status[Origin(r)] = "RECV_SUCCESS"
    BY <1>4, ZenonT(40) DEF JournalInv, RefundsFollow
  <2>2. Origin(r) # t
    BY <1>1, <2>1, ZenonT(40)
  <2> QED
    BY <1>3, <2>1, <2>2, RequestOf, ZenonT(40)
<1>8. Refundables'
  <2> SUFFICES ASSUME NEW x \in Txns, status'[x] # "NONE", ~IsRefund(x)
               PROVE  refundable'[x] + SumOver(Amounts, RefundsOf(x)') = Amount(x)
    BY DEF Refundables, IsRefund, Amount, Amounts
  <2>1. RefundsOf(x)' = RefundsOf(x)
    BY <1>4, SameRefunds, ZenonT(40)
  <2>2. CASE x = t
    <3>1. RefundsOf(t) = {}
      BY <1>1 DEF RefundsOf, JournalInv, RefundsFollow
    <3>2. SumOver(Amounts, {}) = 0
      BY SumEmpty, ZenonT(40)
    <3>3. Amount(t) + 0 = Amount(t)
      BY RequestOf
    <3> QED
      BY <1>3, <2>1, <2>2, <3>1, <3>2, <3>3, ZenonT(40)
  <2>3. CASE x # t
    BY <1>3, <2>1, <2>3, ZenonT(40) DEF JournalInv, Refundables
  <2> QED
    BY <2>2, <2>3, ZenonT(40)
<1> QED
  BY <1>5, <1>6, <1>7, <1>8, ZenonT(40) DEF JournalInv

\* so do the steps that change no amount
LEMMA OthersKeepJournal ==
  ASSUME BooksInv, JournalInv,
         \/ \E t \in Txns : SubmitRefund(t) \/ DebitStageRefused(t)
         \/ Tick
         \/ UNCHANGED vars
  PROVE  JournalInv'
<1>1. UNCHANGED <<taken, refundable, book, expireAt>>
  BY ZenonT(40) DEF SubmitRefund, DebitStageRefused, Tick, vars
<1>2. Dated'
  BY <1>1, ZenonT(40) DEF JournalInv, Dated
<1>3. \/ UNCHANGED status
      \/ \E t \in Txns : \/ /\ status[t] = "NONE" /\ IsRefund(t)
                            /\ status' = [status EXCEPT ![t] = "INIT"]
                         \/ status[t] = "INIT" /\ status' = [status EXCEPT ![t] = "FAILED"]
  BY ZenonT(40) DEF SubmitRefund, DebitStageRefused, Tick, vars
<1>4. \A x \in Txns : Debited(x)' <=> Debited(x)
  BY <1>3, ZenonT(40) DEF Debited, BooksInv
<1>5. \A x \in Txns : status[x] = "RECV_SUCCESS" => status'[x] = "RECV_SUCCESS"
  BY <1>3, ZenonT(40) DEF BooksInv
<1>6. \A x \in Txns : ~IsRefund(x) /\ status'[x] # "NONE" => status[x] # "NONE"
  BY <1>3, ZenonT(40) DEF BooksInv
<1> QED
  BY <1>1, <1>2, <1>4, <1>5, <1>6, UndebitedKeep, ZenonT(40)

\* and a credit, which may make books of new dates
LEMMA CreditKeepsJournal ==
  ASSUME BooksInv, JournalInv, NEW t \in Txns, CreditStage(t)
  PROVE  JournalInv'
<1> DEFINE a == CreditAccount(t)
           parts == CreditedParts(t)
           b == BooksPlus(book[a], parts)
<1>1. a \in Accounts
  BY RequestOf, ZenonT(40)
<1>2. /\ status[t] = "PAY_SUCCESS" /\ ~CreditRefused(t) /\ book' = [book EXCEPT ![a] = b]
      /\ status' = [status EXCEPT ![t] = "RECV_SUCCESS"]
      /\ UNCHANGED <<refundable, expireAt, taken>>
  BY CreditDoes, ZenonT(40)
<1>3. parts \in Seq(Parts)
  BY <1>2, CreditAddsUp, ZenonT(40)
<1>4. BooksOK(book[a])
  BY <1>1 DEF BooksInv
<1>5. DOMAIN b = DOMAIN book[a] \cup {parts[i].expire : i \in DOMAIN parts}
  BY <1>3, <1>4, PlusSum, ZenonT(40)
<1>6. \A i \in DOMAIN parts : parts[i].expire <= NoExpire
  <2>1. CASE a \in BookEnabled
    BY <1>2, <2>1, CreditGoesThrough, ZenonT(40) DEF CreditedParts
  <2>2. CASE a \notin BookEnabled
    <3>1. parts = << >>
      BY <2>2, ZenonT(40) DEF CreditedParts
    <3> QED
      BY <3>1
  <2> QED
    BY <2>1, <2>2, ZenonT(40)
<1> HIDE DEF parts, b
<1>7. book'[a] = b /\ \A x \in Accounts \ {a} : book'[x] = book[x]
  BY <1>1, <1>2, ZenonT(40) DEF BooksInv
<1>8. Dated'
  <2>1. \A e \in DOMAIN b : e <= NoExpire
    BY <1>1, <1>5, <1>6, ZenonT(40) DEF JournalInv, Dated
  <2>2. \A x \in Accounts : \A e \in DOMAIN book'[x] : e <= NoExpire
    BY <1>7, <2>1, ZenonT(40) DEF JournalInv, Dated
  <2> QED
    BY <1>2, <2>2, ZenonT(40) DEF JournalInv, Dated
<1>9. status'[t] = "RECV_SUCCESS" /\ \A x \in Txns \ {t} : status'[x] = status[x]
  BY <1>2 DEF BooksInv
<1>10. \A x \in Txns : Debited(x)' <=> Debited(x)
  <2>1. Debited(t)' /\ Debited(t)
    BY <1>2, <1>9, ZenonT(40) DEF Debited
  <2>2. \A x \in Txns \ {t} : Debited(x)' <=> Debited(x)
    BY <1>9, ZenonT(40) DEF Debited
  <2> QED
    BY <2>1, <2>2, ZenonT(40)
<1>11. \A x \in Txns : status[x] = "RECV_SUCCESS" => status'[x] = "RECV_SUCCESS"
  BY <1>9, ZenonT(40)
<1>12. \A x \in Txns : ~IsRefund(x) /\ status'[x] # "NONE" => status[x] # "NONE"
  BY <1>2, <1>9, ZenonT(40)
<1> QED
  BY <1>2, <1>8, <1>10, <1>11, <1>12, UndebitedKeep, ZenonT(40)

\* the parts of a debit name books of the account, the ones that expire first first
LEMMA DebitInOrder ==
  ASSUME BooksInv, JournalInv, NEW t \in Txns, NEW c \in 0..MaxClock
  PROVE  LET parts == DebitParts(t, c)
         IN /\ \A i \in DOMAIN parts : parts[i].expire <= NoExpire
            /\ \A i, j \in DOMAIN parts : i < j => parts[i].expire < parts[j].expire
<1> DEFINE a == DebitAccount(t)
           b == BooksAfterSweep(a)
           r == Spread(b, Day(c), Amount(t))
           parts == DebitParts(t, c)
<1>1. a \in Accounts /\ Amount(t) \in Nat /\ Day(c) \in Nat
  BY RequestOf, Days, ZenonT(40)
<1>2. BooksOK(book[a])
  BY <1>1, ZenonT(40) DEF BooksInv
<1>3. BooksOK(b) /\ DOMAIN b = DOMAIN book[a]
  BY <1>1, <1>2, SweepTakes, ZenonT(40)
<1>4. \A e \in DOMAIN b : e \in Nat /\ e <= NoExpire
  <2>1. \A e \in DOMAIN b : e \in Nat
    BY <1>3, ZenonT(40) DEF BooksOK
  <2>2. \A e \in DOMAIN b : e <= NoExpire
    BY <1>1, <1>3, ZenonT(40) DEF JournalInv, Dated
  <2> QED
    BY <2>1, <2>2, ZenonT(40)
<1>5. CASE a \in BookEnabled
  <2>1. parts = r.parts
    BY <1>5, ZenonT(40) DEF DebitParts
  <2>2. SpreadOK(b, Amount(t), Listed(b, Day(c)), r)
    BY <1>1, <1>3, SpreadSpreads, ZenonT(40)
  <2> HIDE DEF r, b, parts
  <2>3. \A i \in DOMAIN r.parts : r.parts[i].expire \in Listed(b, Day(c))
    BY <2>2, ZenonT(40) DEF SpreadOK
  <2>4. \A i, j \in DOMAIN r.parts : i < j => Before(r.parts[i].expire, r.parts[j].expire)
    BY <2>2, ZenonT(40) DEF SpreadOK
  <2>5. \A i \in DOMAIN r.parts : r.parts[i].expire \in DOMAIN b
    BY <2>3, ZenonT(40) DEF Listed
  <2>6. \A i \in DOMAIN parts : parts[i].expire \in Nat /\ parts[i].expire <= NoExpire
    BY <1>4, <2>1, <2>5, ZenonT(40)
  <2>7. \A i, j \in DOMAIN parts : i < j => parts[i].expire < parts[j].expire
    <3> SUFFICES ASSUME NEW i \in DOMAIN parts, NEW j \in DOMAIN parts, i < j
                 PROVE  parts[i].expire < parts[j].expire
      BY ZenonT(40)
    <3>1. Before(parts[i].expire, parts[j].expire)
      BY <2>1, <2>4, ZenonT(40)
    <3>2. parts[i].expire \in Nat /\ parts[j].expire \in Nat /\ parts[i].expire <= NoExpire
      BY <2>6, ZenonT(40)
    <3> QED
      BY <3>1, <3>2, DateAssumption DEF Before
  <2> QED
    BY <2>6, <2>7, ZenonT(40) DEF parts
<1>6. CASE a \notin BookEnabled
  <2>1. parts = << >>
    BY <1>6, ZenonT(40) DEF DebitParts
  <2> QED
    BY <2>1
<1> QED
  BY <1>5, <1>6, ZenonT(40)

\* a debit keeps the journal: its rows are in order and add up, and a refund takes
\* from its origin what can be refunded
LEMMA DebitKeepsJournal ==
  ASSUME BooksInv, JournalInv, NEW t \in Txns, DebitStage(t)
  PROVE  JournalInv'
<1> DEFINE a == DebitAccount(t)
<1>1. a \in Accounts /\ Amount(t) \in Nat \ {0} /\ Origin(t) \in Txns
  BY RequestOf, ZenonT(40)
<1>2. PICK c \in LaterRead :
        /\ ~DebitRefused(t, c)
        /\ book' = [book EXCEPT ![a] = BooksLess(BooksAfterSweep(a), DebitParts(t, c))]
        /\ taken' = [taken EXCEPT ![t] =
             [i \in DOMAIN DebitParts(t, c) |->
                [expire |-> DebitParts(t, c)[i].expire, amount |-> DebitParts(t, c)[i].amount,
                 day |-> Today]]]
  BY DebitDoes, ZenonT(40)
<1> DEFINE parts == DebitParts(t, c)
           b == BooksLess(BooksAfterSweep(a), parts)
           rows == [i \in DOMAIN parts |->
                      [expire |-> parts[i].expire, amount |-> parts[i].amount, day |-> Today]]
<1>3. c \in 0..MaxClock
  BY ClockLater, ZenonT(40) DEF BooksInv
<1>4. BooksOK(book[a]) /\ (a \notin BookEnabled => DOMAIN book[a] = {})
  BY <1>1 DEF BooksInv
<1>5. /\ DOMAIN b = DOMAIN book[a]
      /\ a \in BookEnabled => Total(parts) = Amount(t)
  BY <1>1, <1>2, <1>3, <1>4, DebitBooks, ZenonT(40)
<1>6. /\ \A i \in DOMAIN parts : parts[i].expire <= NoExpire
      /\ \A i, j \in DOMAIN parts : i < j => parts[i].expire < parts[j].expire
  BY <1>3, DebitInOrder, ZenonT(40)
<1>7. a \notin BookEnabled => parts = << >>
  BY ZenonT(40) DEF DebitParts
<1>8. book' = [book EXCEPT ![a] = b] /\ taken' = [taken EXCEPT ![t] = rows]
  BY <1>2
<1> HIDE DEF parts, b
<1>9. RowsOK(rows) /\ Total(rows) = Total(parts) /\ (parts = << >> => rows = << >>)
  <2>1. DOMAIN rows = DOMAIN parts
    BY ZenonT(40)
  <2>2. \A i \in DOMAIN parts : /\ rows[i].expire = parts[i].expire
                                /\ rows[i].amount = parts[i].amount /\ rows[i].day = Today
    OBVIOUS
  <2>3. parts = << >> => rows = << >>
    OBVIOUS
  <2> HIDE DEF rows
  <2>4. Total(rows) = Total(parts)
    BY <2>1, <2>2, TotalSame, ZenonT(40)
  <2>5. RowsOK(rows)
    BY <1>6, <2>1, <2>2, ZenonT(40) DEF RowsOK
  <2> QED
    BY <2>3, <2>4, <2>5, ZenonT(40)
<1> HIDE DEF rows
<1>10. /\ book'[a] = b /\ (\A x \in Accounts \ {a} : book'[x] = book[x])
       /\ taken'[t] = rows /\ (\A x \in Txns \ {t} : taken'[x] = taken[x])
  BY <1>1, <1>8, ZenonT(40) DEF BooksInv
<1>11. /\ status[t] = "INIT" /\ status' = [status EXCEPT ![t] = "PAY_SUCCESS"]
       /\ expireAt' = expireAt
       /\ refundable' = IF IsRefund(t) THEN [refundable EXCEPT ![Origin(t)] = @ - Amount(t)]
                        ELSE refundable
  BY ZenonT(40) DEF DebitStage
<1>12. status'[t] = "PAY_SUCCESS" /\ \A x \in Txns \ {t} : status'[x] = status[x]
  BY <1>11, ZenonT(40) DEF BooksInv
<1>13. /\ ~Debited(t) /\ Debited(t)'
       /\ \A x \in Txns \ {t} : Debited(x)' <=> Debited(x)
  <2>1. ~Debited(t) /\ Debited(t)'
    BY <1>11, <1>12, ZenonT(40) DEF Debited
  <2>2. \A x \in Txns \ {t} : Debited(x)' <=> Debited(x)
    BY <1>12, ZenonT(40) DEF Debited
  <2> QED
    BY <2>1, <2>2, ZenonT(40)
<1>14. IsRefund(t) => ~IsRefund(Origin(t)) /\ status[Origin(t)] = "RECV_SUCCESS"
  BY <1>2, ZenonT(40) DEF DebitRefused, OriginRefundable
<1>15. Dated'
  <2>1. \A x \in Accounts : \A e \in DOMAIN book'[x] : e <= NoExpire
    BY <1>1, <1>5, <1>10, ZenonT(40) DEF JournalInv, Dated
  <2> QED
    BY <1>11, <2>1, ZenonT(40) DEF JournalInv, Dated
<1>16. TakenOK'
  <2> SUFFICES ASSUME NEW x \in Txns
               PROVE  /\ RowsOK(taken'[x])
                      /\ DebitAccount(x) \notin BookEnabled => taken'[x] = << >>
                      /\ Debited(x)' /\ DebitAccount(x) \in BookEnabled =>
                           Total(taken'[x]) = Amount(x)
    BY ZenonT(40) DEF TakenOK, RowsOK, Total, AmountsOf, DebitAccount, Amount, IsRefund, Origin
  <2>1. CASE x = t
    BY <1>5, <1>7, <1>9, <1>10, <2>1, ZenonT(40)
  <2>2. CASE x # t
    BY <1>10, <1>13, <2>2, ZenonT(40) DEF JournalInv, TakenOK
  <2> QED
    BY <2>1, <2>2, ZenonT(40)
<1>17. RefundsFollow'
  <2> SUFFICES ASSUME NEW r \in Txns, Debited(r)', IsRefund(r)
               PROVE  ~IsRefund(Origin(r)) /\ status'[Origin(r)] = "RECV_SUCCESS"
    BY ZenonT(40) DEF RefundsFollow, IsRefund, Origin
  <2>1. ~IsRefund(Origin(r)) /\ status[Origin(r)] = "RECV_SUCCESS"
    BY <1>13, <1>14, ZenonT(40) DEF JournalInv, RefundsFollow
  <2>2. Origin(r) # t
    BY <1>11, <2>1, ZenonT(40)
  <2> QED
    BY <1>12, <2>1, <2>2, RequestOf, ZenonT(40)
<1>18. Refundables'
  <2> SUFFICES ASSUME NEW x \in Txns, status'[x] # "NONE", ~IsRefund(x)
               PROVE  refundable'[x] + SumOver(Amounts, RefundsOf(x)') = Amount(x)
    BY ZenonT(40) DEF Refundables, IsRefund, Amount, Amounts
  <2>1. refundable[x] + SumOver(Amounts, RefundsOf(x)) = Amount(x)
    BY <1>11, <1>12, ZenonT(40) DEF JournalInv, Refundables
  <2>2. CASE IsRefund(t) /\ x = Origin(t)
    <3> DEFINE R == RefundsOf(x)
    <3>1. RefundsOf(x)' = R \cup {t}
      <4>1. \A r : r \in RefundsOf(x)' <=> r \in Txns /\ IsRefund(r) /\ Origin(r) = x /\ Debited(r)'
        BY DEF RefundsOf, IsRefund, Origin
      <4>2. \A r : r \in R <=> r \in Txns /\ IsRefund(r) /\ Origin(r) = x /\ Debited(r)
        BY DEF RefundsOf
      <4> HIDE DEF R
      <4> QED
        BY <1>13, <2>2, <4>1, <4>2, ZenonT(40)
    <3>2. t \notin R /\ R \subseteq Txns
      BY <1>13, ZenonT(40) DEF RefundsOf
    <3> HIDE DEF R
    <3>3. IsFiniteSet(R) /\ \A r \in R \cup {t} : Amounts[r] \in Int
      BY <3>2, FS_Subset, BookFiniteAssumption, AmountsType, ZenonT(40)
    <3>4. SumOver(Amounts, R \cup {t}) = SumOver(Amounts, R) + Amounts[t]
      BY <3>2, <3>3, SumAdd, ZenonT(40)
    <3>5. SumOver(Amounts, R) \in Int
      BY <3>3, SumType, ZenonT(40)
    <3>6. refundable'[x] = refundable[x] - Amount(t) /\ refundable[x] \in Nat
      BY <1>11, <2>2, ZenonT(40) DEF BooksInv
    <3> QED
      BY <1>1, <2>1, <3>1, <3>4, <3>5, <3>6, AmountsType DEF R
  <2>3. CASE ~(IsRefund(t) /\ x = Origin(t))
    <3>1. RefundsOf(x)' = RefundsOf(x)
      BY <1>13, <2>3, ZenonT(40) DEF RefundsOf, IsRefund, Origin
    <3>2. refundable'[x] = refundable[x]
      BY <1>1, <1>11, <2>3, ZenonT(40) DEF BooksInv
    <3> QED
      BY <2>1, <3>1, <3>2, ZenonT(40)
  <2> QED
    BY <2>2, <2>3, ZenonT(40)
<1> QED
  BY <1>15, <1>16, <1>17, <1>18, ZenonT(40) DEF JournalInv

\* the books, the balances and the journal are as BooksInv, MoneyInv and JournalInv say,
\* always
THEOREM JournalInvariant == Spec => [](BooksInv /\ MoneyInv /\ JournalInv)
<1>1. Init => JournalInv
  BY JournalInit, ZenonT(40)
<1>2. BooksInv /\ JournalInv /\ [Next]_vars => JournalInv'
  <2> SUFFICES ASSUME BooksInv, JournalInv, [Next]_vars PROVE JournalInv'
    OBVIOUS
  <2>1. CASE \E t \in Txns : DebitStage(t)
    BY <2>1, DebitKeepsJournal, ZenonT(40)
  <2>2. CASE \E t \in Txns : CreditStage(t)
    BY <2>2, CreditKeepsJournal, ZenonT(40)
  <2>3. CASE \E t \in Txns : SubmitTransfer(t)
    BY <2>3, SubmitKeepsJournal
  <2>4. CASE \/ \E t \in Txns : SubmitRefund(t) \/ DebitStageRefused(t)
             \/ Tick
             \/ UNCHANGED vars
    BY <2>4, OthersKeepJournal, ZenonT(40)
  <2> QED
    BY <2>1, <2>2, <2>3, <2>4, ZenonT(40) DEF Next
<1> QED
  BY <1>1, <1>2, LedgerInvariant, PTL DEF Spec

\* applyBookCreditPartsTx never refuses the credit of a txn that is debited: whatever was
\* swept or refunded in between, the parts are there, add up and name different books
THEOREM CreditsGoThrough == Spec => []CreditNeverRefused
<1>1. BooksInv /\ JournalInv => CreditNeverRefused
  BY CreditGoesThrough, ZenonT(40) DEF CreditNeverRefused
<1> QED
  BY <1>1, JournalInvariant, PTL

-----------------------------------------------------------------------------
(* What the refunds of a txn restore together *)

\* the refunds of t tile its rows
Tiles(t) ==
  \A i \in DOMAIN taken[t] :
    RestoredOf(t, i) = RefundUse(taken[t], 0, SumOver(Amounts, Settled(t))).uses[i]

\* two refunds between their stages are recorded, and what is restored is a number
TileInv ==
  /\ restored = [r \in Txns |-> restored[r]]
  /\ \A r, s \in Txns :
       /\ IsRefund(r) /\ IsRefund(s) /\ r # s /\ Origin(r) = Origin(s)
       /\ status[r] = "PAY_SUCCESS" /\ status[s] = "PAY_SUCCESS"
       => Origin(r) \in overlapped
  /\ \A t \in Txns : \A r \in Settled(t) : \A i \in DOMAIN taken[t] : restored[r][i] \in Int
  /\ \A t \in Txns \ overlapped : Tiles(t)

\* the settled refunds of t are finitely many txns
LEMMA SettledIs ==
  ASSUME NEW t \in Txns
  PROVE  Settled(t) \subseteq Txns /\ IsFiniteSet(Settled(t))
<1>1. Settled(t) \subseteq Txns
  BY DEF Settled
<1> QED
  BY <1>1, FS_Subset, BookFiniteAssumption, ZenonT(40)

\* a step that leaves the settled refunds of t and the rows of t alone
LEMMA TilesKept ==
  ASSUME NEW t \in Txns, Tiles(t), Settled(t)' = Settled(t), taken'[t] = taken[t],
         \A r \in Settled(t) : restored'[r] = restored[r]
  PROVE  Tiles(t)'
<1> SUFFICES ASSUME NEW i \in DOMAIN taken[t]
             PROVE  SumOver([r \in Settled(t)' |-> restored'[r][i]], Settled(t)')
                      = RefundUse(taken'[t], 0, SumOver(Amounts, Settled(t)')).uses[i]
  BY ZenonT(40) DEF Tiles, RestoredOf, Amounts, Amount
<1>1. SumOver([r \in Settled(t) |-> restored[r][i]], Settled(t))
        = RefundUse(taken[t], 0, SumOver(Amounts, Settled(t))).uses[i]
  BY ZenonT(40) DEF Tiles, RestoredOf
<1>2. [r \in Settled(t)' |-> restored'[r][i]] = [r \in Settled(t) |-> restored[r][i]]
  BY ZenonT(40)
<1> QED
  BY <1>1, <1>2, ZenonT(40)

\* at first no txn has rows
LEMMA TileInit == Init => TileInv
<1> SUFFICES ASSUME Init PROVE TileInv
  OBVIOUS
<1>1. \A t \in Txns : status[t] = "NONE" /\ taken[t] = << >>
  BY ZenonT(40) DEF Init
<1>2. DOMAIN << >> = {}
  OBVIOUS
<1>3. restored = [r \in Txns |-> restored[r]]
  BY ZenonT(40) DEF Init
<1>4. \A t \in Txns : Tiles(t) /\ DOMAIN taken[t] = {}
  BY <1>1, <1>2, ZenonT(40) DEF Tiles
<1> QED
  BY <1>1, <1>3, <1>4, ZenonT(40) DEF TileInv

\* a refund is settled when its status says so
LEMMA SettledWhen ==
  ASSUME NEW t \in Txns
  PROVE  /\ \A r : r \in Settled(t) <=>
                     r \in Txns /\ IsRefund(r) /\ Origin(r) = t /\ status[r] = "RECV_SUCCESS"
         /\ \A r : r \in Settled(t)' <=>
                     r \in Txns /\ IsRefund(r) /\ Origin(r) = t /\ status'[r] = "RECV_SUCCESS"
BY ZenonT(40) DEF Settled, IsRefund, Origin

\* steps that debit and credit nothing
LEMMA OthersKeepTiles ==
  ASSUME BooksInv, TileInv,
         \/ \E t \in Txns : SubmitTransfer(t) \/ SubmitRefund(t) \/ DebitStageRefused(t)
         \/ Tick
         \/ UNCHANGED vars
  PROVE  TileInv'
<1>1. UNCHANGED <<taken, restored, overlapped>>
  BY ZenonT(40) DEF SubmitTransfer, SubmitRefund, DebitStageRefused, Tick, vars, history
<1>2. \/ UNCHANGED status
      \/ \E t \in Txns : \/ status[t] = "NONE" /\ status' = [status EXCEPT ![t] = "INIT"]
                         \/ status[t] = "INIT" /\ status' = [status EXCEPT ![t] = "FAILED"]
  BY ZenonT(40) DEF SubmitTransfer, SubmitRefund, DebitStageRefused, Tick, vars
<1>3. \A x \in Txns : /\ status'[x] = "PAY_SUCCESS" => status[x] = "PAY_SUCCESS"
                      /\ status'[x] = "RECV_SUCCESS" <=> status[x] = "RECV_SUCCESS"
  BY <1>2, ZenonT(40) DEF BooksInv
<1>4. \A t \in Txns : Settled(t)' = Settled(t)
  BY <1>3, SettledWhen, ZenonT(40)
<1>5. \A t \in Txns \ overlapped' : Tiles(t)'
  BY <1>1, <1>4, TilesKept, ZenonT(40) DEF TileInv
<1>6. \A t \in Txns : \A r \in Settled(t)' : \A i \in DOMAIN taken'[t] : restored'[r][i] \in Int
  BY <1>1, <1>4, ZenonT(40) DEF TileInv
<1>7. \A r, s \in Txns :
        /\ IsRefund(r) /\ IsRefund(s) /\ r # s /\ Origin(r) = Origin(s)
        /\ status'[r] = "PAY_SUCCESS" /\ status'[s] = "PAY_SUCCESS"
        => Origin(r) \in overlapped'
  BY <1>1, <1>3, ZenonT(40) DEF TileInv
<1> QED
  BY <1>1, <1>5, <1>6, <1>7, ZenonT(40) DEF TileInv, IsRefund, Origin

\* a debit makes the rows of a txn that has no refunds yet
LEMMA DebitKeepsTiles ==
  ASSUME BooksInv, BooksInv', JournalInv, TileInv, NEW t \in Txns, DebitStage(t)
  PROVE  TileInv'
<1>1. /\ status[t] = "INIT" /\ status' = [status EXCEPT ![t] = "PAY_SUCCESS"]
      /\ restored' = restored
      /\ overlapped' = IF Overlaps(t) THEN overlapped \cup {Origin(t)} ELSE overlapped
  BY ZenonT(40) DEF DebitStage
<1>2. \A x \in Txns \ {t} : taken'[x] = taken[x]
  <2>1. \E rows : taken' = [taken EXCEPT ![t] = rows]
    BY DebitDoes, ZenonT(40)
  <2> QED
    BY <2>1, ZenonT(40) DEF BooksInv
<1>3. status'[t] = "PAY_SUCCESS" /\ \A x \in Txns \ {t} : status'[x] = status[x]
  BY <1>1, ZenonT(40) DEF BooksInv
<1>4. overlapped \subseteq overlapped'
  BY <1>1, ZenonT(40)
<1>5. \A u \in Txns : Settled(u)' = Settled(u)
  <2>1. \A x \in Txns : status'[x] = "RECV_SUCCESS" <=> status[x] = "RECV_SUCCESS"
    BY <1>1, <1>3
  <2> QED
    BY <2>1, SettledWhen, ZenonT(40)
<1>6. \A r \in Txns : r \notin Settled(t)
  <2>1. \A r \in Settled(t) : status[t] = "RECV_SUCCESS"
    BY SettledWhen, ZenonT(40) DEF JournalInv, RefundsFollow, Debited
  <2> QED
    BY <1>1, <2>1, ZenonT(40)
<1>7. Settled(t) = {} /\ Settled(t)' = {}
  BY <1>5, <1>6, SettledIs, ZenonT(40)
<1>8. Tiles(t)'
  <2> SUFFICES ASSUME NEW i \in DOMAIN taken'[t]
               PROVE  SumOver([r \in Settled(t)' |-> restored'[r][i]], Settled(t)')
                        = RefundUse(taken'[t], 0, SumOver(Amounts, Settled(t)')).uses[i]
    BY ZenonT(40) DEF Tiles, RestoredOf, Amounts, Amount
  <2>1. taken'[t] \in Seq(Rows)
    BY ZenonT(40) DEF BooksInv
  <2>2. RefundUse(taken'[t], 0, 0).uses[i] = 0
    <3>1. 0 \in Nat
      OBVIOUS
    <3> QED
      BY <2>1, <3>1, UseType, ZenonT(40)
  <2> QED
    BY <1>7, <2>2, SumEmpty, ZenonT(40)
<1>9. \A u \in Txns \ overlapped' : Tiles(u)'
  <2>1. ASSUME NEW u \in Txns \ overlapped', u # t PROVE Tiles(u)'
    <3>1. Tiles(u)
      BY <1>4, <2>1, ZenonT(40) DEF TileInv
    <3> QED
      BY <1>1, <1>2, <1>5, <2>1, <3>1, TilesKept, ZenonT(40)
  <2> QED
    BY <1>8, <2>1, ZenonT(40)
<1>10. \A u \in Txns : \A r \in Settled(u)' : \A i \in DOMAIN taken'[u] : restored'[r][i] \in Int
  BY <1>1, <1>2, <1>5, <1>7, ZenonT(40) DEF TileInv
<1>11. ASSUME NEW r \in Txns, NEW s \in Txns, IsRefund(r), IsRefund(s), r # s,
              Origin(r) = Origin(s), status'[r] = "PAY_SUCCESS", status'[s] = "PAY_SUCCESS"
       PROVE  Origin(r) \in overlapped'
  <2>1. CASE r # t /\ s # t
    BY <1>3, <1>4, <1>11, <2>1, ZenonT(40) DEF TileInv
  <2>2. CASE r = t \/ s = t
    <3>1. Overlaps(t) /\ Origin(r) = Origin(t)
      BY <1>3, <1>11, <2>2, ZenonT(40) DEF Overlaps
    <3> QED
      BY <1>1, <3>1, ZenonT(40)
  <2> QED
    BY <2>1, <2>2, ZenonT(40)
<1> QED
  BY <1>1, <1>9, <1>10, <1>11, ZenonT(40) DEF TileInv, IsRefund, Origin

\* a refund that has the rows of its origin for itself adds its share
LEMMA RefundKeepsTiles ==
  ASSUME BooksInv, JournalInv, TileInv, NEW t \in Txns, CreditStage(t), IsRefund(t),
         Origin(t) \notin overlapped, Settled(Origin(t))' = Settled(Origin(t)) \cup {t},
         restored' = [restored EXCEPT ![t] = Uses(t)]
  PROVE  Tiles(Origin(t))'
<1> DEFINE o == Origin(t)
           S == Settled(o)
           rows == taken[o]
           P == SumOver(Amounts, S)
           A == Amount(t)
<1>1. o \in Txns /\ A \in Nat /\ rows \in Seq(Rows) /\ taken' = taken
  BY RequestOf, CreditDoes, ZenonT(40) DEF BooksInv
<1>2. status[t] = "PAY_SUCCESS"
  BY CreditDoes, ZenonT(40)
<1>3. t \notin S /\ S \subseteq Txns /\ IsFiniteSet(S)
  BY <1>1, <1>2, SettledWhen, SettledIs, ZenonT(40)
<1>4. PriorDebited(t) = P
  <2>1. {r \in Txns \ {t} : /\ IsRefund(r) /\ Origin(r) = Origin(t)
                            /\ status[r] \in {"PAY_SUCCESS", "RECV_SUCCESS"}} = S
    <3>1. \A r \in Txns \ {t} : IsRefund(r) /\ Origin(r) = o => status[r] # "PAY_SUCCESS"
      BY <1>2, ZenonT(40) DEF TileInv
    <3> QED
      BY <1>1, <1>2, <3>1, SettledWhen, ZenonT(40)
  <2> QED
    BY <2>1, ZenonT(40) DEF PriorDebited
<1>5. P \in Nat
  <2>1. Debited(t)
    BY <1>2, ZenonT(40) DEF Debited
  <2> QED
    BY <1>4, <2>1, PriorAndSelf, ZenonT(40)
<1>6. SumOver(Amounts, S \cup {t}) = P + A
  <2>1. \A x \in S \cup {t} : Amounts[x] \in Int
    BY <1>3, AmountsType, ZenonT(40)
  <2> HIDE DEF S
  <2>2. SumOver(Amounts, S \cup {t}) = SumOver(Amounts, S) + Amounts[t]
    BY <1>3, <2>1, SumAdd, ZenonT(40)
  <2> QED
    BY <2>2, AmountsType, ZenonT(40)
<1>7. Uses(t) = RefundUse(rows, P, A).uses
  BY <1>4, ZenonT(40) DEF Uses
<1>8. restored'[t] = Uses(t) /\ \A r \in Txns \ {t} : restored'[r] = restored[r]
  BY ZenonT(40) DEF TileInv
<1> SUFFICES ASSUME NEW i \in DOMAIN rows
             PROVE  SumOver([r \in S \cup {t} |-> restored'[r][i]], S \cup {t})
                      = RefundUse(rows, 0, P + A).uses[i]
  <2>1. Settled(Origin(t))' = S \cup {t}
    OBVIOUS
  <2>2. taken'[o] = rows
    BY <1>1, ZenonT(40)
  <2> HIDE DEF S, P, A, rows
  <2>3. \A i \in DOMAIN taken'[o] :
          SumOver([r \in S \cup {t} |-> restored'[r][i]], S \cup {t})
            = RefundUse(taken'[o], 0, SumOver(Amounts, S \cup {t})).uses[i]
    BY <1>6, <2>2, ZenonT(40)
  <2> QED
    BY <2>1, <2>3, ZenonT(40) DEF Tiles, RestoredOf, Amounts, Amount, Origin
<1> DEFINE F == [r \in S |-> restored[r][i]]
           G == [r \in S \cup {t} |-> restored'[r][i]]
<1>9. SumOver(F, S) = RefundUse(rows, 0, P).uses[i]
  BY <1>1, ZenonT(40) DEF TileInv, Tiles, RestoredOf
<1>10. G[t] = RefundUse(rows, P, A).uses[i] /\ \A r \in S : G[r] = F[r] /\ F[r] \in Int
  <2>1. G[t] = restored'[t][i]
    BY ZenonT(40)
  <2>2. \A r \in S : G[r] = restored'[r][i] /\ F[r] = restored[r][i]
    BY ZenonT(40)
  <2>3. \A r \in S : restored'[r] = restored[r]
    BY <1>3, <1>8, ZenonT(40)
  <2>4. \A r \in S : restored[r][i] \in Int
    BY <1>1, ZenonT(40) DEF TileInv
  <2> QED
    BY <1>7, <1>8, <2>1, <2>2, <2>3, <2>4, ZenonT(40)
<1> HIDE DEF F, G, S, P, A, rows
<1>11. /\ RefundUse(rows, 0, P).uses[i] + RefundUse(rows, P, A).uses[i]
            = RefundUse(rows, 0, P + A).uses[i]
       /\ RefundUse(rows, P, A).uses[i] \in Int
  BY <1>1, <1>5, UseTiles, UseType, ZenonT(40)
<1>12. SumOver(G, S \cup {t}) = SumOver(G, S) + G[t]
  <2>1. \A r \in S \cup {t} : G[r] \in Int
    BY <1>10, <1>11, ZenonT(40)
  <2> QED
    BY <1>3, <2>1, SumAdd, ZenonT(40)
<1>13. SumOver(G, S) = SumOver(F, S)
  BY <1>3, <1>10, SumSame, ZenonT(40)
<1> QED
  BY <1>9, <1>10, <1>11, <1>12, <1>13, ZenonT(40) DEF G

\* a credit settles a refund, or none
LEMMA CreditKeepsTiles ==
  ASSUME BooksInv, JournalInv, TileInv, NEW t \in Txns, CreditStage(t)
  PROVE  TileInv'
<1>1. /\ status[t] = "PAY_SUCCESS" /\ status' = [status EXCEPT ![t] = "RECV_SUCCESS"]
      /\ taken' = taken
  BY CreditDoes, ZenonT(40)
<1>2. /\ overlapped' = overlapped
      /\ restored' = IF IsRefund(t) THEN [restored EXCEPT ![t] = Uses(t)] ELSE restored
  BY ZenonT(40) DEF CreditStage
<1>3. status'[t] = "RECV_SUCCESS" /\ \A x \in Txns \ {t} : status'[x] = status[x]
  BY <1>1, ZenonT(40) DEF BooksInv
<1>4. /\ restored' = [r \in Txns |-> restored'[r]]
      /\ \A r \in Txns \ {t} : restored'[r] = restored[r]
      /\ IsRefund(t) => restored'[t] = Uses(t)
  BY <1>2, ZenonT(40) DEF TileInv
<1>5. \A r, s \in Txns :
        /\ IsRefund(r) /\ IsRefund(s) /\ r # s /\ Origin(r) = Origin(s)
        /\ status'[r] = "PAY_SUCCESS" /\ status'[s] = "PAY_SUCCESS"
        => Origin(r) \in overlapped'
  BY <1>1, <1>2, <1>3, ZenonT(40) DEF TileInv
<1>6. \A u \in Txns : IF IsRefund(t) /\ u = Origin(t) THEN Settled(u)' = Settled(u) \cup {t}
                      ELSE Settled(u)' = Settled(u)
  <2> SUFFICES ASSUME NEW u \in Txns
               PROVE  IF IsRefund(t) /\ u = Origin(t) THEN Settled(u)' = Settled(u) \cup {t}
                      ELSE Settled(u)' = Settled(u)
    OBVIOUS
  <2>1. \A x \in Txns : status'[x] = "RECV_SUCCESS" <=> x = t \/ status[x] = "RECV_SUCCESS"
    BY <1>3, ZenonT(40)
  <2>2. \A r : r \in Settled(u)' <=> r \in Settled(u) \/ (r = t /\ IsRefund(t) /\ u = Origin(t))
    <3>1. \A r : r \in Settled(u) <=>
                   r \in Txns /\ IsRefund(r) /\ Origin(r) = u /\ status[r] = "RECV_SUCCESS"
      BY SettledWhen, ZenonT(40)
    <3>2. \A r : r \in Settled(u)' <=>
                   r \in Txns /\ IsRefund(r) /\ Origin(r) = u /\ status'[r] = "RECV_SUCCESS"
      BY SettledWhen, ZenonT(40)
    <3> QED
      BY <2>1, <3>1, <3>2, ZenonT(40)
  <2>3. CASE IsRefund(t) /\ u = Origin(t)
    BY <2>2, <2>3
  <2>4. CASE ~(IsRefund(t) /\ u = Origin(t))
    BY <2>2, <2>4
  <2> QED
    BY <2>3, <2>4, ZenonT(40)
<1>7. \A u \in Txns : t \notin Settled(u)
  BY <1>1, SettledWhen, ZenonT(40)
<1>8. \A u \in Txns : \A r \in Settled(u)' : \A i \in DOMAIN taken'[u] : restored'[r][i] \in Int
  <2> SUFFICES ASSUME NEW u \in Txns, NEW r \in Settled(u)', NEW i \in DOMAIN taken[u]
               PROVE  restored'[r][i] \in Int
    BY <1>1, ZenonT(40)
  <2>1. CASE r \in Settled(u)
    <3>1. r \in Txns /\ r # t
      BY <1>7, <2>1, SettledIs, ZenonT(40)
    <3>2. restored'[r] = restored[r]
      BY <1>4, <3>1, ZenonT(40)
    <3> QED
      BY <2>1, <3>2, ZenonT(40) DEF TileInv
  <2>2. CASE r \notin Settled(u)
    <3>1. IsRefund(t) /\ u = Origin(t) /\ r = t
      BY <1>6, <2>2, ZenonT(40)
    <3>2. Debited(t)
      BY <1>1, ZenonT(40) DEF Debited
    <3>3. PriorDebited(t) \in Nat /\ Amount(t) \in Nat /\ taken[u] \in Seq(Rows)
      BY <3>1, <3>2, PriorAndSelf, RequestOf, ZenonT(40) DEF BooksInv
    <3>4. Uses(t) = RefundUse(taken[u], PriorDebited(t), Amount(t)).uses
      BY <3>1, ZenonT(40) DEF Uses
    <3>5. RefundUse(taken[u], PriorDebited(t), Amount(t)).uses[i] \in Int
      BY <3>3, UseType, ZenonT(40)
    <3>6. restored'[r] = Uses(t)
      BY <1>4, <3>1, ZenonT(40)
    <3> QED
      BY <3>4, <3>5, <3>6, ZenonT(40)
  <2> QED
    BY <2>1, <2>2, ZenonT(40)
<1>9. \A u \in Txns \ overlapped' : Tiles(u)'
  <2> SUFFICES ASSUME NEW u \in Txns, u \notin overlapped PROVE Tiles(u)'
    BY <1>2, ZenonT(40)
  <2>1. CASE IsRefund(t) /\ u = Origin(t)
    <3>1. Tiles(Origin(t))'
      BY <1>2, <1>6, <2>1, RefundKeepsTiles, ZenonT(40)
    <3> QED
      BY <2>1, <3>1, ZenonT(40) DEF Origin
  <2>2. CASE ~(IsRefund(t) /\ u = Origin(t))
    <3>1. Settled(u)' = Settled(u) /\ Tiles(u)
      BY <1>6, <2>2, ZenonT(40) DEF TileInv
    <3>2. \A r \in Settled(u) : restored'[r] = restored[r]
      BY <1>4, <1>7, SettledIs, ZenonT(40)
    <3> QED
      BY <1>1, <3>1, <3>2, TilesKept, ZenonT(40)
  <2> QED
    BY <2>1, <2>2, ZenonT(40)
<1> QED
  BY <1>4, <1>5, <1>8, <1>9, ZenonT(40) DEF TileInv, IsRefund, Origin

\* Refunds in parts restore of every row of their origin what one refund of their sum would,
\* for any number of refunds in any order with any failures in between, as long as no two of
\* them are between debit and credit together: what buildRefundBookCreditParts takes for
\* earlier refunds, the debited ones, are then the credited ones.
THEOREM RefundsTileRows == Spec => []RefundsTile
<1>1. Init => TileInv
  BY TileInit, ZenonT(40)
<1>2. BooksInv /\ BooksInv' /\ JournalInv /\ TileInv /\ [Next]_vars => TileInv'
  <2> SUFFICES ASSUME BooksInv, BooksInv', JournalInv, TileInv, [Next]_vars PROVE TileInv'
    OBVIOUS
  <2>1. CASE \E t \in Txns : DebitStage(t)
    BY <2>1, DebitKeepsTiles, ZenonT(40)
  <2>2. CASE \E t \in Txns : CreditStage(t)
    BY <2>2, CreditKeepsTiles, ZenonT(40)
  <2>3. CASE \/ \E t \in Txns : SubmitTransfer(t) \/ SubmitRefund(t) \/ DebitStageRefused(t)
             \/ Tick
             \/ UNCHANGED vars
    BY <2>3, OthersKeepTiles, ZenonT(40)
  <2> QED
    BY <2>1, <2>2, <2>3, ZenonT(40) DEF Next
<1>3. TileInv => RefundsTile
  BY ZenonT(40) DEF TileInv, Tiles, RefundsTile
<1> QED
  BY <1>1, <1>2, <1>3, JournalInvariant, PTL DEF Spec

-----------------------------------------------------------------------------
\* applyBookDebitsTx takes from the books, once the sweep has been, what the in-memory
\* ExpiryBookService takes from the same books before it
THEOREM SpreadsAgree == Spec => []SpreadAsReference
<1>1. BooksInv /\ JournalInv => SpreadAsReference
  <2> SUFFICES ASSUME BooksInv, JournalInv, NEW a \in BookEnabled,
                      NEW x \in 1..Available(a)
               PROVE  Spread(BooksAfterSweep(a), Today, x) = FefoDebit(book[a], Today, x)
    BY ZenonT(40) DEF SpreadAsReference
  <2> DEFINE b == book[a]
             c == BooksAfterSweep(a)
             d == Today
  <2>1. a \in Accounts /\ BooksOK(b) /\ NoExpire \in DOMAIN b
    BY BookAccountAssumption, ZenonT(40) DEF BooksInv
  <2>2. BooksOK(c) /\ DOMAIN c = DOMAIN b
    BY <2>1, SweepTakes, ZenonT(40)
  <2>3. d \in Nat /\ d < NoExpire
    BY Days, ZenonT(40) DEF BooksInv, Today
  <2>4. \A e \in DOMAIN b : e <= NoExpire
    BY <2>1, ZenonT(40) DEF JournalInv, Dated
  <2>5. \A e \in DOMAIN b : e > d => c[e] = b[e]
    <3> SUFFICES ASSUME NEW e \in DOMAIN b, e > d PROVE c[e] = b[e]
      BY ZenonT(40)
    <3>1. e \in Nat
      BY <2>1, ZenonT(40) DEF BooksOK
    <3>2. ~(e <= d)
      BY <2>3, <3>1
    <3>3. e \notin SweptBooks(a)
      BY <3>2, ZenonT(40) DEF SweptBooks, Expired
    <3> QED
      BY <3>3, ZenonT(40) DEF BooksAfterSweep
  <2>6. x \in Nat /\ x <= SumOver(b, {e \in DOMAIN b : e > d \/ e = NoExpire})
    BY DEF Available
  <2> HIDE DEF b, c, d
  <2>7. Spread(c, d, x) = FefoDebit(b, d, x)
    BY <2>1, <2>2, <2>3, <2>4, <2>5, <2>6, SpreadIsFefo, ZenonT(40)
  <2> QED
    BY <2>7, ZenonT(40) DEF b, c, d
<1> QED
  BY <1>1, JournalInvariant, PTL

=============================================================================
