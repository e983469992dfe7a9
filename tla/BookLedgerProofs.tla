-------------------------- MODULE BookLedgerProofs --------------------------
(***************************************************************************)
(* What BookLedger promises about balances and debits, for every set of    *)
(* accounts and txns, every request and every clock.                       *)
(***************************************************************************)
EXTENDS BookLedger, SumTheorems

\* the time that the provers have for a step
USE SMTT(40), ZenonT(40)

-----------------------------------------------------------------------------
(* Sequences *)

\* the elements of a sequence
LEMMA SeqElements ==
  ASSUME NEW S, NEW s \in Seq(S)
  PROVE  Len(s) \in Nat /\ DOMAIN s = 1..Len(s) /\ \A i \in 1..Len(s) : s[i] \in S
OBVIOUS

\* the empty sequence has none
LEMMA SeqEmpty ==
  ASSUME NEW S
  PROVE  << >> \in Seq(S) /\ Len(<< >>) = 0
OBVIOUS

\* Append adds one
LEMMA SeqAppend ==
  ASSUME NEW S, NEW s \in Seq(S), NEW x \in S
  PROVE  /\ Append(s, x) \in Seq(S) /\ Len(Append(s, x)) = Len(s) + 1
         /\ \A i \in 1..Len(s) : Append(s, x)[i] = s[i]
         /\ Append(s, x)[Len(s) + 1] = x
OBVIOUS

-----------------------------------------------------------------------------
(* Parts *)

\* the amounts of parts are natural numbers over finitely many indices
LEMMA AmountsOfParts ==
  ASSUME NEW parts \in Seq(Parts)
  PROVE  /\ DOMAIN parts = 1..Len(parts) /\ IsFiniteSet(DOMAIN parts) /\ Len(parts) \in Nat
         /\ \A i \in DOMAIN parts : AmountsOf(parts)[i] = parts[i].amount
         /\ \A i \in DOMAIN parts : /\ parts[i].amount \in Nat \ {0}
                                    /\ parts[i].expire \in Nat \ {0}
                                    /\ AmountsOf(parts)[i] \in Nat
<1>1. DOMAIN parts = 1..Len(parts) /\ Len(parts) \in Nat
  BY SeqElements
<1>2. IsFiniteSet(1..Len(parts))
  BY <1>1, FS_Interval
<1>3. \A i \in DOMAIN parts : parts[i] \in Parts
  BY <1>1, SeqElements
<1>4. \A i \in DOMAIN parts : /\ parts[i].amount \in Nat \ {0}
                              /\ parts[i].expire \in Nat \ {0}
  BY <1>3 DEF Parts
<1> QED
  BY <1>1, <1>2, <1>4 DEF AmountsOf

\* the totals are natural numbers
LEMMA TotalType ==
  ASSUME NEW parts \in Seq(Parts), NEW e
  PROVE  Total(parts) \in Nat /\ TotalAt(parts, e) \in Nat
<1> DEFINE I == {i \in DOMAIN parts : parts[i].expire = e}
<1>1. IsFiniteSet(I)
  BY AmountsOfParts, FS_Subset
<1>2. \A i \in I : AmountsOf(parts)[i] \in Nat
  BY AmountsOfParts
<1>3. SumOver(AmountsOf(parts), I) \in Nat
  <2> HIDE DEF I
  <2> QED
    BY <1>1, <1>2, SumNat
<1>4. SumOver(AmountsOf(parts), DOMAIN parts) \in Nat
  BY AmountsOfParts, SumNat
<1> QED
  BY <1>3, <1>4 DEF Total, TotalAt

\* parts have finitely many dates
LEMMA DatesOfParts ==
  ASSUME NEW parts \in Seq(Parts)
  PROVE  /\ IsFiniteSet({parts[i].expire : i \in DOMAIN parts})
         /\ {parts[i].expire : i \in DOMAIN parts} \subseteq Nat \ {0}
<1> DEFINE key == [i \in DOMAIN parts |-> parts[i].expire]
           I == DOMAIN parts
<1>1. IsFiniteSet(I) /\ \A i \in I : parts[i].expire \in Nat \ {0}
  BY AmountsOfParts
<1> DEFINE N == {parts[i].expire : i \in I}
<1>2. key \in Surjection(I, N)
  BY DEF Surjection
<1>3. IsFiniteSet(N)
  <2> HIDE DEF key, I, N
  <2> QED
    BY <1>1, <1>2, FS_Surjection
<1> QED
  BY <1>1, <1>3

\* the parts of all dates are all parts
LEMMA TotalByDate ==
  ASSUME NEW parts \in Seq(Parts), NEW D, IsFiniteSet(D),
         \A i \in DOMAIN parts : parts[i].expire \in D
  PROVE  SumOver([e \in D |-> TotalAt(parts, e)], D) = Total(parts)
<1> DEFINE key == [i \in DOMAIN parts |-> parts[i].expire]
           f == AmountsOf(parts)
           I == DOMAIN parts
<1>1. \A i \in I : f[i] \in Int /\ key[i] \in D
  BY AmountsOfParts
<1>2. IsFiniteSet(I)
  BY AmountsOfParts
<1>3. SumOver([e \in D |-> SumOver(f, {i \in I : key[i] = e})], D) = SumOver(f, I)
  <2> HIDE DEF key, f, I
  <2> QED
    BY <1>1, <1>2, SumByKey
<1>4. \A e \in D : {i \in I : key[i] = e} = {i \in I : parts[i].expire = e}
  OBVIOUS
<1>5. [e \in D |-> SumOver(f, {i \in I : key[i] = e})] = [e \in D |-> TotalAt(parts, e)]
  BY <1>4, ZenonT(40) DEF TotalAt
<1> QED
  BY <1>3, <1>5, ZenonT(40) DEF Total

\* the parts of a date nobody has
LEMMA TotalAtNone ==
  ASSUME NEW parts, NEW e, \A i \in DOMAIN parts : parts[i].expire # e
  PROVE  TotalAt(parts, e) = 0
<1>1. {i \in DOMAIN parts : parts[i].expire = e} = {}
  OBVIOUS
<1> QED
  BY <1>1, SumEmpty, ZenonT(40) DEF TotalAt

\* the parts of a date that one part has
LEMMA TotalAtOne ==
  ASSUME NEW parts \in Seq(Parts), NEW j \in DOMAIN parts,
         \A i \in DOMAIN parts : i # j => parts[i].expire # parts[j].expire
  PROVE  TotalAt(parts, parts[j].expire) = parts[j].amount
<1> DEFINE e == parts[j].expire
           I == {i \in DOMAIN parts : parts[i].expire = e}
<1>1. j \in I /\ I \ {j} = {}
  OBVIOUS
<1>2. IsFiniteSet(I) /\ \A i \in I : AmountsOf(parts)[i] \in Int
  BY AmountsOfParts, FS_Subset
<1>3. SumOver(AmountsOf(parts), I) = AmountsOf(parts)[j] + SumOver(AmountsOf(parts), I \ {j})
  <2> HIDE DEF I
  <2> QED
    BY <1>1, <1>2, SumRemove
<1>4. SumOver(AmountsOf(parts), I \ {j}) = 0
  BY <1>1, SumEmpty, ZenonT(40)
<1>5. AmountsOf(parts)[j] = parts[j].amount /\ parts[j].amount \in Nat
  BY AmountsOfParts
<1> QED
  BY <1>3, <1>4, <1>5 DEF TotalAt

\* one more part adds its amount
LEMMA TotalAppend ==
  ASSUME NEW parts \in Seq(Parts), NEW part \in Parts
  PROVE  Total(Append(parts, part)) = Total(parts) + part.amount
<1> DEFINE more == Append(parts, part)
           n == Len(parts) + 1
<1>1. /\ more \in Seq(Parts) /\ Len(more) = n /\ more[n] = part
      /\ \A i \in 1..Len(parts) : more[i] = parts[i]
  BY SeqAppend
<1>2. Len(parts) \in Nat /\ DOMAIN parts = 1..Len(parts) /\ DOMAIN more = 1..n
  BY <1>1, AmountsOfParts
<1>3. DOMAIN more = DOMAIN parts \cup {n} /\ n \notin DOMAIN parts
  BY <1>2
<1>4. /\ \A i \in DOMAIN parts \cup {n} : AmountsOf(more)[i] \in Int
      /\ AmountsOf(more)[n] = part.amount
      /\ \A i \in DOMAIN parts : AmountsOf(more)[i] = AmountsOf(parts)[i]
  <2> HIDE DEF more, n
  <2> QED
    BY <1>1, <1>2, <1>3, AmountsOfParts
<1>5. IsFiniteSet(DOMAIN parts)
  BY AmountsOfParts
<1>6. SumOver(AmountsOf(more), DOMAIN parts \cup {n})
        = SumOver(AmountsOf(more), DOMAIN parts) + part.amount
  <2> HIDE DEF more, n
  <2> QED
    BY <1>3, <1>4, <1>5, SumAdd
<1>7. SumOver(AmountsOf(more), DOMAIN parts) = SumOver(AmountsOf(parts), DOMAIN parts)
  BY <1>4, <1>5, SumSame
<1> QED
  BY <1>3, <1>6, <1>7 DEF Total

-----------------------------------------------------------------------------
(* Spread *)

\* the books of an account: dates are positive, and only the book that never expires
\* may be overdrawn
BooksOK(b) ==
  /\ b = [e \in DOMAIN b |-> b[e]]
  /\ IsFiniteSet(DOMAIN b) /\ DOMAIN b \subseteq Nat \ {0}
  /\ \A e \in DOMAIN b : b[e] \in Int /\ (e # NoExpire => b[e] >= 0)

\* of a set of dates LastListed is the one after all others
LEMMA LastListedIsLast ==
  ASSUME NEW S \in SUBSET Nat, IsFiniteSet(S), S # {}
  PROVE  LastListed(S) \in S /\ \A e \in S \ {LastListed(S)} : Before(e, LastListed(S))
<1>1. Max(S) \in S /\ \A y \in S : y <= Max(S)
  BY MaxNat
<1>2. \A y \in S : y # Max(S) => y < Max(S)
  <2> DEFINE m == Max(S)
  <2>1. m \in Nat /\ \A y \in S : y \in Nat /\ y <= m
    BY <1>1, ZenonT(40)
  <2> HIDE DEF m
  <2>2. \A y \in S : y # m => y < m
    BY <2>1
  <2> QED
    BY <2>2 DEF m
<1>3. CASE NoExpire \in S
  <2>1. LastListed(S) = NoExpire
    BY <1>3 DEF LastListed
  <2>2. \A e \in S \ {NoExpire} : Before(e, NoExpire)
    BY DEF Before
  <2> QED
    BY <1>3, <2>1, <2>2
<1>4. CASE NoExpire \notin S
  <2>1. LastListed(S) = Max(S)
    BY <1>4 DEF LastListed
  <2>2. \A e \in S : e # NoExpire
    BY <1>4
  <2> QED
    BY <1>1, <1>2, <2>1, <2>2 DEF Before
<1> QED
  BY <1>3, <1>4

Progress == [left : Nat, parts : Seq(Parts)]

\* one step of Spread
Took(b, e, s) ==
  LET use == IF e = NoExpire THEN s.left ELSE Lowest(b[e], s.left)
  IN IF s.left = 0 THEN s
     ELSE [left |-> s.left - use,
           parts |-> Append(s.parts, [expire |-> e, amount |-> use])]

\* a step takes something, no more than is asked for and than a dated book has
LEMMA TookType ==
  ASSUME NEW b, NEW e \in Nat \ {0}, e # NoExpire => b[e] \in Nat \ {0}, NEW s \in Progress
  PROVE  Took(b, e, s) \in Progress
<1> DEFINE use == IF e = NoExpire THEN s.left ELSE Lowest(b[e], s.left)
           part == [expire |-> e, amount |-> use]
<1>1. s.left \in Nat /\ s.parts \in Seq(Parts)
  BY DEF Progress
<1>2. CASE s.left = 0
  BY <1>2 DEF Took
<1>3. CASE s.left # 0
  <2>1. use \in Nat \ {0} /\ s.left - use \in Nat
    BY <1>1, <1>3 DEF Lowest
  <2>2. part \in Parts
    BY <2>1 DEF Parts
  <2>3. Append(s.parts, part) \in Seq(Parts)
    BY <1>1, <2>2, SeqAppend
  <2>4. Took(b, e, s) = [left |-> s.left - use, parts |-> Append(s.parts, part)]
    BY <1>3 DEF Took
  <2> HIDE DEF use, part
  <2> QED
    BY <2>1, <2>3, <2>4 DEF Progress
<1> QED
  BY <1>2, <1>3

\* g has what Spread makes of the subsets S of the listed books
IsSpread(b, amount, S, g) ==
  g = [s \in SUBSET S |->
         IF s = {} THEN [left |-> amount, parts |-> << >>]
         ELSE Took(b, LastListed(s), g[s \ {LastListed(s)}])]

\* Spread is the function that Spread iterates, at the set of the listed books
LEMMA SpreadDef ==
  ASSUME NEW b, NEW d, NEW amount
  PROVE  Spread(b, d, amount)
           = (CHOOSE g : IsSpread(b, amount, Listed(b, d), g))[Listed(b, d)]
BY DEF Spread, MapThenFoldSet, IsSpread, Took

\* every value of that function is Progress, and it is there
LEMMA SpreadIs ==
  ASSUME NEW b, BooksOK(b), NEW d \in Nat, NEW amount \in Nat
  PROVE  \E g \in [SUBSET Listed(b, d) -> Progress] :
           IsSpread(b, amount, Listed(b, d), g) /\ Spread(b, d, amount) = g[Listed(b, d)]
<1> DEFINE L == Listed(b, d)
           base == [left |-> amount, parts |-> << >>]
           pick == [s \in SUBSET L |-> LastListed(s)]
           step == [es \in L \X Progress |-> Took(b, es[1], es[2])]
<1>1. L \subseteq Nat \ {0} /\ IsFiniteSet(L) /\ \A e \in L : e # NoExpire => b[e] \in Nat \ {0}
  BY FS_Subset DEF BooksOK, Listed
<1>2. \A s \in SUBSET L : s # {} => pick[s] \in s
  <2>1. ASSUME NEW s \in SUBSET L, s # {} PROVE LastListed(s) \in s
    <3>1. IsFiniteSet(s) /\ s \in SUBSET Nat
      BY <1>1, FS_Subset
    <3> QED
      BY <2>1, <3>1, LastListedIsLast
  <2> QED
    BY <2>1
<1>3. base \in Progress
  <2>1. << >> \in Seq(Parts)
    BY SeqEmpty
  <2> QED
    BY <2>1 DEF Progress
<1>4. step \in [L \X Progress -> Progress]
  <2>1. ASSUME NEW e \in L, NEW s \in Progress PROVE Took(b, e, s) \in Progress
    BY <1>1, TookType
  <2> QED
    BY <2>1
<1>5. PICK g \in [SUBSET L -> Progress] : IsFold(g, L, base, step, pick)
  <2> HIDE DEF L, base, pick, step
  <2> QED
    BY <1>1, <1>2, <1>3, <1>4, FoldExists, ZenonT(40)
<1>6. ASSUME NEW s \in SUBSET L, s # {}
      PROVE  step[<<pick[s], g[s \ {pick[s]}]>>] = Took(b, LastListed(s), g[s \ {LastListed(s)}])
  <2>1. LastListed(s) \in L /\ pick[s] = LastListed(s)
    BY <1>2, <1>6, ZenonT(40)
  <2>2. g[s \ {LastListed(s)}] \in Progress
    OBVIOUS
  <2>3. <<LastListed(s), g[s \ {LastListed(s)}]>> \in L \X Progress
    BY <2>1, <2>2
  <2>4. \A es \in L \X Progress : step[es] = Took(b, es[1], es[2])
    OBVIOUS
  <2> HIDE DEF L, pick, step
  <2> QED
    BY <2>1, <2>3, <2>4
<1>7. IsSpread(b, amount, L, g)
  <2>1. \A s \in SUBSET L :
          g[s] = IF s = {} THEN base ELSE Took(b, LastListed(s), g[s \ {LastListed(s)}])
    BY <1>5, <1>6, ZenonT(40) DEF IsFold
  <2> HIDE DEF L
  <2> QED
    BY <2>1 DEF IsSpread
<1> DEFINE c == CHOOSE h : IsSpread(b, amount, L, h)
<1>8. IsSpread(b, amount, L, c)
  <2> HIDE DEF L
  <2> QED
    BY <1>7
<1>9. Spread(b, d, amount) = c[L]
  BY SpreadDef
<1>10. c = g
  <2> DEFINE P == {s \in SUBSET L : c[s] = g[s]}
  <2>1. ASSUME NEW s \in SUBSET L, \A u \in SUBSET s : u # s => u \in P
        PROVE  s \in P
    <3>1. CASE s = {}
      <4> HIDE DEF c, L
      <4> QED
        BY <1>7, <1>8, <3>1 DEF IsSpread
    <3>2. CASE s # {}
      <4>1. c[s \ {LastListed(s)}] = g[s \ {LastListed(s)}]
        BY <1>2, <2>1, <3>2, ZenonT(40)
      <4> HIDE DEF c, L
      <4> QED
        BY <1>7, <1>8, <3>2, <4>1, ZenonT(40) DEF IsSpread
    <3> QED
      BY <3>1, <3>2
  <2>2. P = SUBSET L
    <3> HIDE DEF P, L
    <3>1. P \in SUBSET (SUBSET L)
      BY DEF P
    <3> QED
      BY <1>1, <2>1, <3>1, SubsetInduction, ZenonT(40)
  <2>3. DOMAIN c = SUBSET L /\ c = [s \in SUBSET L |-> c[s]]
    <3> HIDE DEF c, L
    <3> QED
      BY <1>8 DEF IsSpread
  <2> HIDE DEF c, L
  <2> QED
    BY <2>2, <2>3, ZenonT(40)
<1> QED
  BY <1>7, <1>9, <1>10, ZenonT(40)

\* a part takes all that the book of date e has
Emptied(b, parts, e) ==
  \E j \in DOMAIN parts : parts[j].expire = e /\ parts[j].amount = b[e]

\* what Spread has done once it has been to the books of s: what is left and what was
\* taken add up, a date has one part and no dated book gives more than it has, the book
\* that never expires gives the rest, and a later book gives only what the earlier ones,
\* all emptied, did not
SpreadOK(b, amount, s, r) ==
  /\ r.left <= amount /\ Total(r.parts) = amount - r.left
  /\ \A i \in DOMAIN r.parts :
       /\ r.parts[i].expire \in s
       /\ r.parts[i].expire # NoExpire => r.parts[i].amount <= b[r.parts[i].expire]
  /\ \A i, j \in DOMAIN r.parts : i < j => Before(r.parts[i].expire, r.parts[j].expire)
  /\ NoExpire \in s => r.left = 0
  /\ r.left > 0 => \A e \in s : Emptied(b, r.parts, e)
  /\ \A i \in DOMAIN r.parts, e \in s :
       Before(e, r.parts[i].expire) => Emptied(b, r.parts, e)

\* no date is before one that is before it
LEMMA BeforeIsOrder ==
  ASSUME NEW e \in Nat, NEW f \in Nat, Before(e, f)
  PROVE  e # f /\ e # NoExpire /\ ~Before(f, e)
BY DEF Before

\* the next book keeps SpreadOK
LEMMA TookKeeps ==
  ASSUME NEW b, NEW U \in SUBSET Nat, NEW p \in Nat \ {0}, \A e \in U : Before(e, p),
         p # NoExpire => b[p] \in Nat \ {0},
         NEW amount \in Nat, NEW r \in Progress, SpreadOK(b, amount, U, r)
  PROVE  SpreadOK(b, amount, U \cup {p}, Took(b, p, r))
<1>1. r.left \in Nat /\ r.parts \in Seq(Parts)
  BY DEF Progress
<1>2. \A e \in U : e # p /\ e # NoExpire /\ ~Before(p, e)
  BY BeforeIsOrder
<1>3. ~Before(p, p)
  BY BeforeIsOrder
<1>4. CASE r.left = 0
  <2>1. Took(b, p, r) = r
    BY <1>4, ZenonT(40) DEF Took
  <2>2. ASSUME NEW i \in DOMAIN r.parts, NEW e \in U \cup {p}, Before(e, r.parts[i].expire)
        PROVE  Emptied(b, r.parts, e)
    <3>1. r.parts[i].expire \in U
      BY DEF SpreadOK
    <3>2. e \in U
      BY <1>2, <2>2, <3>1, ZenonT(40)
    <3> QED
      BY <2>2, <3>2, ZenonT(40) DEF SpreadOK
  <2>3. SpreadOK(b, amount, U \cup {p}, r)
    BY <1>1, <1>4, <2>2 DEF SpreadOK
  <2> QED
    BY <2>1, <2>3, ZenonT(40)
<1>5. CASE r.left # 0
  <2> DEFINE use == IF p = NoExpire THEN r.left ELSE Lowest(b[p], r.left)
             part == [expire |-> p, amount |-> use]
             more == Append(r.parts, part)
             n == Len(r.parts) + 1
             q == [left |-> r.left - use, parts |-> more]
  <2>1. /\ use \in Nat \ {0} /\ use <= r.left
        /\ p # NoExpire => use <= b[p]
        /\ p = NoExpire => r.left - use = 0
        /\ r.left - use > 0 => use = b[p]
    BY <1>1, <1>5 DEF Lowest
  <2>2. Took(b, p, r) = q
    BY <1>5, ZenonT(40) DEF Took
  <2>3. part \in Parts /\ part.expire = p /\ part.amount = use
    BY <2>1, ZenonT(40) DEF Parts
  <2>4. /\ more \in Seq(Parts) /\ Len(more) = n /\ more[n] = part
        /\ \A i \in 1..Len(r.parts) : more[i] = r.parts[i]
    BY <1>1, <2>3, SeqAppend
  <2>5. /\ Len(r.parts) \in Nat /\ DOMAIN r.parts = 1..Len(r.parts)
        /\ DOMAIN more = 1..n
    BY <1>1, <2>4, AmountsOfParts, ZenonT(40)
  <2>6. q.left = r.left - use /\ q.parts = more
    OBVIOUS
  <2>7. Total(more) = Total(r.parts) + use
    <3> HIDE DEF part, use
    <3> QED
      BY <1>1, <2>3, TotalAppend
  <2> HIDE DEF part, more, use, q
  <2>8. \A i \in DOMAIN more : (i \in DOMAIN r.parts /\ more[i] = r.parts[i]) \/ i = n
    BY <2>4, <2>5
  <2>9. \A i \in DOMAIN r.parts : i \in DOMAIN more /\ more[i] = r.parts[i] /\ i < n
    BY <2>4, <2>5
  <2>10. n \in DOMAIN more /\ more[n].expire = p /\ more[n].amount = use
    BY <2>3, <2>4, <2>5
  <2>11. ASSUME NEW e \in U, Emptied(b, r.parts, e) PROVE Emptied(b, more, e)
    BY <2>9, <2>11 DEF Emptied
  <2>12. q.left <= amount /\ Total(q.parts) = amount - q.left
    BY <1>1, <2>1, <2>6, <2>7 DEF SpreadOK
  <2>13. ASSUME NEW i \in DOMAIN more
         PROVE  /\ more[i].expire \in U \cup {p}
                /\ more[i].expire # NoExpire => more[i].amount <= b[more[i].expire]
    <3>1. CASE i \in DOMAIN r.parts /\ more[i] = r.parts[i]
      BY <3>1 DEF SpreadOK
    <3>2. CASE i = n
      BY <2>1, <2>10, <3>2, ZenonT(40)
    <3> QED
      BY <2>8, <3>1, <3>2, ZenonT(40)
  <2>14. ASSUME NEW i \in DOMAIN more, NEW j \in DOMAIN more, i < j
         PROVE  Before(more[i].expire, more[j].expire)
    <3>1. i \in DOMAIN r.parts /\ more[i] = r.parts[i]
      BY <2>5, <2>8, <2>14
    <3>2. CASE j \in DOMAIN r.parts /\ more[j] = r.parts[j]
      BY <2>14, <3>1, <3>2 DEF SpreadOK
    <3>3. CASE j = n
      <4>1. r.parts[i].expire \in U
        BY <3>1 DEF SpreadOK
      <4> QED
        BY <2>10, <3>1, <3>3, <4>1, ZenonT(40)
    <3> QED
      BY <2>8, <3>2, <3>3
  <2>15. NoExpire \in U \cup {p} => q.left = 0
    BY <1>2, <2>1, <2>6
  <2>16. ASSUME q.left > 0, NEW e \in U \cup {p} PROVE Emptied(b, more, e)
    <3>1. CASE e \in U
      <4>1. r.left > 0
        BY <1>1, <1>5
      <4> QED
        BY <2>11, <3>1, <4>1 DEF SpreadOK
    <3>2. CASE e = p
      BY <2>1, <2>6, <2>10, <2>16, <3>2, ZenonT(40) DEF Emptied
    <3> QED
      BY <3>1, <3>2
  <2>17. ASSUME NEW i \in DOMAIN more, NEW e \in U \cup {p}, Before(e, more[i].expire)
         PROVE  Emptied(b, more, e)
    <3>1. CASE i \in DOMAIN r.parts /\ more[i] = r.parts[i]
      <4>1. r.parts[i].expire \in U
        BY <3>1 DEF SpreadOK
      <4>2. e \in U
        BY <1>2, <2>17, <3>1, <4>1, ZenonT(40)
      <4> QED
        BY <2>11, <2>17, <3>1, <4>2, ZenonT(40) DEF SpreadOK
    <3>2. CASE i = n
      <4>1. e \in U
        BY <1>3, <2>10, <2>17, <3>2
      <4>2. r.left > 0
        BY <1>1, <1>5
      <4> QED
        BY <2>11, <4>1, <4>2, ZenonT(40) DEF SpreadOK
    <3> QED
      BY <2>8, <3>1, <3>2, ZenonT(40)
  <2>18. SpreadOK(b, amount, U \cup {p}, q)
    BY <2>6, <2>12, <2>13, <2>14, <2>15, <2>16, <2>17, ZenonT(40) DEF SpreadOK
  <2> QED
    BY <2>2, <2>18
<1> QED
  BY <1>4, <1>5

\* Spread does what SpreadOK says with the books that the query lists
LEMMA SpreadSpreads ==
  ASSUME NEW b, BooksOK(b), NEW d \in Nat, NEW amount \in Nat
  PROVE  /\ Spread(b, d, amount) \in Progress
         /\ SpreadOK(b, amount, Listed(b, d), Spread(b, d, amount))
<1> DEFINE L == Listed(b, d)
<1>1. L \subseteq Nat \ {0} /\ IsFiniteSet(L) /\ \A e \in L : e # NoExpire => b[e] \in Nat \ {0}
  BY FS_Subset DEF BooksOK, Listed
<1>2. PICK g \in [SUBSET L -> Progress] :
        IsSpread(b, amount, L, g) /\ Spread(b, d, amount) = g[L]
  BY SpreadIs, ZenonT(40)
<1> HIDE DEF L
<1> DEFINE P == {s \in SUBSET L : SpreadOK(b, amount, s, g[s])}
<1>3. ASSUME NEW s \in SUBSET L, \A u \in SUBSET s : u # s => u \in P
      PROVE  s \in P
  <2>1. CASE s = {}
    <3> DEFINE r == [left |-> amount, parts |-> << >>]
    <3>1. g[s] = r
      BY <1>2, <2>1 DEF IsSpread
    <3>2. r.left = amount /\ r.parts = << >> /\ DOMAIN r.parts = {}
      OBVIOUS
    <3>3. Total(r.parts) = 0
      BY <3>2, SumEmpty, ZenonT(40) DEF Total
    <3>4. SpreadOK(b, amount, s, r)
      <4> HIDE DEF r
      <4> QED
        BY <2>1, <3>2, <3>3 DEF SpreadOK
    <3> QED
      BY <3>1, <3>4
  <2>2. CASE s # {}
    <3> DEFINE p == LastListed(s)
               U == s \ {p}
    <3>1. p \in s /\ \A e \in U : Before(e, p)
      <4>1. s \in SUBSET Nat /\ IsFiniteSet(s)
        BY <1>1, FS_Subset, ZenonT(40)
      <4> QED
        BY <2>2, <4>1, LastListedIsLast
    <3>2. SpreadOK(b, amount, U, g[U]) /\ g[U] \in Progress
      BY <1>3, <3>1
    <3>3. g[s] = Took(b, p, g[U])
      BY <1>2, <2>2, ZenonT(40) DEF IsSpread
    <3>4. U \in SUBSET Nat /\ p \in Nat \ {0} /\ (p # NoExpire => b[p] \in Nat \ {0})
      BY <1>1, <3>1, ZenonT(40)
    <3>5. U \cup {p} = s
      BY <3>1
    <3>6. SpreadOK(b, amount, U \cup {p}, Took(b, p, g[U]))
      <4> HIDE DEF p, U
      <4> QED
        BY <3>1, <3>2, <3>4, TookKeeps, ZenonT(40)
    <3> QED
      BY <3>3, <3>5, <3>6, ZenonT(40)
  <2> QED
    BY <2>1, <2>2
<1>4. P = SUBSET L
  <2> HIDE DEF P
  <2>1. P \in SUBSET (SUBSET L)
    BY DEF P
  <2> QED
    BY <1>1, <1>3, <2>1, SubsetInduction, ZenonT(40)
<1>5. SpreadOK(b, amount, L, g[L]) /\ g[L] \in Progress
  BY <1>4, ZenonT(40)
<1> QED
  BY <1>2, <1>5 DEF L

\* the parts of a debit have different dates
LEMMA PartsDiffer ==
  ASSUME NEW b, NEW amount, NEW s, NEW r \in Progress, SpreadOK(b, amount, s, r),
         NEW i \in DOMAIN r.parts, NEW j \in DOMAIN r.parts, i # j
  PROVE  r.parts[i].expire # r.parts[j].expire
<1>1. r.parts \in Seq(Parts)
  BY DEF Progress
<1>2. /\ i \in Nat /\ j \in Nat
      /\ r.parts[i].expire \in Nat /\ r.parts[j].expire \in Nat
  BY <1>1, AmountsOfParts
<1>3. Before(r.parts[i].expire, r.parts[j].expire) \/ Before(r.parts[j].expire, r.parts[i].expire)
  BY <1>2 DEF SpreadOK
<1> QED
  BY <1>2, <1>3, BeforeIsOrder

-----------------------------------------------------------------------------
(* Spread and FefoDebit *)

\* one step of FefoDebit
Drawn(b, d, e, s) ==
  LET use == Lowest(b[e], s.left)
  IN IF s.left = 0 \/ e <= d \/ b[e] <= 0 THEN s
     ELSE [left |-> s.left - use,
           parts |-> Append(s.parts, [expire |-> e, amount |-> use])]

\* f has what FefoDebit makes of the subsets of the books
IsFefo(b, d, amount, f) ==
  f = [s \in SUBSET DOMAIN b |->
         IF s = {} THEN [left |-> amount, parts |-> << >>]
         ELSE Drawn(b, d, Max(s), f[s \ {Max(s)}])]

\* FefoDebit is the function that FefoDebit iterates, at the set of all books
LEMMA FefoDef ==
  ASSUME NEW b, NEW d, NEW amount
  PROVE  FefoDebit(b, d, amount) = (CHOOSE f : IsFefo(b, d, amount, f))[DOMAIN b]
BY ZenonT(40) DEF FefoDebit, MapThenFoldSet, IsFefo, Drawn

\* it passes over a book that has expired or is empty, and else does as Spread does
LEMMA FefoStep ==
  ASSUME NEW b, NEW d \in Nat, NEW e \in Nat \ {0}, b[e] \in Int, NEW s \in Progress
  PROVE  /\ Drawn(b, d, e, s) \in Progress
         /\ e <= d \/ b[e] <= 0 => Drawn(b, d, e, s) = s
         /\ e # NoExpire /\ e > d /\ b[e] > 0 =>
              /\ Drawn(b, d, e, s) = Took(b, e, s)
              /\ Took(b, e, s).left > 0 => Took(b, e, s).left + b[e] = s.left
         /\ e = NoExpire /\ e > d /\ s.left <= b[e] => Drawn(b, d, e, s) = Took(b, e, s)
<1> DEFINE use == Lowest(b[e], s.left)
           part == [expire |-> e, amount |-> use]
           next == [left |-> s.left - use, parts |-> Append(s.parts, part)]
<1>1. s.left \in Nat /\ s.parts \in Seq(Parts)
  BY ZenonT(40) DEF Progress
<1>2. CASE s.left = 0
  <2>1. Drawn(b, d, e, s) = s /\ Took(b, e, s) = s
    BY <1>2, ZenonT(40) DEF Drawn, Took
  <2> QED
    BY <1>2, <2>1
<1>3. CASE s.left # 0 /\ (e <= d \/ b[e] <= 0)
  <2>1. Drawn(b, d, e, s) = s
    BY <1>3, ZenonT(40) DEF Drawn
  <2>2. ~(e > d /\ b[e] > 0) /\ ~(e > d /\ s.left <= b[e])
    BY <1>1, <1>3
  <2> QED
    BY <2>1, <2>2, ZenonT(40)
<1>4. CASE s.left # 0 /\ e > d /\ b[e] > 0
  <2>1. use \in Nat \ {0} /\ s.left - use \in Nat
    BY <1>1, <1>4 DEF Lowest
  <2>2. part \in Parts
    BY <2>1, ZenonT(40) DEF Parts
  <2>3. Append(s.parts, part) \in Seq(Parts)
    BY <1>1, <2>2, SeqAppend, ZenonT(40)
  <2>4. next \in Progress /\ next.left = s.left - use
    BY <2>1, <2>3, ZenonT(40) DEF Progress
  <2>5. Drawn(b, d, e, s) = next
    BY <1>4 DEF Drawn
  <2>6. e # NoExpire => Took(b, e, s) = next
    BY <1>4, ZenonT(40) DEF Took
  <2>7. s.left - use > 0 => s.left - use + b[e] = s.left
    BY <1>1, <1>4 DEF Lowest
  <2>8. ASSUME e = NoExpire, s.left <= b[e] PROVE Took(b, e, s) = next
    <3>1. use = s.left
      BY <1>1, <2>8 DEF Lowest
    <3>2. Took(b, e, s) = [left |-> s.left - s.left,
                           parts |-> Append(s.parts, [expire |-> e, amount |-> s.left])]
      BY <1>4, <2>8, ZenonT(40) DEF Took
    <3> QED
      BY <3>1, <3>2, ZenonT(40)
  <2>9. ~(e <= d \/ b[e] <= 0)
    BY <1>4
  <2> HIDE DEF next, use
  <2> QED
    BY <2>4, <2>5, <2>6, <2>7, <2>8, <2>9, ZenonT(40)
<1>5. (e <= d \/ b[e] <= 0) \/ (e > d /\ b[e] > 0)
  OBVIOUS
<1> QED
  BY <1>2, <1>3, <1>4, <1>5, ZenonT(40)

FefoBy(b, d, amount, f) ==
  /\ f \in [SUBSET DOMAIN b -> Progress]
  /\ IsFefo(b, d, amount, f) /\ FefoDebit(b, d, amount) = f[DOMAIN b]

\* every value of that function is Progress, and it is there
LEMMA FefoIs ==
  ASSUME NEW b, BooksOK(b), NEW d \in Nat, NEW amount \in Nat
  PROVE  \E f : FefoBy(b, d, amount, f)
<1> DEFINE D == DOMAIN b
           base == [left |-> amount, parts |-> << >>]
           pick == [s \in SUBSET D |-> Max(s)]
           step == [es \in D \X Progress |-> Drawn(b, d, es[1], es[2])]
<1>1. D \subseteq Nat \ {0} /\ IsFiniteSet(D) /\ \A e \in D : b[e] \in Int
  BY DEF BooksOK
<1>2. \A s \in SUBSET D : s # {} => pick[s] \in s
  <2>1. ASSUME NEW s \in SUBSET D, s # {} PROVE Max(s) \in s
    <3>1. IsFiniteSet(s) /\ s \in SUBSET Nat
      BY <1>1, FS_Subset, ZenonT(40)
    <3> QED
      BY <2>1, <3>1, MaxNat, ZenonT(40)
  <2> QED
    BY <2>1, ZenonT(40)
<1>3. base \in Progress
  <2>1. << >> \in Seq(Parts)
    BY SeqEmpty, ZenonT(40)
  <2> QED
    BY <2>1, ZenonT(40) DEF Progress
<1>4. step \in [D \X Progress -> Progress]
  <2>1. ASSUME NEW e \in D, NEW s \in Progress PROVE Drawn(b, d, e, s) \in Progress
    BY <1>1, FefoStep, ZenonT(40)
  <2> QED
    BY <2>1, ZenonT(40)
<1>5. PICK f \in [SUBSET D -> Progress] : IsFold(f, D, base, step, pick)
  <2> HIDE DEF D, base, pick, step
  <2> QED
    BY <1>1, <1>2, <1>3, <1>4, FoldExists, ZenonT(40)
<1>6. ASSUME NEW s \in SUBSET D, s # {}
      PROVE  step[<<pick[s], f[s \ {pick[s]}]>>] = Drawn(b, d, Max(s), f[s \ {Max(s)}])
  <2>1. Max(s) \in D /\ pick[s] = Max(s)
    BY <1>2, <1>6, ZenonT(40)
  <2>2. f[s \ {Max(s)}] \in Progress
    OBVIOUS
  <2>3. <<Max(s), f[s \ {Max(s)}]>> \in D \X Progress
    BY <2>1, <2>2, ZenonT(40)
  <2>4. \A es \in D \X Progress : step[es] = Drawn(b, d, es[1], es[2])
    BY ZenonT(40)
  <2> HIDE DEF D, pick, step
  <2> QED
    BY <2>1, <2>3, <2>4, ZenonT(40)
<1>7. IsFefo(b, d, amount, f)
  <2>1. \A s \in SUBSET D :
          f[s] = IF s = {} THEN base ELSE Drawn(b, d, Max(s), f[s \ {Max(s)}])
    BY <1>5, <1>6, ZenonT(40) DEF IsFold
  <2> QED
    BY <2>1, ZenonT(40) DEF IsFefo
<1> DEFINE c == CHOOSE h : IsFefo(b, d, amount, h)
<1>8. IsFefo(b, d, amount, c)
  BY <1>7, ZenonT(40)
<1>9. FefoDebit(b, d, amount) = c[D]
  BY FefoDef, ZenonT(40)
<1>10. c = f
  <2> DEFINE P == {s \in SUBSET D : c[s] = f[s]}
  <2>1. ASSUME NEW s \in SUBSET D, \A u \in SUBSET s : u # s => u \in P
        PROVE  s \in P
    <3>1. CASE s = {}
      <4> HIDE DEF c
      <4> QED
        BY <1>7, <1>8, <3>1, ZenonT(40) DEF IsFefo
    <3>2. CASE s # {}
      <4>1. c[s \ {Max(s)}] = f[s \ {Max(s)}]
        BY <1>2, <2>1, <3>2, ZenonT(40)
      <4> HIDE DEF c
      <4> QED
        BY <1>7, <1>8, <3>2, <4>1, ZenonT(40) DEF IsFefo
    <3> QED
      BY <3>1, <3>2, ZenonT(40)
  <2>2. P = SUBSET D
    <3> HIDE DEF P, D
    <3>1. P \in SUBSET (SUBSET D)
      BY ZenonT(40) DEF P
    <3> QED
      BY <1>1, <2>1, <3>1, SubsetInduction, ZenonT(40)
  <2>3. DOMAIN c = SUBSET D /\ c = [s \in SUBSET D |-> c[s]]
    <3> HIDE DEF c
    <3> QED
      BY <1>8, ZenonT(40) DEF IsFefo
  <2> HIDE DEF c, D
  <2> QED
    BY <2>2, <2>3, ZenonT(40)
<1>11. FefoBy(b, d, amount, f)
  BY <1>7, <1>9, <1>10, ZenonT(40) DEF FefoBy
<1> QED
  BY <1>11, ZenonT(40)

\* of dated books that FefoDebit has been to, Spread has been to those that are listed,
\* with the same result; what is left is what they do not have
SameSoFar(b, L, A, x, f, g, s) ==
  /\ f[s] = g[s \cap L]
  /\ f[s].left > 0 => f[s].left + SumOver(b, s \cap A) = x

\* the two debits agree on books that differ only in what has expired, when the books
\* have the amount
LEMMA SpreadIsFefo ==
  ASSUME NEW b, BooksOK(b), NEW c, BooksOK(c), DOMAIN c = DOMAIN b,
         NoExpire \in DOMAIN b, \A e \in DOMAIN b : e <= NoExpire,
         NEW d \in Nat, d < NoExpire, \A e \in DOMAIN b : e > d => c[e] = b[e],
         NEW x \in Nat, x <= SumOver(b, {e \in DOMAIN b : e > d \/ e = NoExpire})
  PROVE  Spread(c, d, x) = FefoDebit(b, d, x)
<1> DEFINE D == DOMAIN b
           T == D \ {NoExpire}
           L == Listed(c, d)
           A == {e \in T : e > d}
<1>0. PICK f : FefoBy(b, d, x, f)
  BY FefoIs, ZenonT(40)
<1>1. f \in [SUBSET D -> Progress] /\ IsFefo(b, d, x, f) /\ FefoDebit(b, d, x) = f[D]
  BY <1>0, ZenonT(40) DEF FefoBy
<1>2. PICK g \in [SUBSET L -> Progress] : IsSpread(c, x, L, g) /\ Spread(c, d, x) = g[L]
  BY SpreadIs, ZenonT(40)
<1>3. /\ D \subseteq Nat \ {0} /\ IsFiniteSet(D) /\ NoExpire \in Nat \ {0}
      /\ \A e \in D : b[e] \in Int
      /\ \A e \in T : b[e] >= 0
  BY ZenonT(40) DEF BooksOK
<1>4. T \in SUBSET D /\ T \subseteq Nat /\ IsFiniteSet(T)
  BY <1>3, FS_Subset, ZenonT(40)
<1>5. /\ L \subseteq D /\ NoExpire \in L /\ A \subseteq T
      /\ \A e \in T : e \in L <=> e > d /\ b[e] > 0
      /\ \A e \in T : e \in A <=> e > d
  BY ZenonT(40) DEF Listed
<1>6. f[{}] = [left |-> x, parts |-> << >>] /\ g[{}] = [left |-> x, parts |-> << >>]
  BY <1>1, <1>2, ZenonT(40) DEF IsFefo, IsSpread
<1>7. \A s \in SUBSET D : s # {} => f[s] = Drawn(b, d, Max(s), f[s \ {Max(s)}])
  BY <1>1, ZenonT(40) DEF IsFefo
<1>8. \A s \in SUBSET L : s # {} => g[s] = Took(c, LastListed(s), g[s \ {LastListed(s)}])
  <2> HIDE DEF L
  <2> QED
    BY <1>2, ZenonT(40) DEF IsSpread
<1> HIDE DEF D, T, L, A
<1> DEFINE P == {s \in SUBSET T : SameSoFar(b, L, A, x, f, g, s)}
<1>9. ASSUME NEW s \in SUBSET T, \A u \in SUBSET s : u # s => u \in P
      PROVE  s \in P
  <2>1. CASE s = {}
    <3>1. f[s] = g[s \cap L] /\ f[s].left = x
      BY <1>6, <2>1
    <3>2. SumOver(b, s \cap A) = 0
      <4>1. s \cap A = {}
        BY <2>1, ZenonT(40)
      <4> QED
        BY <4>1, SumEmpty, ZenonT(40)
    <3> QED
      BY <3>1, <3>2 DEF SameSoFar
  <2>2. CASE s # {}
    <3> DEFINE p == Max(s)
               u == s \ {p}
               r == f[u]
    <3>1. s \subseteq Nat /\ IsFiniteSet(s) /\ s \in SUBSET D
      BY <1>4, FS_Subset, ZenonT(40)
    <3>2. p \in s /\ \A y \in s : y <= p
      BY <2>2, <3>1, MaxNat, ZenonT(40)
    <3>3. SameSoFar(b, L, A, x, f, g, u)
      BY <1>9, <3>2, ZenonT(40)
    <3>4. f[s] = Drawn(b, d, p, r)
      BY <1>7, <2>2, <3>1, ZenonT(40)
    <3>5. /\ p \in T /\ p \in Nat \ {0} /\ p # NoExpire /\ b[p] \in Int /\ b[p] >= 0
          /\ u \in SUBSET D /\ u \in SUBSET T
      BY <1>3, <1>4, <3>2, ZenonT(40) DEF T
    <3>6. r \in Progress /\ r.left \in Nat
      <4>1. r \in Progress
        BY <1>1, <3>5, ZenonT(40)
      <4> HIDE DEF r
      <4> QED
        BY <4>1, ZenonT(40) DEF Progress
    <3>7. u \cup {p} = s /\ p \notin u
      BY <3>2, ZenonT(40)
    <3> HIDE DEF p, u, r
    <3>8. /\ p <= d \/ b[p] <= 0 => Drawn(b, d, p, r) = r
          /\ p > d /\ b[p] > 0 =>
               /\ Drawn(b, d, p, r) = Took(b, p, r)
               /\ Took(b, p, r).left > 0 => Took(b, p, r).left + b[p] = r.left
      BY <3>5, <3>6, FefoStep
    <3>9. r = g[u \cap L] /\ (r.left > 0 => r.left + SumOver(b, u \cap A) = x)
      BY <3>3, ZenonT(40) DEF SameSoFar, r
    <3>10. CASE p <= d
      <4>1. s \cap L = u \cap L /\ s \cap A = u \cap A
        <5>1. p \notin L /\ p \notin A
          BY <1>5, <3>5, <3>10
        <5> QED
          BY <3>7, <5>1, ZenonT(40)
      <4>2. f[s] = r
        BY <3>4, <3>8, <3>10, ZenonT(40)
      <4> QED
        BY <3>9, <4>1, <4>2, ZenonT(40) DEF SameSoFar
    <3>11. ASSUME p > d
           PROVE  SumOver(b, s \cap A) = SumOver(b, u \cap A) + b[p] /\ SumOver(b, u \cap A) \in Int
      <4> DEFINE V == u \cap A
      <4>1. s \cap A = V \cup {p} /\ p \notin V
        BY <1>5, <3>5, <3>7, <3>11, ZenonT(40)
      <4>2. V \subseteq T /\ IsFiniteSet(V)
        BY <1>4, <3>5, FS_Subset, ZenonT(40)
      <4>3. \A y \in V \cup {p} : b[y] \in Int
        BY <1>3, <1>4, <3>5, <4>2, ZenonT(40)
      <4> HIDE DEF V
      <4>4. SumOver(b, V \cup {p}) = SumOver(b, V) + b[p]
        BY <4>1, <4>2, <4>3, SumAdd, ZenonT(40)
      <4>5. SumOver(b, V) \in Int
        BY <4>2, <4>3, SumType, ZenonT(40)
      <4> QED
        BY <4>1, <4>4, <4>5, ZenonT(40) DEF V
    <3>12. CASE p > d /\ b[p] = 0
      <4>1. s \cap L = u \cap L
        <5>1. p \notin L
          BY <1>5, <3>5, <3>12
        <5> QED
          BY <3>7, <5>1, ZenonT(40)
      <4>2. f[s] = r
        BY <3>4, <3>8, <3>12
      <4>3. SumOver(b, s \cap A) = SumOver(b, u \cap A)
        BY <3>11, <3>12
      <4> QED
        BY <3>9, <4>1, <4>2, <4>3, ZenonT(40) DEF SameSoFar
    <3>13. CASE p > d /\ b[p] > 0
      <4> DEFINE w == s \cap L
      <4>1. p \in L /\ c[p] = b[p]
        BY <1>5, <3>5, <3>13, ZenonT(40) DEF T, D
      <4>2. p \in w /\ w \in SUBSET L /\ w \subseteq s /\ w \ {p} = u \cap L /\ NoExpire \notin w
        BY <3>2, <3>5, <3>7, <4>1, ZenonT(40) DEF T
      <4>3. LastListed(w) = p
        <5>1. w \in SUBSET Nat /\ IsFiniteSet(w) /\ w # {}
          BY <3>1, <4>2, FS_Subset, ZenonT(40)
        <5> HIDE DEF w
        <5>2. Max(w) \in w /\ \A y \in w : y <= Max(w)
          BY <5>1, MaxNat, ZenonT(40)
        <5>3. Max(w) <= p /\ p <= Max(w) /\ Max(w) \in Nat /\ p \in Nat
          BY <3>2, <3>5, <4>2, <5>1, <5>2, ZenonT(40)
        <5>4. Max(w) = p
          BY <5>3
        <5> QED
          BY <4>2, <5>4, ZenonT(40) DEF LastListed
      <4>4. g[w] = Took(c, p, g[u \cap L])
        <5> HIDE DEF w
        <5> QED
          BY <1>8, <4>2, <4>3, ZenonT(40)
      <4>5. Took(c, p, r) = Took(b, p, r)
        BY <4>1, ZenonT(40) DEF Took
      <4>6. f[s] = Took(b, p, r)
        BY <3>4, <3>8, <3>13, ZenonT(40)
      <4>7. f[s] = g[s \cap L]
        BY <3>9, <4>4, <4>5, <4>6, ZenonT(40)
      <4>8. f[s].left > 0 => f[s].left + SumOver(b, s \cap A) = x
        <5> SUFFICES ASSUME f[s].left > 0 PROVE f[s].left + SumOver(b, s \cap A) = x
          BY ZenonT(40)
        <5>1. f[s] \in Progress
          BY <1>1, <3>1, ZenonT(40)
        <5>2. f[s].left \in Nat
          BY <5>1, ZenonT(40) DEF Progress
        <5>3. f[s].left + b[p] = r.left
          BY <3>8, <3>13, <4>6, ZenonT(40)
        <5>4. r.left > 0
          BY <3>5, <3>6, <5>2, <5>3
        <5> QED
          BY <3>5, <3>9, <3>11, <3>13, <5>2, <5>3, <5>4
      <4> QED
        BY <4>7, <4>8, ZenonT(40) DEF SameSoFar
    <3>14. SameSoFar(b, L, A, x, f, g, s)
      <4>1. p <= d \/ (p > d /\ b[p] = 0) \/ (p > d /\ b[p] > 0)
        BY <3>5
      <4> QED
        BY <3>10, <3>12, <3>13, <4>1, ZenonT(40)
    <3> QED
      BY <3>14, ZenonT(40)
  <2> QED
    BY <2>1, <2>2, ZenonT(40)
<1>10. P = SUBSET T
  <2> HIDE DEF P
  <2>1. P \in SUBSET (SUBSET T)
    BY ZenonT(40) DEF P
  <2>2. \A s \in SUBSET T : (\A u \in SUBSET s : u # s => u \in P) => s \in P
    BY <1>9, ZenonT(40)
  <2> QED
    BY <1>4, <2>1, <2>2, SubsetInduction, ZenonT(40)
<1> DEFINE r == f[T]
<1>11. r = g[L \ {NoExpire}] /\ (r.left > 0 => r.left + SumOver(b, A) = x)
  <2>1. SameSoFar(b, L, A, x, f, g, T)
    BY <1>10, ZenonT(40)
  <2>2. T \cap L = L \ {NoExpire} /\ T \cap A = A
    BY <1>5, ZenonT(40) DEF T
  <2> QED
    BY <2>1, <2>2, ZenonT(40) DEF SameSoFar
<1>12. r \in Progress /\ r.left \in Nat
  <2>1. r \in Progress
    BY <1>1, <1>4, ZenonT(40)
  <2> HIDE DEF r
  <2> QED
    BY <2>1, ZenonT(40) DEF Progress
<1>13. f[D] = Drawn(b, d, NoExpire, r)
  <2>1. D \in SUBSET Nat /\ D # {} /\ NoExpire \in D
    BY <1>3, ZenonT(40) DEF D
  <2>2. Max(D) \in D /\ \A y \in D : y <= Max(D)
    BY <1>3, <2>1, MaxNat, ZenonT(40)
  <2>3. Max(D) <= NoExpire /\ NoExpire <= Max(D) /\ Max(D) \in Nat
    BY <2>1, <2>2, ZenonT(40) DEF D
  <2>4. Max(D) = NoExpire
    BY <1>3, <2>3
  <2> QED
    BY <1>7, <2>1, <2>4, ZenonT(40) DEF T
<1>14. g[L] = Took(c, NoExpire, r)
  <2>1. LastListed(L) = NoExpire
    BY <1>5, ZenonT(40) DEF LastListed
  <2> QED
    BY <1>5, <1>8, <1>11, <2>1, ZenonT(40)
<1>15. Took(c, NoExpire, r) = Took(b, NoExpire, r)
  BY ZenonT(40) DEF Took
<1>16. r.left > 0 => r.left <= b[NoExpire]
  <2>1. {e \in DOMAIN b : e > d \/ e = NoExpire} = A \cup {NoExpire} /\ NoExpire \notin A
    BY ZenonT(40) DEF A, T, D
  <2>2. IsFiniteSet(A) /\ \A y \in A \cup {NoExpire} : b[y] \in Int
    BY <1>3, <1>4, <1>5, FS_Subset, ZenonT(40) DEF D
  <2>3. SumOver(b, A \cup {NoExpire}) = SumOver(b, A) + b[NoExpire]
    BY <2>1, <2>2, SumAdd, ZenonT(40)
  <2>4. SumOver(b, A) \in Int /\ b[NoExpire] \in Int
    BY <2>2, SumType, ZenonT(40)
  <2>5. x <= SumOver(b, A) + b[NoExpire]
    BY <2>1, <2>3, ZenonT(40)
  <2> HIDE DEF r
  <2> QED
    BY <1>11, <1>12, <2>4, <2>5
<1>17. Drawn(b, d, NoExpire, r) = Took(b, NoExpire, r)
  <2>1. CASE r.left = 0
    BY <2>1, ZenonT(40) DEF Drawn, Took
  <2>2. CASE r.left # 0
    <3>1. r.left <= b[NoExpire] /\ NoExpire > d /\ b[NoExpire] \in Int
      BY <1>3, <1>12, <1>16, <2>2 DEF D
    <3> HIDE DEF r
    <3> QED
      BY <1>3, <1>12, <3>1, FefoStep
  <2> QED
    BY <2>1, <2>2, ZenonT(40)
<1> QED
  BY <1>1, <1>2, <1>13, <1>14, <1>15, <1>17, ZenonT(40)

-----------------------------------------------------------------------------
(* Changes of the books *)

\* a later window is of the same day or a later one, and no day of the behaviour is
\* noExpireBookDate
LEMMA Days ==
  ASSUME NEW c \in 0..MaxClock
  PROVE  /\ Day(c) \in Nat \ {0} /\ Day(c) < NoExpire
         /\ c + 1 <= MaxClock => Day(c) <= Day(c + 1)
<1>1. c \div WindowsPerDay \in Nat /\ MaxClock \div WindowsPerDay \in Nat
  BY DateAssumption
<1>2. c \div WindowsPerDay <= MaxClock \div WindowsPerDay
  BY DateAssumption
<1>3. c \div WindowsPerDay <= (c + 1) \div WindowsPerDay /\ (c + 1) \div WindowsPerDay \in Nat
  BY DateAssumption
<1> HIDE DEF Day
<1> QED
  BY <1>1, <1>2, <1>3, DateAssumption DEF Day

\* the books b without the parts
LEMMA LessSum ==
  ASSUME NEW b, BooksOK(b), NEW parts \in Seq(Parts),
         \A i \in DOMAIN parts : parts[i].expire \in DOMAIN b
  PROVE  /\ DOMAIN BooksLess(b, parts) = DOMAIN b
         /\ SumOver(BooksLess(b, parts), DOMAIN b) = SumOver(b, DOMAIN b) - Total(parts)
<1> DEFINE D == DOMAIN b
           h == BooksLess(b, parts)
           g == [e \in D |-> TotalAt(parts, e)]
<1>1. IsFiniteSet(D) /\ \A e \in D : b[e] \in Int
  BY DEF BooksOK
<1>2. \A e \in D : g[e] \in Int /\ h[e] = b[e] - g[e]
  BY TotalType DEF BooksLess
<1>3. SumOver(g, D) = Total(parts)
  BY <1>1, TotalByDate, ZenonT(40)
<1>4. SumOver(h, D) = SumOver(b, D) - SumOver(g, D)
  <2> HIDE DEF h, g, D
  <2> QED
    BY <1>1, <1>2, SumMinus
<1>5. DOMAIN h = D
  BY DEF BooksLess
<1> QED
  BY <1>3, <1>4, <1>5

\* the books b and the parts
LEMMA PlusSum ==
  ASSUME NEW b, BooksOK(b), NEW parts \in Seq(Parts)
  PROVE  LET D == DOMAIN BooksPlus(b, parts)
         IN /\ D = DOMAIN b \cup {parts[i].expire : i \in DOMAIN parts}
            /\ SumOver(BooksPlus(b, parts), D) = SumOver(b, DOMAIN b) + Total(parts)
<1> DEFINE N == {parts[i].expire : i \in DOMAIN parts}
           D == DOMAIN b \cup N
           h == BooksPlus(b, parts)
           old == [e \in D |-> IF e \in DOMAIN b THEN b[e] ELSE 0]
           g == [e \in D |-> TotalAt(parts, e)]
<1>1. IsFiniteSet(DOMAIN b) /\ \A e \in DOMAIN b : b[e] \in Int
  BY DEF BooksOK
<1>2. IsFiniteSet(D)
  <2>1. IsFiniteSet(N)
    BY DatesOfParts, ZenonT(40)
  <2> QED
    BY <1>1, <2>1, FS_Union, ZenonT(40)
<1>3. \A e \in D : old[e] \in Int /\ g[e] \in Int /\ h[e] = old[e] + g[e]
  BY <1>1, TotalType DEF BooksPlus
<1>4. SumOver(g, D) = Total(parts)
  BY <1>2, TotalByDate, ZenonT(40)
<1>5. SumOver(old, D) = SumOver(b, DOMAIN b)
  <2>1. DOMAIN b \in SUBSET D
    OBVIOUS
  <2>2. /\ \A e \in DOMAIN b : b[e] \in Int /\ old[e] = b[e]
        /\ \A e \in D \ DOMAIN b : old[e] = 0
    BY <1>1
  <2> HIDE DEF old, D
  <2> QED
    BY <1>2, <2>1, <2>2, SumWithin
<1>6. SumOver(h, D) = SumOver(old, D) + SumOver(g, D)
  <2> HIDE DEF h, g, old, D
  <2> QED
    BY <1>2, <1>3, SumPlus
<1>7. DOMAIN h = D
  BY DEF BooksPlus
<1> QED
  BY <1>4, <1>5, <1>6, <1>7, ZenonT(40)

\* the parts of a debit leave no dated book below zero
LEMMA LessOK ==
  ASSUME NEW b, BooksOK(b), NEW d \in Nat, NEW amount \in Nat
  PROVE  BooksOK(BooksLess(b, Spread(b, d, amount).parts))
<1> DEFINE r == Spread(b, d, amount)
           h == BooksLess(b, r.parts)
<1>1. r \in Progress /\ SpreadOK(b, amount, Listed(b, d), r)
  BY SpreadSpreads
<1> HIDE DEF r
<1>2. r.parts \in Seq(Parts)
  BY <1>1 DEF Progress
<1>3. DOMAIN h = DOMAIN b /\ h = [e \in DOMAIN h |-> h[e]]
  BY DEF BooksLess
<1>4. ASSUME NEW e \in DOMAIN b PROVE h[e] \in Int /\ (e # NoExpire => h[e] >= 0)
  <2>1. b[e] \in Int /\ (e # NoExpire => b[e] >= 0)
    BY DEF BooksOK
  <2>2. h[e] = b[e] - TotalAt(r.parts, e)
    BY DEF BooksLess
  <2>3. TotalAt(r.parts, e) \in Nat
    BY <1>2, TotalType, ZenonT(40)
  <2>4. CASE \E j \in DOMAIN r.parts : r.parts[j].expire = e
    <3>1. PICK j \in DOMAIN r.parts : r.parts[j].expire = e
      BY <2>4, ZenonT(40)
    <3>2. \A i \in DOMAIN r.parts : i # j => r.parts[i].expire # r.parts[j].expire
      BY <1>1, <3>1, PartsDiffer
    <3>3. TotalAt(r.parts, e) = r.parts[j].amount
      BY <1>2, <3>1, <3>2, TotalAtOne, ZenonT(40)
    <3>4. e # NoExpire => r.parts[j].amount <= b[e]
      BY <1>1, <3>1 DEF SpreadOK
    <3>5. r.parts[j].amount \in Nat
      BY <1>2, <3>1, AmountsOfParts
    <3> HIDE DEF h
    <3> QED
      BY <2>1, <2>2, <3>3, <3>4, <3>5
  <2>5. CASE \A j \in DOMAIN r.parts : r.parts[j].expire # e
    <3>1. TotalAt(r.parts, e) = 0
      BY <2>5, TotalAtNone
    <3> HIDE DEF h
    <3> QED
      BY <2>1, <2>2, <3>1
  <2> QED
    BY <2>4, <2>5
<1>5. BooksOK(h)
  <2> HIDE DEF h
  <2> QED
    BY <1>3, <1>4 DEF BooksOK
<1> QED
  BY <1>5 DEF r

\* credits leave the books in order
LEMMA PlusOK ==
  ASSUME NEW b, BooksOK(b), NEW parts \in Seq(Parts)
  PROVE  BooksOK(BooksPlus(b, parts))
<1> DEFINE N == {parts[i].expire : i \in DOMAIN parts}
           D == DOMAIN b \cup N
           h == BooksPlus(b, parts)
<1>1. DOMAIN h = D /\ h = [e \in DOMAIN h |-> h[e]]
  BY DEF BooksPlus
<1>2. IsFiniteSet(D) /\ D \subseteq Nat \ {0}
  <2>1. IsFiniteSet(N) /\ N \subseteq Nat \ {0}
    BY DatesOfParts, ZenonT(40)
  <2> QED
    BY <2>1, FS_Union, ZenonT(40) DEF BooksOK
<1>3. ASSUME NEW e \in D PROVE h[e] \in Int /\ (e # NoExpire => h[e] >= 0)
  <2>1. e \in DOMAIN b => b[e] \in Int /\ (e # NoExpire => b[e] >= 0)
    BY DEF BooksOK
  <2>2. h[e] = (IF e \in DOMAIN b THEN b[e] ELSE 0) + TotalAt(parts, e)
    BY DEF BooksPlus
  <2>3. TotalAt(parts, e) \in Nat
    BY TotalType
  <2> HIDE DEF h, D
  <2> QED
    BY <2>1, <2>2, <2>3
<1> HIDE DEF h, D
<1>4. BooksOK(h)
  BY <1>1, <1>2, <1>3, ZenonT(40) DEF BooksOK
<1> QED
  BY <1>4, ZenonT(40) DEF h

\* the sweep takes from the books what it writes off, and it takes all that has expired
LEMMA SweepTakes ==
  ASSUME NEW a \in Accounts, BooksOK(book[a])
  PROVE  /\ SweptAmount(a) \in Nat
         /\ BooksOK(BooksAfterSweep(a)) /\ DOMAIN BooksAfterSweep(a) = DOMAIN book[a]
         /\ SumOver(BooksAfterSweep(a), DOMAIN book[a])
              = SumOver(book[a], DOMAIN book[a]) - SweptAmount(a)
<1> DEFINE b == book[a]
           D == DOMAIN b
           S == SweptBooks(a)
           h == BooksAfterSweep(a)
           g == [e \in D |-> IF e \in S THEN b[e] ELSE 0]
<1>0. IsFiniteSet(D) /\ \A e \in D : b[e] \in Int
  BY DEF BooksOK
<1>1. D \subseteq Nat \ {0} /\ \A e \in D : e # NoExpire => b[e] >= 0
  BY DEF BooksOK
<1>2. S \in SUBSET D /\ \A e \in S : b[e] > 0
  BY DEF SweptBooks, Expired
<1>3. DOMAIN h = D /\ h = [e \in D |-> h[e]] /\ \A e \in D : h[e] = IF e \in S THEN 0 ELSE b[e]
  BY DEF BooksAfterSweep
<1>4. \A e \in D : g[e] \in Int /\ h[e] = b[e] - g[e]
  <2>1. \A e \in D : g[e] = IF e \in S THEN b[e] ELSE 0
    OBVIOUS
  <2> HIDE DEF b, D, S, h, g
  <2> QED
    BY <1>0, <1>3, <2>1
<1>5. SumOver(g, D) = SumOver(b, S)
  <2>1. \A e \in S : b[e] \in Int /\ g[e] = b[e]
    BY <1>0, <1>2
  <2>2. \A e \in D \ S : g[e] = 0
    OBVIOUS
  <2> HIDE DEF b, D, S, g
  <2> QED
    BY <1>0, <1>2, <2>1, <2>2, SumWithin
<1> HIDE DEF b, D, S, h, g
<1>6. SumOver(h, D) = SumOver(b, D) - SumOver(g, D)
  BY <1>0, <1>4, SumMinus
<1>7. IsFiniteSet(S) /\ \A e \in S : b[e] \in Nat
  BY <1>0, <1>2, FS_Subset
<1>8. SumOver(b, S) \in Nat
  BY <1>7, SumNat, ZenonT(40)
<1>9. \A e \in D : h[e] \in Int /\ (e # NoExpire => h[e] >= 0)
  BY <1>0, <1>1, <1>3
<1>10. BooksOK(h)
  BY <1>0, <1>1, <1>3, <1>9, ZenonT(40) DEF BooksOK
<1> QED
  BY <1>3, <1>5, <1>6, <1>8, <1>10, ZenonT(40) DEF b, D, S, h, SweptAmount

\* the parts of the debit of txn t, when the books are listed in window c
DebitParts(t, c) ==
  IF DebitAccount(t) \in BookEnabled
  THEN Spread(BooksAfterSweep(DebitAccount(t)), Day(c), Amount(t)).parts ELSE << >>

\* what the debit stage makes of the books of an account
LEMMA DebitBooks ==
  ASSUME NEW t \in Txns, NEW c \in 0..MaxClock, BooksOK(book[DebitAccount(t)]),
         DebitAccount(t) \in Accounts,
         DebitAccount(t) \notin BookEnabled => DOMAIN book[DebitAccount(t)] = {}
  PROVE  LET a == DebitAccount(t)
             parts == DebitParts(t, c)
             b == BooksLess(BooksAfterSweep(a), parts)
         IN /\ parts \in Seq(Parts)
            /\ \A i \in DOMAIN parts : parts[i].expire > Day(c)
            /\ BooksOK(b) /\ DOMAIN b = DOMAIN book[a]
            /\ (a \in BookEnabled /\ ~DebitRefused(t, c)) =>
                 /\ Total(parts) = Amount(t)
                 /\ SumOver(b, DOMAIN b)
                      = SumOver(book[a], DOMAIN book[a]) - SweptAmount(a) - Amount(t)
<1> DEFINE a == DebitAccount(t)
           parts == DebitParts(t, c)
           swept == BooksAfterSweep(a)
           b == BooksLess(swept, parts)
<1>1. /\ SweptAmount(a) \in Nat
      /\ BooksOK(swept) /\ DOMAIN swept = DOMAIN book[a]
      /\ SumOver(swept, DOMAIN book[a]) = SumOver(book[a], DOMAIN book[a]) - SweptAmount(a)
  BY SweepTakes
<1>2. Amount(t) \in Nat \ {0}
  BY BookReqAssumption, ZenonT(40) DEF Amount, Requests
<1>3. CASE a \in BookEnabled
  <2> DEFINE r == Spread(swept, Day(c), Amount(t))
             L == Listed(swept, Day(c))
  <2>1. parts = r.parts
    BY <1>3 DEF DebitParts
  <2>2. Day(c) \in Nat /\ Day(c) < NoExpire
    BY Days, ZenonT(40)
  <2>3. r \in Progress /\ SpreadOK(swept, Amount(t), L, r)
    BY <1>1, <1>2, <2>2, SpreadSpreads, ZenonT(40)
  <2>4. r.parts \in Seq(Parts) /\ r.left \in Nat
    BY <2>3 DEF Progress
  <2>5. \A i \in DOMAIN r.parts : r.parts[i].expire \in L
    BY <2>3, ZenonT(40) DEF SpreadOK
  <2>6. L \subseteq DOMAIN swept /\ \A e \in L : e > Day(c)
    BY <2>2 DEF Listed
  <2>7. BooksOK(b)
    BY <1>1, <1>2, <2>1, <2>2, LessOK, ZenonT(40)
  <2>8. /\ DOMAIN b = DOMAIN swept
        /\ SumOver(b, DOMAIN swept) = SumOver(swept, DOMAIN swept) - Total(parts)
    <3>1. parts \in Seq(Parts) /\ \A i \in DOMAIN parts : parts[i].expire \in DOMAIN swept
      BY <2>1, <2>4, <2>5, <2>6, ZenonT(40)
    <3> HIDE DEF parts, swept
    <3> QED
      BY <1>1, <3>1, LessSum, ZenonT(40)
  <2>9. ASSUME ~DebitRefused(t, c) PROVE Total(parts) = Amount(t)
    <3>1. ~(r.left > 0)
      BY <1>3, <2>9 DEF DebitRefused
    <3>2. Total(r.parts) = Amount(t) - r.left
      BY <2>3, ZenonT(40) DEF SpreadOK
    <3> QED
      BY <1>2, <2>1, <2>4, <3>1, <3>2
  <2> HIDE DEF parts, swept, b, r, L
  <2>10. \A i \in DOMAIN parts : parts[i].expire > Day(c)
    BY <2>1, <2>5, <2>6, ZenonT(40)
  <2>11. SumOver(book[a], DOMAIN book[a]) \in Int
    <3>1. IsFiniteSet(DOMAIN book[a]) /\ \A e \in DOMAIN book[a] : book[a][e] \in Int
      BY DEF BooksOK
    <3> QED
      BY <3>1, SumType, ZenonT(40)
  <2>12. ASSUME ~DebitRefused(t, c)
         PROVE  SumOver(b, DOMAIN b)
                  = SumOver(book[a], DOMAIN book[a]) - SweptAmount(a) - Amount(t)
    BY <1>1, <2>8, <2>9, <2>12, ZenonT(40)
  <2> QED
    BY <1>1, <2>1, <2>4, <2>7, <2>8, <2>9, <2>10, <2>12, ZenonT(40) DEF b, parts, swept
<1>4. CASE a \notin BookEnabled
  <2>1. parts = << >>
    BY <1>4 DEF DebitParts
  <2>2. parts \in Seq(Parts) /\ DOMAIN parts = {}
    BY <2>1, SeqEmpty
  <2>3. DOMAIN b = {} /\ DOMAIN book[a] = {}
    BY <1>1, <1>4, ZenonT(40) DEF BooksLess
  <2>4. b = [e \in DOMAIN b |-> b[e]]
    BY DEF BooksLess
  <2> HIDE DEF b
  <2>5. BooksOK(b)
    BY <2>3, <2>4, FS_EmptySet, ZenonT(40) DEF BooksOK
  <2> QED
    BY <1>4, <2>2, <2>3, <2>5, ZenonT(40) DEF b
<1> QED
  BY <1>3, <1>4

-----------------------------------------------------------------------------
(* The invariant *)

Statuses == {"NONE", "INIT", "PAY_SUCCESS", "RECV_SUCCESS", "FAILED"}
Rows == [expire : Nat \ {0}, amount : Nat \ {0}, day : Nat]

\* the values of the variables, and the state of the books, that every step relies on:
\* only the book that never expires is below zero, and no money is taken from a book
\* that has expired
BooksInv ==
  /\ clock \in 0..MaxClock
  /\ status \in [Txns -> Statuses]
  /\ refundable \in [Txns -> Nat]
  /\ expireAt \in [Txns -> Nat]
  /\ balance \in [Accounts -> Int]
  /\ book = [a \in Accounts |-> book[a]]
  /\ \A a \in Accounts :
       /\ BooksOK(book[a])
       /\ a \in BookEnabled <=> NoExpire \in DOMAIN book[a]
       /\ a \notin BookEnabled => DOMAIN book[a] = {}
  /\ taken \in [Txns -> Seq(Rows)]
  /\ \A t \in Txns : \A i \in DOMAIN taken[t] : taken[t][i].expire > taken[t][i].day
  /\ given \in [Txns -> Seq(Parts)]
  /\ writeoff \in Nat

\* what a request asks for
LEMMA RequestOf ==
  ASSUME NEW t \in Txns
  PROVE  /\ Amount(t) \in Nat \ {0} /\ Req[t].days \in Nat /\ Origin(t) \in Txns
         /\ DebitAccount(t) \in Accounts /\ CreditAccount(t) \in Accounts
BY BookReqAssumption, ZenonT(40) DEF Amount, Origin, DebitAccount, CreditAccount, Requests

\* the invariant holds at first
LEMMA BooksInit == Init => BooksInv
<1> SUFFICES ASSUME Init PROVE BooksInv
  OBVIOUS
<1>1. 0 \in 0..MaxClock /\ NoExpire \in Nat \ {0}
  <2>1. 0 \in 0..MaxClock
    BY DateAssumption
  <2>2. Day(0) \in Nat /\ Day(0) < NoExpire
    BY <2>1, Days, ZenonT(40)
  <2> QED
    BY <2>1, <2>2, DateAssumption
<1>2. /\ clock \in 0..MaxClock /\ status \in [Txns -> Statuses] /\ refundable \in [Txns -> Nat]
      /\ expireAt \in [Txns -> Nat] /\ balance \in [Accounts -> Int]
      /\ book = [a \in Accounts |-> book[a]] /\ writeoff \in Nat
  BY <1>1 DEF Init, Statuses
<1>3. /\ taken \in [Txns -> Seq(Rows)] /\ given \in [Txns -> Seq(Parts)]
      /\ \A t \in Txns : DOMAIN taken[t] = {}
  <2>1. << >> \in Seq(Rows) /\ << >> \in Seq(Parts)
    BY SeqEmpty, ZenonT(40)
  <2> QED
    BY <2>1 DEF Init
<1>4. ASSUME NEW a \in Accounts
      PROVE  /\ BooksOK(book[a])
             /\ a \in BookEnabled <=> NoExpire \in DOMAIN book[a]
             /\ a \notin BookEnabled => DOMAIN book[a] = {}
  <2> DEFINE D == IF a \in BookEnabled THEN {NoExpire} ELSE {}
  <2>1. book[a] = [e \in D |-> 0]
    BY DEF Init
  <2>2. IsFiniteSet(D) /\ D \subseteq Nat \ {0}
    BY <1>1, FS_EmptySet, FS_Singleton, ZenonT(40)
  <2>3. NoExpire \in D <=> a \in BookEnabled
    OBVIOUS
  <2>4. a \notin BookEnabled => D = {}
    BY ZenonT(40)
  <2> HIDE DEF D
  <2>5. DOMAIN book[a] = D /\ \A e \in D : book[a][e] = 0
    BY <2>1
  <2>6. book[a] = [e \in DOMAIN book[a] |-> book[a][e]]
    BY <2>1
  <2>7. IsFiniteSet(DOMAIN book[a]) /\ DOMAIN book[a] \subseteq Nat \ {0}
    BY <2>2, <2>5
  <2>8. \A e \in DOMAIN book[a] : book[a][e] \in Int /\ (e # NoExpire => book[a][e] >= 0)
    BY <2>5
  <2>9. BooksOK(book[a])
    BY <2>6, <2>7, <2>8 DEF BooksOK
  <2> QED
    BY <2>3, <2>4, <2>5, <2>9, ZenonT(40)
<1> QED
  BY <1>2, <1>3, <1>4, ZenonT(40) DEF BooksInv

\* what the debit stage changes
LEMMA DebitDoes ==
  ASSUME NEW t \in Txns, DebitStage(t)
  PROVE  LET a == DebitAccount(t)
         IN \E c \in LaterRead :
              LET parts == DebitParts(t, c)
              IN /\ ~DebitRefused(t, c) /\ clock' = c
                 /\ balance' = [balance EXCEPT ![a] = balance[a] - SweptAmount(a) - Amount(t)]
                 /\ book' = [book EXCEPT ![a] = BooksLess(BooksAfterSweep(a), parts)]
                 /\ taken' = [taken EXCEPT ![t] =
                      [i \in DOMAIN parts |->
                         [expire |-> parts[i].expire, amount |-> parts[i].amount,
                          day |-> Today]]]
BY ZenonT(40) DEF DebitStage, Debit, DebitParts

\* the clock when the list of books is read
LEMMA ClockLater ==
  ASSUME clock \in 0..MaxClock, NEW c \in LaterRead
  PROVE  /\ c \in 0..MaxClock /\ Day(c) \in Nat /\ Today \in Nat
         /\ Today <= Day(c) /\ Day(c) < NoExpire
<1>1. c \in {clock, clock + 1} /\ c <= MaxClock
  BY DEF LaterRead
<1>2. c \in 0..MaxClock
  BY <1>1, DateAssumption
<1>3. Day(clock) <= Day(c)
  BY <1>1, <1>2, Days
<1> QED
  BY <1>2, <1>3, Days, ZenonT(40) DEF Today

\* the rows that the debit stage writes
LEMMA DebitRows ==
  ASSUME NEW parts \in Seq(Parts), NEW d \in Nat,
         \A i \in DOMAIN parts : parts[i].expire > d
  PROVE  LET rows == [i \in DOMAIN parts |->
                        [expire |-> parts[i].expire, amount |-> parts[i].amount, day |-> d]]
         IN /\ rows \in Seq(Rows) /\ DOMAIN rows = DOMAIN parts
            /\ \A i \in DOMAIN rows : rows[i].expire > rows[i].day
<1> DEFINE Row(i) == [expire |-> parts[i].expire, amount |-> parts[i].amount, day |-> d]
           rows == [i \in DOMAIN parts |-> Row(i)]
<1>1. DOMAIN parts = 1..Len(parts) /\ Len(parts) \in Nat
  BY AmountsOfParts
<1>2. \A i \in 1..Len(parts) : Row(i) \in Rows
  BY <1>1, AmountsOfParts DEF Rows
<1>3. rows \in Seq(Rows)
  <2> HIDE DEF Row
  <2>1. rows = [i \in 1..Len(parts) |-> Row(i)]
    BY <1>1
  <2> QED
    BY <1>1, <1>2, <2>1
<1> QED
  BY <1>3, ZenonT(40)

\* a debit keeps the invariant
LEMMA DebitKeepsBooks ==
  ASSUME BooksInv, NEW t \in Txns, DebitStage(t)
  PROVE  BooksInv'
<1> DEFINE a == DebitAccount(t)
<1>1. a \in Accounts /\ Amount(t) \in Nat \ {0} /\ Origin(t) \in Txns
  BY RequestOf, ZenonT(40)
<1>2. PICK c \in LaterRead :
        /\ ~DebitRefused(t, c) /\ clock' = c
        /\ balance' = [balance EXCEPT ![a] = balance[a] - SweptAmount(a) - Amount(t)]
        /\ book' = [book EXCEPT ![a] = BooksLess(BooksAfterSweep(a), DebitParts(t, c))]
        /\ taken' = [taken EXCEPT ![t] =
             [i \in DOMAIN DebitParts(t, c) |->
                [expire |-> DebitParts(t, c)[i].expire, amount |-> DebitParts(t, c)[i].amount,
                 day |-> Today]]]
  BY DebitDoes, ZenonT(40)
<1> DEFINE parts == DebitParts(t, c)
           b == BooksLess(BooksAfterSweep(a), parts)
<1>3. /\ c \in 0..MaxClock /\ Day(c) \in Nat /\ Today \in Nat /\ Today <= Day(c)
  BY ClockLater DEF BooksInv
<1>4. BooksOK(book[a]) /\ (a \notin BookEnabled => DOMAIN book[a] = {})
  BY <1>1, ZenonT(40) DEF BooksInv
<1>5. /\ parts \in Seq(Parts)
      /\ \A i \in DOMAIN parts : parts[i].expire > Day(c)
      /\ BooksOK(b) /\ DOMAIN b = DOMAIN book[a]
  BY <1>1, <1>3, <1>4, DebitBooks, ZenonT(40)
<1>6. SweptAmount(a) \in Nat
  BY <1>1, <1>4, SweepTakes, ZenonT(40)
<1> HIDE DEF parts, b
<1>7. taken' \in [Txns -> Seq(Rows)]
      /\ \A u \in Txns : \A i \in DOMAIN taken'[u] : taken'[u][i].expire > taken'[u][i].day
  <2> DEFINE rows == [i \in DOMAIN parts |->
                        [expire |-> parts[i].expire, amount |-> parts[i].amount, day |-> Today]]
  <2>1. \A i \in DOMAIN parts : parts[i].expire > Today
    <3>1. \A i \in DOMAIN parts : parts[i].expire \in Nat
      BY <1>5, AmountsOfParts
    <3> QED
      BY <1>3, <1>5, <3>1
  <2>2. rows \in Seq(Rows) /\ \A i \in DOMAIN rows : rows[i].expire > rows[i].day
    BY <1>3, <1>5, <2>1, DebitRows, ZenonT(40)
  <2>3. taken' = [taken EXCEPT ![t] = rows]
    BY <1>2 DEF parts
  <2> HIDE DEF rows
  <2> QED
    BY <2>2, <2>3, ZenonT(40) DEF BooksInv
<1>8. book' = [book EXCEPT ![a] = b]
  BY <1>2, ZenonT(40) DEF parts, b
<1>9. book' = [x \in Accounts |-> book'[x]] /\ book'[a] = b
      /\ \A x \in Accounts \ {a} : book'[x] = book[x]
  BY <1>1, <1>8, ZenonT(40) DEF BooksInv
<1>10. \A x \in Accounts :
         /\ BooksOK(book'[x])
         /\ x \in BookEnabled <=> NoExpire \in DOMAIN book'[x]
         /\ x \notin BookEnabled => DOMAIN book'[x] = {}
  BY <1>1, <1>4, <1>5, <1>9, ZenonT(40) DEF BooksInv
<1>11. refundable' \in [Txns -> Nat]
  <2>1. CASE IsRefund(t)
    <3>1. refundable[Origin(t)] >= Amount(t)
      BY <1>2, <2>1, ZenonT(40) DEF DebitRefused, OriginRefundable
    <3>2. refundable' = [refundable EXCEPT ![Origin(t)] = refundable[Origin(t)] - Amount(t)]
      BY <2>1 DEF DebitStage
    <3> QED
      BY <1>1, <3>1, <3>2 DEF BooksInv
  <2>2. CASE ~IsRefund(t)
    BY <2>2, ZenonT(40) DEF DebitStage, BooksInv
  <2> QED
    BY <2>1, <2>2, ZenonT(40)
<1>12. balance' \in [Accounts -> Int]
  BY <1>1, <1>2, <1>6 DEF BooksInv
<1>13. status' \in [Txns -> Statuses] /\ writeoff' \in Nat /\ expireAt' = expireAt /\ given' = given
  BY <1>6 DEF DebitStage, Sweep, BooksInv, Statuses
<1> QED
  BY <1>2, <1>3, <1>7, <1>9, <1>10, <1>11, <1>12, <1>13, ZenonT(40) DEF BooksInv

\* the parts of a credit that is not refused
CreditedParts(t) == IF CreditAccount(t) \in BookEnabled THEN CreditParts(t) ELSE << >>

\* they are parts of the amount
LEMMA CreditAddsUp ==
  ASSUME NEW t \in Txns, ~CreditRefused(t)
  PROVE  /\ CreditedParts(t) \in Seq(Parts)
         /\ CreditAccount(t) \in BookEnabled => Total(CreditedParts(t)) = Amount(t)
<1>1. << >> \in Seq(Parts)
  BY SeqEmpty, ZenonT(40)
<1> QED
  BY <1>1 DEF CreditedParts, CreditRefused

\* what the credit stage changes
LEMMA CreditDoes ==
  ASSUME NEW t \in Txns, CreditStage(t)
  PROVE  LET a == CreditAccount(t)
         IN /\ status[t] = "PAY_SUCCESS" /\ ~CreditRefused(t)
            /\ balance' = [balance EXCEPT ![a] = balance[a] + Amount(t)]
            /\ book' = [book EXCEPT ![a] = BooksPlus(book[a], CreditedParts(t))]
            /\ given' = [given EXCEPT ![t] = CreditedParts(t)]
            /\ status' = [status EXCEPT ![t] = "RECV_SUCCESS"]
            /\ UNCHANGED <<clock, refundable, expireAt, taken, writeoffs, writeoff>>
BY DEF CreditStage, CreditedParts

\* a credit keeps the invariant
LEMMA CreditKeepsBooks ==
  ASSUME BooksInv, NEW t \in Txns, CreditStage(t)
  PROVE  BooksInv'
<1> DEFINE a == CreditAccount(t)
           parts == CreditedParts(t)
           b == BooksPlus(book[a], parts)
<1>1. a \in Accounts /\ Amount(t) \in Nat \ {0}
  BY RequestOf, ZenonT(40)
<1>2. /\ ~CreditRefused(t)
      /\ balance' = [balance EXCEPT ![a] = balance[a] + Amount(t)]
      /\ book' = [book EXCEPT ![a] = b]
      /\ given' = [given EXCEPT ![t] = parts]
      /\ status' = [status EXCEPT ![t] = "RECV_SUCCESS"]
      /\ UNCHANGED <<clock, refundable, expireAt, taken, writeoffs, writeoff>>
  BY CreditDoes
<1>3. parts \in Seq(Parts)
  BY <1>2, CreditAddsUp, ZenonT(40)
<1>4. BooksOK(book[a])
  BY <1>1 DEF BooksInv
<1>5. BooksOK(b) /\ DOMAIN b = DOMAIN book[a] \cup {parts[i].expire : i \in DOMAIN parts}
  BY <1>3, <1>4, PlusOK, PlusSum, ZenonT(40)
<1>6. a \notin BookEnabled => DOMAIN parts = {}
  BY DEF CreditedParts
<1> HIDE DEF parts, b
<1>7. book' = [x \in Accounts |-> book'[x]] /\ book'[a] = b
      /\ \A x \in Accounts \ {a} : book'[x] = book[x]
  BY <1>1, <1>2, ZenonT(40) DEF BooksInv
<1>8. \A x \in Accounts :
         /\ BooksOK(book'[x])
         /\ x \in BookEnabled <=> NoExpire \in DOMAIN book'[x]
         /\ x \notin BookEnabled => DOMAIN book'[x] = {}
  <2>1. /\ a \in BookEnabled <=> NoExpire \in DOMAIN b
        /\ a \notin BookEnabled => DOMAIN b = {}
    BY <1>1, <1>5, <1>6, ZenonT(40) DEF BooksInv
  <2> QED
    BY <1>1, <1>5, <1>7, <2>1, ZenonT(40) DEF BooksInv
<1>9. /\ balance' \in [Accounts -> Int] /\ given' \in [Txns -> Seq(Parts)]
      /\ status' \in [Txns -> Statuses]
  BY <1>1, <1>2, <1>3 DEF BooksInv, Statuses
<1> QED
  BY <1>2, <1>7, <1>8, <1>9, ZenonT(40) DEF BooksInv

\* the steps that leave the books and the balances alone
Quiet == UNCHANGED <<balance, book, taken, given, writeoff>>

\* and every other step keeps it
LEMMA OthersKeepBooks ==
  ASSUME BooksInv,
         \/ \E t \in Txns : SubmitTransfer(t) \/ SubmitRefund(t) \/ DebitStageRefused(t)
         \/ Tick
         \/ UNCHANGED vars
  PROVE  BooksInv' /\ Quiet /\ \A t \in Txns : status'[t] = "PAY_SUCCESS" <=> status[t] = "PAY_SUCCESS"
<1>1. CASE \E t \in Txns : SubmitTransfer(t)
  <2>1. PICK t \in Txns : SubmitTransfer(t)
    BY <1>1, ZenonT(40)
  <2>2. Amount(t) \in Nat /\ Req[t].days \in Nat
    BY RequestOf
  <2>3. Today \in Nat
    BY Days, ZenonT(40) DEF BooksInv, Today
  <2>4. CreditExpireAt(t) \in Nat
    <3>1. Today + Req[t].days \in Nat /\ 0 \in Nat
      BY <2>2, <2>3
    <3> QED
      BY <3>1, ZenonT(40) DEF CreditExpireAt
  <2>5. /\ status' = [status EXCEPT ![t] = "INIT"] /\ status[t] = "NONE"
        /\ refundable' = [refundable EXCEPT ![t] = Amount(t)]
        /\ expireAt' = [expireAt EXCEPT ![t] = CreditExpireAt(t)]
        /\ UNCHANGED <<clock, balance, book, taken, given, writeoffs, writeoff>>
    BY <2>1, ZenonT(40) DEF SubmitTransfer
  <2> QED
    BY <2>2, <2>4, <2>5, ZenonT(40) DEF BooksInv, Statuses, Quiet
<1>2. CASE \E t \in Txns : SubmitRefund(t)
  BY <1>2 DEF SubmitRefund, BooksInv, Statuses, Quiet
<1>3. CASE \E t \in Txns : DebitStageRefused(t)
  <2>1. PICK t \in Txns : DebitStageRefused(t)
    BY <1>3
  <2>2. clock' \in 0..MaxClock
    BY <2>1, ClockLater, ZenonT(40) DEF DebitStageRefused, BooksInv
  <2> QED
    BY <2>1, <2>2, ZenonT(40) DEF DebitStageRefused, BooksInv, Statuses, Quiet
<1>4. CASE Tick
  <2>1. clock' \in 0..MaxClock
    BY <1>4, DateAssumption DEF Tick, BooksInv
  <2> QED
    BY <1>4, <2>1, ZenonT(40) DEF Tick, BooksInv, Quiet
<1>5. CASE UNCHANGED vars
  BY <1>5, ZenonT(40) DEF vars, BooksInv, Quiet
<1> QED
  BY <1>1, <1>2, <1>3, <1>4, <1>5, ZenonT(40)

-----------------------------------------------------------------------------
(* Balances *)

\* the balances: accounts agree with their books, only accounts that may be are
\* overdrawn, and no money is made or lost
MoneyInv == AccountIsSumOfBooks /\ NoOverdraft /\ Conservation

\* the amounts of txns
LEMMA AmountsType == \A t \in Txns : Amounts[t] = Amount(t) /\ Amounts[t] \in Int
BY RequestOf DEF Amounts

\* there is no money at first
LEMMA MoneyInit == Init => MoneyInv
<1> SUFFICES ASSUME Init PROVE MoneyInv
  OBVIOUS
<1>1. AccountIsSumOfBooks
  <2> SUFFICES ASSUME NEW a \in BookEnabled PROVE VerifyAccountBookBalance(a)
    BY DEF AccountIsSumOfBooks
  <2>1. a \in Accounts /\ balance[a] = 0
    BY BookAccountAssumption DEF Init
  <2>2. book[a] = [e \in {NoExpire} |-> 0]
    BY <2>1 DEF Init
  <2>3. DOMAIN book[a] = {NoExpire} /\ \A e \in {NoExpire} : book[a][e] = 0
    BY <2>2
  <2>4. SumOver(book[a], {NoExpire}) = 0
    BY <2>3, FS_Singleton, SumZero, ZenonT(40)
  <2> QED
    BY <2>1, <2>3, <2>4, ZenonT(40) DEF VerifyAccountBookBalance
<1>2. NoOverdraft
  BY DEF Init, NoOverdraft
<1>3. Conservation
  <2>1. SumOver(balance, Accounts) = 0
    <3>1. \A a \in Accounts : balance[a] = 0
      BY DEF Init
    <3> QED
      BY <3>1, BookFiniteAssumption, SumZero, ZenonT(40)
  <2>2. InFlight = {}
    BY DEF Init, InFlight
  <2>3. SumOver(Amounts, InFlight) = 0
    BY <2>2, SumEmpty
  <2>4. writeoff = 0
    BY DEF Init
  <2> QED
    BY <2>1, <2>3, <2>4 DEF Conservation
<1> QED
  BY <1>1, <1>2, <1>3, ZenonT(40) DEF MoneyInv

\* the sums of Conservation are integers, before and after a step
LEMMA SumsAreInt ==
  ASSUME BooksInv
  PROVE  /\ SumOver(balance, Accounts) \in Int /\ SumOver(Amounts, InFlight) \in Int
         /\ IsFiniteSet(InFlight) /\ InFlight \subseteq Txns
<1>1. IsFiniteSet(InFlight) /\ InFlight \subseteq Txns
  BY BookFiniteAssumption, FS_Subset, ZenonT(40) DEF InFlight
<1>2. \A t \in InFlight : Amounts[t] \in Int
  BY <1>1, AmountsType, ZenonT(40)
<1>3. \A a \in Accounts : balance[a] \in Int
  BY DEF BooksInv
<1> QED
  BY <1>1, <1>2, <1>3, BookFiniteAssumption, SumType, ZenonT(40)

\* the sweep and the debit: what leaves an account is written off or under way
LEMMA DebitKeepsMoney ==
  ASSUME BooksInv, MoneyInv, NEW t \in Txns, DebitStage(t)
  PROVE  MoneyInv'
<1> DEFINE a == DebitAccount(t)
           swept == SweptAmount(a)
<1>1. a \in Accounts /\ Amount(t) \in Nat \ {0}
  BY RequestOf, ZenonT(40)
<1>2. PICK c \in LaterRead :
        /\ ~DebitRefused(t, c)
        /\ balance' = [balance EXCEPT ![a] = balance[a] - swept - Amount(t)]
        /\ book' = [book EXCEPT ![a] = BooksLess(BooksAfterSweep(a), DebitParts(t, c))]
  BY DebitDoes
<1> DEFINE b == BooksLess(BooksAfterSweep(a), DebitParts(t, c))
<1>3. c \in 0..MaxClock
  BY ClockLater, ZenonT(40) DEF BooksInv
<1>4. BooksOK(book[a]) /\ (a \notin BookEnabled => DOMAIN book[a] = {})
  BY <1>1 DEF BooksInv
<1>5. a \in BookEnabled =>
        SumOver(b, DOMAIN b) = SumOver(book[a], DOMAIN book[a]) - swept - Amount(t)
  BY <1>1, <1>2, <1>3, <1>4, DebitBooks, ZenonT(40)
<1>6. swept \in Nat
  BY <1>1, <1>4, SweepTakes, ZenonT(40)
<1>7. balance \in [Accounts -> Int] /\ book = [x \in Accounts |-> book[x]]
  BY DEF BooksInv
<1> HIDE DEF b
<1>8. /\ book'[a] = b /\ balance'[a] = balance[a] - swept - Amount(t)
      /\ \A x \in Accounts \ {a} : book'[x] = book[x] /\ balance'[x] = balance[x]
  BY <1>1, <1>2, <1>7, ZenonT(40) DEF b
<1>9. AccountIsSumOfBooks'
  <2> SUFFICES ASSUME NEW x \in BookEnabled
               PROVE  balance'[x] = SumOver(book'[x], DOMAIN book'[x])
    BY DEF AccountIsSumOfBooks, VerifyAccountBookBalance
  <2>1. x \in Accounts /\ balance[x] = SumOver(book[x], DOMAIN book[x])
    BY BookAccountAssumption, ZenonT(40) DEF MoneyInv, AccountIsSumOfBooks, VerifyAccountBookBalance
  <2>2. CASE x = a
    BY <1>5, <1>8, <2>1, <2>2, ZenonT(40)
  <2>3. CASE x # a
    BY <1>8, <2>1, <2>3, ZenonT(40)
  <2> QED
    BY <2>2, <2>3, ZenonT(40)
<1>10. NoOverdraft'
  <2> SUFFICES ASSUME NEW x \in Accounts \ AllowOverdraft PROVE balance'[x] >= 0
    BY ZenonT(40) DEF NoOverdraft
  <2>1. CASE x = a
    <3>1. balance[a] - swept >= Amount(t)
      BY <1>2, <2>1, ZenonT(40) DEF DebitRefused, CanDebit
    <3> QED
      BY <1>1, <1>6, <1>7, <1>8, <2>1, <3>1
  <2>2. CASE x # a
    BY <1>8, <2>2, ZenonT(40) DEF MoneyInv, NoOverdraft
  <2> QED
    BY <2>1, <2>2
<1>11. Conservation'
  <2>1. SumOver(balance', Accounts) = SumOver(balance, Accounts) - balance[a] + balance'[a]
    <3>1. \A x \in Accounts : balance[x] \in Int
      BY <1>7, ZenonT(40)
    <3>2. balance'[a] \in Int
      BY <1>1, <1>6, <1>7, <1>8
    <3> QED
      BY <1>1, <1>8, <3>1, <3>2, BookFiniteAssumption, SumChange
  <2>2. InFlight' = InFlight \cup {t} /\ t \notin InFlight
    BY ZenonT(40) DEF DebitStage, InFlight, BooksInv
  <2>3. SumOver(Amounts, InFlight \cup {t}) = SumOver(Amounts, InFlight) + Amounts[t]
    <3>1. \A x \in InFlight \cup {t} : Amounts[x] \in Int
      BY AmountsType, ZenonT(40) DEF InFlight
    <3> QED
      BY <2>2, <3>1, SumsAreInt, SumAdd, ZenonT(40)
  <2>4. writeoff' = writeoff + swept
    BY DEF DebitStage, Sweep
  <2>5. SumOver(balance, Accounts) + writeoff + SumOver(Amounts, InFlight) = 0
    BY DEF MoneyInv, Conservation
  <2>6. Amounts' = Amounts /\ Amounts[t] = Amount(t)
    BY AmountsType, ZenonT(40) DEF Amounts, Amount
  <2>7. SumOver(balance', Accounts) = SumOver(balance, Accounts) - swept - Amount(t)
    BY <1>1, <1>6, <1>7, <1>8, <2>1, SumsAreInt
  <2>8. SumOver(balance, Accounts) \in Int /\ SumOver(Amounts, InFlight) \in Int /\ writeoff \in Nat
    BY SumsAreInt, ZenonT(40) DEF BooksInv
  <2> HIDE DEF swept
  <2>9. SumOver(balance', Accounts) + writeoff' + (SumOver(Amounts, InFlight) + Amount(t)) = 0
    BY <1>1, <1>6, <2>4, <2>5, <2>7, <2>8
  <2> QED
    BY <2>2, <2>3, <2>6, <2>9, ZenonT(40) DEF Conservation
<1> QED
  BY <1>9, <1>10, <1>11, ZenonT(40) DEF MoneyInv

\* the credit: what was under way arrives, in the books too
LEMMA CreditKeepsMoney ==
  ASSUME BooksInv, MoneyInv, NEW t \in Txns, CreditStage(t)
  PROVE  MoneyInv'
<1> DEFINE a == CreditAccount(t)
           parts == CreditedParts(t)
           b == BooksPlus(book[a], parts)
<1>1. a \in Accounts /\ Amount(t) \in Nat \ {0}
  BY RequestOf, ZenonT(40)
<1>2. /\ status[t] = "PAY_SUCCESS" /\ ~CreditRefused(t)
      /\ balance' = [balance EXCEPT ![a] = balance[a] + Amount(t)]
      /\ book' = [book EXCEPT ![a] = b]
      /\ status' = [status EXCEPT ![t] = "RECV_SUCCESS"]
      /\ writeoff' = writeoff
  BY CreditDoes
<1>3. parts \in Seq(Parts) /\ (a \in BookEnabled => Total(parts) = Amount(t))
  BY <1>2, CreditAddsUp, ZenonT(40)
<1>4. BooksOK(book[a])
  BY <1>1 DEF BooksInv
<1>5. SumOver(b, DOMAIN b) = SumOver(book[a], DOMAIN book[a]) + Total(parts)
  BY <1>3, <1>4, PlusSum, ZenonT(40)
<1>6. balance \in [Accounts -> Int] /\ book = [x \in Accounts |-> book[x]]
  BY DEF BooksInv
<1> HIDE DEF b, parts
<1>7. /\ book'[a] = b /\ balance'[a] = balance[a] + Amount(t)
      /\ \A x \in Accounts \ {a} : book'[x] = book[x] /\ balance'[x] = balance[x]
  BY <1>1, <1>2, <1>6, ZenonT(40)
<1>8. AccountIsSumOfBooks'
  <2> SUFFICES ASSUME NEW x \in BookEnabled
               PROVE  balance'[x] = SumOver(book'[x], DOMAIN book'[x])
    BY DEF AccountIsSumOfBooks, VerifyAccountBookBalance
  <2>1. x \in Accounts /\ balance[x] = SumOver(book[x], DOMAIN book[x])
    BY BookAccountAssumption, ZenonT(40) DEF MoneyInv, AccountIsSumOfBooks, VerifyAccountBookBalance
  <2>2. CASE x = a
    BY <1>3, <1>5, <1>7, <2>1, <2>2, ZenonT(40)
  <2>3. CASE x # a
    BY <1>7, <2>1, <2>3, ZenonT(40)
  <2> QED
    BY <2>2, <2>3, ZenonT(40)
<1>9. NoOverdraft'
  <2> SUFFICES ASSUME NEW x \in Accounts \ AllowOverdraft PROVE balance'[x] >= 0
    BY DEF NoOverdraft
  <2>1. balance[x] >= 0 /\ balance[x] \in Int
    BY <1>6 DEF MoneyInv, NoOverdraft
  <2> QED
    BY <1>1, <1>7, <2>1
<1>10. Conservation'
  <2>1. SumOver(balance', Accounts) = SumOver(balance, Accounts) - balance[a] + balance'[a]
    <3>1. \A x \in Accounts : balance[x] \in Int
      BY <1>6
    <3>2. balance'[a] \in Int
      BY <1>1, <1>6, <1>7
    <3> QED
      BY <1>1, <1>7, <3>1, <3>2, BookFiniteAssumption, SumChange
  <2>2. InFlight' = InFlight \ {t} /\ t \in InFlight
    BY <1>2, ZenonT(40) DEF InFlight, BooksInv
  <2>3. SumOver(Amounts, InFlight) = Amounts[t] + SumOver(Amounts, InFlight \ {t})
    <3>1. \A x \in InFlight : Amounts[x] \in Int
      BY AmountsType DEF InFlight
    <3> QED
      BY <2>2, <3>1, SumsAreInt, SumRemove
  <2>4. SumOver(balance, Accounts) + writeoff + SumOver(Amounts, InFlight) = 0
    BY DEF MoneyInv, Conservation
  <2>5. Amounts' = Amounts /\ Amounts[t] = Amount(t)
    BY AmountsType, ZenonT(40) DEF Amounts, Amount
  <2>6. SumOver(balance, Accounts) \in Int /\ writeoff \in Nat
    BY SumsAreInt, ZenonT(40) DEF BooksInv
  <2>7. SumOver(balance', Accounts) = SumOver(balance, Accounts) + Amount(t)
    BY <1>1, <1>6, <1>7, <2>1, <2>6
  <2>8. SumOver(Amounts, InFlight \ {t}) \in Int
    <3>1. IsFiniteSet(InFlight \ {t}) /\ \A x \in InFlight \ {t} : Amounts[x] \in Int
      BY AmountsType, SumsAreInt, FS_Subset, ZenonT(40) DEF InFlight
    <3> QED
      BY <3>1, SumType, ZenonT(40)
  <2>9. writeoff' = writeoff /\ Amount(t) \in Int
    BY <1>1, <1>2
  <2>10. SumOver(balance', Accounts) + writeoff' + SumOver(Amounts, InFlight \ {t}) = 0
    BY <2>3, <2>4, <2>5, <2>6, <2>7, <2>8, <2>9
  <2> QED
    BY <2>2, <2>5, <2>10, ZenonT(40) DEF Conservation
<1> QED
  BY <1>8, <1>9, <1>10, ZenonT(40) DEF MoneyInv

\* nothing else moves money
LEMMA QuietKeepsMoney ==
  ASSUME BooksInv, MoneyInv, Quiet,
         \A t \in Txns : status'[t] = "PAY_SUCCESS" <=> status[t] = "PAY_SUCCESS"
  PROVE  MoneyInv'
<1>1. InFlight' = InFlight /\ Amounts' = Amounts
  BY DEF InFlight, Amounts, Amount
<1>2. AccountIsSumOfBooks' /\ NoOverdraft'
  BY DEF MoneyInv, Quiet, AccountIsSumOfBooks, VerifyAccountBookBalance, NoOverdraft
<1>3. Conservation'
  BY <1>1 DEF MoneyInv, Quiet, Conservation
<1> QED
  BY <1>2, <1>3 DEF MoneyInv

\* the books and the balances are as BooksInv and MoneyInv say, always
THEOREM LedgerInvariant == Spec => [](BooksInv /\ MoneyInv)
<1>1. Init => BooksInv /\ MoneyInv
  BY BooksInit, MoneyInit, ZenonT(40)
<1>2. BooksInv /\ MoneyInv /\ [Next]_vars => (BooksInv /\ MoneyInv)'
  <2> SUFFICES ASSUME BooksInv, MoneyInv, [Next]_vars PROVE BooksInv' /\ MoneyInv'
    OBVIOUS
  <2>1. CASE \E t \in Txns : DebitStage(t)
    BY <2>1, DebitKeepsBooks, DebitKeepsMoney, ZenonT(40)
  <2>2. CASE \E t \in Txns : CreditStage(t)
    BY <2>2, CreditKeepsBooks, CreditKeepsMoney, ZenonT(40)
  <2>3. CASE \/ \E t \in Txns : SubmitTransfer(t) \/ SubmitRefund(t) \/ DebitStageRefused(t)
             \/ Tick
             \/ UNCHANGED vars
    <3>1. BooksInv' /\ Quiet
          /\ \A t \in Txns : status'[t] = "PAY_SUCCESS" <=> status[t] = "PAY_SUCCESS"
      BY <2>3, OthersKeepBooks
    <3> QED
      BY <3>1, QuietKeepsMoney, ZenonT(40)
  <2> QED
    BY <2>1, <2>2, <2>3, ZenonT(40) DEF Next
<1> QED
  BY <1>1, <1>2, PTL DEF Spec

\* every variable keeps to its type; a debit takes only from books that have not
\* expired when it begins
THEOREM TypeCorrect == Spec => []TypeOK
<1>1. BooksInv => TypeOK
  <2> SUFFICES ASSUME BooksInv PROVE TypeOK
    OBVIOUS
  <2>1. ASSUME NEW t \in Txns
        PROVE  /\ Range(given[t]) \subseteq Parts
               /\ \A row \in Range(taken[t]) : row.amount > 0 /\ row.expire > row.day
    <3>1. \A i \in DOMAIN given[t] : given[t][i] \in Parts
      BY AmountsOfParts, SeqElements DEF BooksInv
    <3>2. \A i \in DOMAIN taken[t] : taken[t][i] \in Rows
      BY SeqElements, ZenonT(40) DEF BooksInv
    <3>3. \A i \in DOMAIN taken[t] : taken[t][i].amount > 0
      BY <3>2 DEF Rows
    <3> QED
      BY <3>1, <3>3, ZenonT(40) DEF Range, BooksInv
  <2>2. \A a \in Accounts : \A e \in DOMAIN book[a] : book[a][e] \in Int
    BY DEF BooksInv, BooksOK
  <2> QED
    BY <2>1, <2>2 DEF BooksInv, TypeOK, Statuses
<1> QED
  BY <1>1, LedgerInvariant, PTL

\* the balance of a book account is the sum of its books, whatever is swept, debited,
\* credited and refunded
THEOREM AccountsAgreeWithBooks == Spec => []AccountIsSumOfBooks
BY LedgerInvariant, PTL DEF MoneyInv

\* no money is made or lost by sweeps, debits, credits and refunds
THEOREM BooksConserveMoney == Spec => []Conservation
BY LedgerInvariant, PTL DEF MoneyInv

\* an account without allow_overdraft is never overdrawn
THEOREM AccountsNotOverdrawn == Spec => []NoOverdraft
BY LedgerInvariant, PTL DEF MoneyInv

-----------------------------------------------------------------------------
(* What is shown, and what a debit takes first *)

\* what is shown as available is what the account has once the sweep has been
LEMMA AvailableAfterSweep ==
  ASSUME BooksInv, AccountIsSumOfBooks, NEW a \in BookEnabled
  PROVE  /\ Available(a) = balance[a] - SweptAmount(a)
         /\ Available(a) \in Int
<1> DEFINE b == book[a]
           D == DOMAIN b
           V == {e \in D : e > Today \/ e = NoExpire}
           W == D \ V
           S == SweptBooks(a)
<1>1. a \in Accounts /\ BooksOK(b)
  BY BookAccountAssumption, ZenonT(40) DEF BooksInv
<1>2. IsFiniteSet(D) /\ \A e \in D : b[e] \in Int
  BY <1>1 DEF BooksOK
<1>3. V \in SUBSET D /\ IsFiniteSet(V) /\ IsFiniteSet(W)
  BY <1>2, FS_Subset, ZenonT(40)
<1>4. SumOver(b, D) = SumOver(b, V) + SumOver(b, W)
  <2> HIDE DEF b, D, V
  <2> QED
    BY <1>2, <1>3, SumSplit
<1>5. S \in SUBSET W /\ \A e \in W \ S : b[e] = 0
  <2>1. Today \in Nat
    BY Days, ZenonT(40) DEF BooksInv, Today
  <2>2. \A e \in D : e \in Nat /\ (e # NoExpire => b[e] >= 0)
    BY <1>1 DEF BooksOK
  <2>3. S = {e \in D : e <= Today /\ e # NoExpire /\ b[e] > 0}
    BY DEF SweptBooks, Expired
  <2>4. W = {e \in D : e <= Today /\ e # NoExpire}
    BY <2>1, <2>2
  <2> HIDE DEF b, D, W, S
  <2> QED
    BY <1>2, <2>2, <2>3, <2>4
<1>6. SumOver(b, W) = SumOver(b, S)
  <2>1. \A e \in S : b[e] \in Int /\ b[e] = b[e]
    BY <1>2, <1>5
  <2> HIDE DEF b, W, S
  <2> QED
    BY <1>3, <1>5, <2>1, SumWithin
<1>7. SumOver(b, V) \in Int /\ SumOver(b, W) \in Int
  <2>1. (\A e \in V : b[e] \in Int) /\ \A e \in W : b[e] \in Int
    BY <1>2
  <2> HIDE DEF b, V, W
  <2> QED
    BY <1>3, <2>1, SumType, ZenonT(40)
<1>8. balance[a] = SumOver(b, D)
  BY DEF AccountIsSumOfBooks, VerifyAccountBookBalance
<1>9. Available(a) = SumOver(b, V) /\ SweptAmount(a) = SumOver(b, S)
  BY DEF Available, SweptAmount
<1> HIDE DEF b, D, V, W, S
<1> QED
  BY <1>4, <1>6, <1>7, <1>8, <1>9

\* the available balance that the API shows is what a debit may take, although the
\* debit sweeps first
THEOREM ShownIsSpendable == Spec => []AvailableIsSpendable
<1>1. BooksInv /\ MoneyInv => AvailableIsSpendable
  <2> SUFFICES ASSUME BooksInv, MoneyInv, NEW a \in BookEnabled \ AllowOverdraft,
                      NEW x \in 1..(Available(a) + 2)
               PROVE  x <= Available(a) <=> CanDebit(a, balance[a] - SweptAmount(a), x)
    BY DEF AvailableIsSpendable
  <2>1. Available(a) = balance[a] - SweptAmount(a) /\ Available(a) \in Int
    BY AvailableAfterSweep DEF MoneyInv
  <2> DEFINE has == Available(a)
  <2>2. CanDebit(a, has, x) <=> has >= x
    BY DEF CanDebit
  <2> HIDE DEF has
  <2>3. x \in Int /\ has \in Int
    BY <2>1 DEF has
  <2>4. x <= has <=> CanDebit(a, has, x)
    BY <2>2, <2>3, ZenonT(40)
  <2> QED
    BY <2>1, <2>4, ZenonT(40) DEF has
<1> QED
  BY <1>1, LedgerInvariant, PTL

\* the debit stage leaves nothing in a book that it could use and that expires before
\* one it takes from
LEMMA DebitIsFefo ==
  ASSUME BooksInv, NEW t \in Txns, DebitStage(t),
         NEW row \in Range(taken'[t]), NEW e \in DOMAIN book[DebitAccount(t)],
         Before(e, row.expire), e > Day(clock')
  PROVE  book'[DebitAccount(t)][e] = 0
<1> DEFINE a == DebitAccount(t)
<1>1. a \in Accounts /\ Amount(t) \in Nat \ {0}
  BY RequestOf, ZenonT(40)
<1>2. PICK c \in LaterRead :
        /\ clock' = c
        /\ book' = [book EXCEPT ![a] = BooksLess(BooksAfterSweep(a), DebitParts(t, c))]
        /\ taken' = [taken EXCEPT ![t] =
             [i \in DOMAIN DebitParts(t, c) |->
                [expire |-> DebitParts(t, c)[i].expire, amount |-> DebitParts(t, c)[i].amount,
                 day |-> Today]]]
  BY DebitDoes, ZenonT(40)
<1> DEFINE swept == BooksAfterSweep(a)
           r == Spread(swept, Day(c), Amount(t))
           parts == DebitParts(t, c)
           L == Listed(swept, Day(c))
<1>3. c \in 0..MaxClock /\ Day(c) \in Nat
  BY ClockLater, ZenonT(40) DEF BooksInv
<1>4. BooksOK(swept) /\ DOMAIN swept = DOMAIN book[a]
  BY <1>1, SweepTakes DEF BooksInv
<1>5. book'[a][e] = swept[e] - TotalAt(parts, e)
  <2>1. book'[a] = BooksLess(swept, parts)
    BY <1>1, <1>2, ZenonT(40) DEF BooksInv
  <2> HIDE DEF swept, parts
  <2> QED
    BY <1>4, <2>1, ZenonT(40) DEF BooksLess
<1>6. PICK i \in DOMAIN parts : row.expire = parts[i].expire
  <2>1. taken'[t] = [i \in DOMAIN parts |->
                       [expire |-> parts[i].expire, amount |-> parts[i].amount, day |-> Today]]
    BY <1>2, ZenonT(40) DEF BooksInv
  <2> HIDE DEF parts
  <2> QED
    BY <2>1 DEF Range
<1>7. a \in BookEnabled
  <2>1. parts # << >>
    <3> HIDE DEF parts
    <3> QED
      BY <1>6
  <2> QED
    BY <2>1, ZenonT(40) DEF DebitParts
<1>8. parts = r.parts
  BY <1>7 DEF DebitParts
<1>9. r \in Progress /\ SpreadOK(swept, Amount(t), L, r)
  BY <1>1, <1>3, <1>4, SpreadSpreads, ZenonT(40)
<1> HIDE DEF parts, r
<1>10. parts \in Seq(Parts)
  BY <1>8, <1>9, ZenonT(40) DEF Progress
<1>11. e # NoExpire
  BY ZenonT(40) DEF Before
<1>12. swept[e] \in Int /\ swept[e] >= 0
  BY <1>4, <1>11, ZenonT(40) DEF BooksOK
<1>13. CASE e \in L
  <2>1. Emptied(swept, parts, e)
    BY <1>6, <1>8, <1>9, <1>13, ZenonT(40) DEF SpreadOK
  <2>2. PICK j \in DOMAIN parts : parts[j].expire = e /\ parts[j].amount = swept[e]
    BY <2>1, ZenonT(40) DEF Emptied
  <2>3. \A k \in DOMAIN parts : k # j => parts[k].expire # parts[j].expire
    BY <1>8, <1>9, <2>2, PartsDiffer, ZenonT(40)
  <2>4. TotalAt(parts, e) = swept[e]
    BY <1>10, <2>2, <2>3, TotalAtOne, ZenonT(40)
  <2> HIDE DEF swept
  <2> QED
    BY <1>5, <1>12, <2>4
<1>14. CASE e \notin L
  <2>1. swept[e] = 0
    <3>1. e > Day(c)
      BY <1>2, ZenonT(40)
    <3>2. ~(swept[e] > 0)
      BY <1>4, <1>14, <3>1, ZenonT(40) DEF Listed
    <3> HIDE DEF swept
    <3> QED
      BY <1>12, <3>2
  <2>2. \A k \in DOMAIN parts : parts[k].expire # e
    BY <1>8, <1>9, <1>14, ZenonT(40) DEF SpreadOK
  <2>3. TotalAt(parts, e) = 0
    BY <2>2, TotalAtNone, ZenonT(40)
  <2> HIDE DEF swept
  <2> QED
    BY <1>5, <2>1, <2>3
<1> QED
  BY <1>13, <1>14, ZenonT(40)

\* first expiry first: a debit takes from a book only when every book that can still be
\* used and expires earlier is empty afterwards
THEOREM FirstExpiryIsFirst == Spec => FirstExpiryFirst
<1>1. BooksInv /\ [Next]_vars =>
        [\A t \in Txns :
           (status[t] = "INIT" /\ status'[t] = "PAY_SUCCESS") =>
             \A row \in Range(taken'[t]), e \in DOMAIN book[DebitAccount(t)] :
               (Before(e, row.expire) /\ e > Day(clock'))
                 => book'[DebitAccount(t)][e] = 0]_vars
  <2> SUFFICES ASSUME BooksInv, Next, NEW t \in Txns,
                      status[t] = "INIT", status'[t] = "PAY_SUCCESS",
                      NEW row \in Range(taken'[t]), NEW e \in DOMAIN book[DebitAccount(t)],
                      Before(e, row.expire), e > Day(clock')
               PROVE  book'[DebitAccount(t)][e] = 0
    BY ZenonT(40)
  <2>1. DebitStage(t)
    <3>1. ~(\E u \in Txns : SubmitTransfer(u) \/ SubmitRefund(u) \/ DebitStageRefused(u)) /\ ~Tick
      BY OthersKeepBooks, ZenonT(40)
    <3>2. ASSUME NEW u \in Txns, CreditStage(u) PROVE FALSE
      BY <3>2 DEF CreditStage, BooksInv
    <3>3. PICK u \in Txns : DebitStage(u)
      BY <3>1, <3>2, ZenonT(40) DEF Next
    <3>4. u = t
      BY <3>3 DEF DebitStage, BooksInv
    <3> QED
      BY <3>3, <3>4, ZenonT(40)
  <2> QED
    BY <2>1, DebitIsFefo, ZenonT(40)
<1> QED
  BY <1>1, LedgerInvariant, PTL DEF Spec, FirstExpiryFirst
=============================================================================
