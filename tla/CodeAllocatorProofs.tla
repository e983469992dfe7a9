------------------------- MODULE CodeAllocatorProofs -------------------------
(***************************************************************************)
(* Proofs about CodeAllocator, for any number of instances and callers,    *)
(* any batch size and watermark, and any number of calls, errors and       *)
(* crashes.                                                                *)
(***************************************************************************)
EXTENDS CodeAllocator, TLAPS

\* the time that the provers have for a step
USE SMTT(40), ZenonT(40)

USE ProcessAssumption, RangeAssumption, BoundAssumption

-----------------------------------------------------------------------------
(* Types *)

\* Every step keeps the types, and the row of the sequence once there is one.
LEMMA TypeKeeps == TypeOK /\ Ready /\ [Next]_vars => TypeOK' /\ Ready'
<1> SUFFICES ASSUME TypeOK, Ready, [Next]_vars PROVE TypeOK' /\ Ready'
  OBVIOUS
<1> USE DEF TypeOK, Ready, Processes
<1>1. ASSUME NEW c \in Callers, Call(c) PROVE TypeOK' /\ Ready'
  BY <1>1 DEF Call
<1>2. ASSUME NEW c \in Callers, Take(c) PROVE TypeOK' /\ Ready'
  <2> NodeOf[c] \in Nodes
    OBVIOUS
  <2>1. current[NodeOf[c]].next \in Nat
    BY DEF Segments
  <2>2. current' \in [Nodes -> Segments]
    <3> DEFINE seg == current[NodeOf[c]]
    <3>1. ASSUME seg \in Segments PROVE [seg EXCEPT !.next = @ + 1] \in Segments
      <4> HIDE DEF seg, TypeOK
      <4> QED BY <3>1 DEF Segments
    <3> QED BY <1>2, <3>1 DEF Take
  <2>3. got' \in [Callers -> (0 .. Capacity - 1) \cup {Refused}]
    <3>1. Code(current[NodeOf[c]].next) \in (0 .. Capacity - 1) \cup {Refused}
      BY <2>1 DEF Code
    <3> QED BY <1>2, <3>1 DEF Take
  <2>4. taken' \subseteq Nat
    BY <1>2, <2>1 DEF Take
  <2>5. renewing' \subseteq Nodes
    BY <1>2 DEF Take
  <2>6. pc' \in [Processes -> {"idle", "loop", "wait", "lease", "leased", "failed"}]
    BY <1>2 DEF Take
  <2> QED BY <1>2, <2>2, <2>3, <2>4, <2>5, <2>6 DEF Take
<1>3. ASSUME NEW c \in Callers, Adopt(c) PROVE TypeOK' /\ Ready'
  BY <1>3 DEF Adopt, NoSegment, Segments
<1>4. ASSUME NEW c \in Callers, Wait(c) PROVE TypeOK' /\ Ready'
  BY <1>4 DEF Wait
<1>5. ASSUME NEW c \in Callers, Renew(c) PROVE TypeOK' /\ Ready'
  BY <1>5 DEF Renew
<1>6. ASSUME NEW p \in Processes, InitCodeSequence(p) PROVE TypeOK' /\ Ready'
  BY <1>6 DEF InitCodeSequence, InitSequence, Fault, NoRow, Host
<1>7. ASSUME NEW p \in Processes, LeaseCodeRange(p) PROVE TypeOK' /\ Ready'
  <2>1. nextValue \in Nat /\ nextValue + BatchSize \in Nat
    BY <1>7 DEF LeaseCodeRange
  <2>2. [next |-> nextValue, end |-> nextValue + BatchSize - 1] \in Segments
    BY <2>1 DEF Segments
  <2>3. range' \in [Processes -> Segments]
    BY <1>7, <2>2 DEF LeaseCodeRange
  <2>4. nextValue' \in Nat
    BY <1>7, <2>1 DEF LeaseCodeRange
  <2>5. faults' \in 0 .. MaxFaults
    BY <1>7 DEF LeaseCodeRange, Fault
  <2>6. pc' \in [Processes -> {"idle", "loop", "wait", "lease", "leased", "failed"}]
    BY <1>7 DEF LeaseCodeRange
  <2> QED BY <1>7, <2>3, <2>4, <2>5, <2>6 DEF LeaseCodeRange, NoRow
<1>8. ASSUME NEW p \in Processes, StoreRange(p) PROVE TypeOK' /\ Ready'
  <2> Host(p) \in Nodes
    BY DEF Host
  <2>1. NoSegment \in Segments
    BY DEF NoSegment, Segments
  <2>2. /\ current' \in [Nodes -> Segments]
        /\ prefetch' \in [Nodes -> Segments]
        /\ range' \in [Processes -> Segments]
    BY <1>8, <2>1 DEF StoreRange
  <2>3. /\ renewing' \subseteq Nodes
        /\ pc' \in [Processes -> {"idle", "loop", "wait", "lease", "leased", "failed"}]
    BY <1>8 DEF StoreRange, Release
  <2> QED BY <1>8, <2>2, <2>3 DEF StoreRange
<1>9. ASSUME NEW p \in Processes, LeaseFailed(p) PROVE TypeOK' /\ Ready'
  BY <1>9 DEF LeaseFailed, Release, Refused
<1>10. ASSUME NEW n \in Nodes, Crash(n) PROVE TypeOK' /\ Ready'
  BY <1>10 DEF Crash, NoSegment, Segments, Refused
<1>11. CASE UNCHANGED vars
  BY <1>11 DEF vars
<1> QED
  BY <1>1, <1>2, <1>3, <1>4, <1>5, <1>6, <1>7, <1>8, <1>9, <1>10, <1>11, ZenonT(40)
  DEF Next, NextSeq, LeaseRange

\* Every variable keeps its type, and no code has more digits than its format allows.
THEOREM TypeCorrect == Spec => []TypeOK
<1>1. Init => TypeOK /\ Ready
  BY DEF Init, TypeOK, Ready, NoRow, NoSegment, Segments, Refused
<1> QED BY <1>1, TypeKeeps, PTL DEF Spec

-----------------------------------------------------------------------------
(* Numbers are handed out once *)

AllocatorInv == TypeOK /\ Ready /\ Fresh

\* What is in the range that LeaseCodeRange returns.
LEMMA InRange ==
  \A a, b \in Nat : \A k \in a .. b - 1 : k \in Int /\ ~(k < a) /\ k < b
OBVIOUS

\* Every step only moves numbers from one place to another, or adds numbers that
\* the sequence had not reached.
LEMMA FreshKeeps == AllocatorInv /\ [Next]_vars => Fresh'
<1> SUFFICES ASSUME TypeOK, Ready, Fresh, [Next]_vars PROVE Fresh'
  BY DEF AllocatorInv
<1> USE DEF Processes
<1>1. ASSUME UNCHANGED <<nextValue, current, prefetch, range, taken>> PROVE Fresh'
  BY <1>1, ZenonT(40) DEF Fresh, Unused, Disjoint
<1>i. /\ \A n \in Nodes : Numbers(current[n]) \subseteq Int /\ Numbers(prefetch[n]) \subseteq Int
      /\ \A q \in Processes : Numbers(range[q]) \subseteq Int
      /\ taken \subseteq Int
  BY DEF Numbers, TypeOK, Segments
<1>z. Numbers(NoSegment) = {}
  BY DEF Numbers, NoSegment
\* numbers may be lost and the sequence may move on
<1>s. ASSUME UNCHANGED taken,
             \A k \in Int : k < nextValue => k < nextValue',
             \A n \in Nodes : /\ Numbers(current'[n]) \subseteq Numbers(current[n])
                              /\ Numbers(prefetch'[n]) \subseteq Numbers(prefetch[n]),
             \A q \in Processes : Numbers(range'[q]) \subseteq Numbers(range[q])
      PROVE  Fresh'
  <2> USE DEF Unused, Disjoint
  <2>f1. (\A k \in taken : k < nextValue)'
    BY <1>s, <1>i, ZenonT(40) DEF Fresh
  <2>f2. (\A n \in Nodes : Unused(current[n]) /\ Unused(prefetch[n]))'
    BY <1>s, <1>i, ZenonT(40) DEF Fresh
  <2>f3. (\A q \in Processes : Unused(range[q]))'
    BY <1>s, <1>i, ZenonT(40) DEF Fresh
  <2>f4. (\A n, m \in Nodes : Disjoint(current[n], prefetch[m]))'
    BY <1>s DEF Fresh
  <2>f5. (\A n, m \in Nodes :
              n # m => Disjoint(current[n], current[m]) /\ Disjoint(prefetch[n], prefetch[m]))'
    BY <1>s DEF Fresh
  <2>f6. (\A n \in Nodes, q \in Processes :
              Disjoint(current[n], range[q]) /\ Disjoint(prefetch[n], range[q]))'
    <3>1. (\A n \in Nodes, q \in Processes : Disjoint(current[n], range[q]))'
      BY <1>s DEF Fresh
    <3>2. (\A n \in Nodes, q \in Processes : Disjoint(prefetch[n], range[q]))'
      BY <1>s DEF Fresh
    <3> QED BY <3>1, <3>2
  <2>f7. (\A q, r \in Processes : q # r => Disjoint(range[q], range[r]))'
    BY <1>s, ZenonT(40) DEF Fresh
  <2> QED BY <2>f1, <2>f2, <2>f3, <2>f4, <2>f5, <2>f6, <2>f7, ZenonT(40) DEF Fresh
<1>2. ASSUME NEW c \in Callers, Take(c) PROVE Fresh'
  <2> DEFINE host == NodeOf[c]
  <2>1. host \in Nodes /\ current[host] \in Segments
    BY DEF TypeOK
  <2>2. current[host].next \in Numbers(current[host])
    BY <1>2, <2>1 DEF Take, HasNext, Numbers, Segments
  <2>3. /\ Numbers(current'[host]) = Numbers(current[host]) \ {current[host].next}
        /\ \A m \in Nodes : m # host => current'[m] = current[m]
    <3>1. current'[host].next = current[host].next + 1 /\ current'[host].end = current[host].end
      BY <1>2, <2>1 DEF Take, TypeOK, Segments
    <3>2. current[host].next \in Nat /\ current[host].end \in Int
      BY <2>1 DEF Segments
    <3>3. Numbers(current'[host]) = Numbers(current[host]) \ {current[host].next}
      BY <3>1, <3>2 DEF Numbers
    <3>4. \A m \in Nodes : m # host => current'[m] = current[m]
      BY <1>2, <2>1 DEF Take, TypeOK
    <3> QED BY <3>3, <3>4
  <2>4. /\ taken' = taken \cup {current[host].next}
        /\ UNCHANGED <<nextValue, prefetch, range>>
    BY <1>2 DEF Take
  <2> HIDE DEF host
  <2> USE DEF Unused, Disjoint
  <2>f1. (\A k \in taken : k < nextValue)'
    BY <2>1, <2>2, <2>3, <2>4 DEF Fresh
  <2>f2. (\A n \in Nodes : Unused(current[n]) /\ Unused(prefetch[n]))'
    BY <2>1, <2>2, <2>3, <2>4 DEF Fresh
  <2>f3. (\A q \in Processes : Unused(range[q]))'
    BY <2>1, <2>2, <2>3, <2>4 DEF Fresh
  <2>f4. (\A n, m \in Nodes : Disjoint(current[n], prefetch[m]))'
    BY <2>1, <2>2, <2>3, <2>4 DEF Fresh
  <2>f5. (\A n, m \in Nodes :
              n # m => Disjoint(current[n], current[m]) /\ Disjoint(prefetch[n], prefetch[m]))'
    BY <2>1, <2>2, <2>3, <2>4 DEF Fresh
  <2>f6. (\A n \in Nodes, q \in Processes :
              Disjoint(current[n], range[q]) /\ Disjoint(prefetch[n], range[q]))'
    BY <2>1, <2>2, <2>3, <2>4, ZenonT(40) DEF Fresh
  <2>f7. (\A q, r \in Processes : q # r => Disjoint(range[q], range[r]))'
    BY <2>1, <2>2, <2>3, <2>4, ZenonT(40) DEF Fresh
  <2> QED BY <2>f1, <2>f2, <2>f3, <2>f4, <2>f5, <2>f6, <2>f7, ZenonT(40) DEF Fresh
<1>3. ASSUME NEW c \in Callers, Adopt(c) PROVE Fresh'
  <2> DEFINE host == NodeOf[c]
  <2>1. /\ host \in Nodes
        /\ current'[host] = prefetch[host] /\ prefetch'[host] = NoSegment
        /\ \A m \in Nodes : m # host => current'[m] = current[m] /\ prefetch'[m] = prefetch[m]
        /\ UNCHANGED <<nextValue, range, taken>>
    BY <1>3 DEF Adopt, TypeOK
  <2> HIDE DEF host
  <2> USE DEF Unused, Disjoint
  <2>f1. (\A k \in taken : k < nextValue)'
    BY <2>1, <1>z DEF Fresh
  <2>f2. (\A n \in Nodes : Unused(current[n]) /\ Unused(prefetch[n]))'
    BY <2>1, <1>z DEF Fresh
  <2>f3. (\A q \in Processes : Unused(range[q]))'
    BY <2>1, <1>z DEF Fresh
  <2>f4. (\A n, m \in Nodes : Disjoint(current[n], prefetch[m]))'
    BY <2>1, <1>z DEF Fresh
  <2>f5. (\A n, m \in Nodes :
              n # m => Disjoint(current[n], current[m]) /\ Disjoint(prefetch[n], prefetch[m]))'
    BY <2>1, <1>z DEF Fresh
  <2>f6. (\A n \in Nodes, q \in Processes :
              Disjoint(current[n], range[q]) /\ Disjoint(prefetch[n], range[q]))'
    BY <2>1, <1>z DEF Fresh
  <2>f7. (\A q, r \in Processes : q # r => Disjoint(range[q], range[r]))'
    BY <2>1, <1>z, ZenonT(40) DEF Fresh
  <2> QED BY <2>f1, <2>f2, <2>f3, <2>f4, <2>f5, <2>f6, <2>f7, ZenonT(40) DEF Fresh
<1>6. ASSUME NEW p \in Processes, InitCodeSequence(p) PROVE Fresh'
  <2>1. \A k \in Int : k < nextValue => k < nextValue'
    BY <1>6 DEF InitCodeSequence, InitSequence, NoRow, TypeOK
  <2> QED BY <1>6, <2>1, <1>s DEF InitCodeSequence
<1>7. ASSUME NEW p \in Processes, LeaseCodeRange(p) PROVE Fresh'
  <2>1. nextValue \in Nat
    BY <1>7 DEF LeaseCodeRange, Ready, TypeOK
  <2>2. nextValue' \in Nat /\ nextValue' >= nextValue
    BY <1>7, <2>1 DEF LeaseCodeRange
  <2>3. CASE range' = range
    <3>1. \A k \in Int : k < nextValue => k < nextValue'
      BY <2>1, <2>2
    <3> QED BY <1>7, <2>3, <3>1, <1>s DEF LeaseCodeRange
  <2>4. CASE /\ nextValue' = nextValue + BatchSize
             /\ range' = [range EXCEPT ![p] =
                            [next |-> nextValue, end |-> nextValue + BatchSize - 1]]
    <3>1. UNCHANGED <<current, prefetch, taken>>
      BY <1>7 DEF LeaseCodeRange
    <3>2. range'[p].next = nextValue /\ range'[p].end = nextValue' - 1
      BY <2>1, <2>4 DEF TypeOK
    <3>3. \A q \in Processes : q # p => range'[q] = range[q]
      BY <2>4 DEF TypeOK
    <3>4. \A k \in Numbers(range'[p]) : k \in Int /\ ~(k < nextValue) /\ k < nextValue'
      BY <2>1, <2>2, <3>2, InRange, ZenonT(40) DEF Numbers
    <3>5. \A k \in Int : k < nextValue => k < nextValue'
      BY <2>1, <2>2
    <3>6. /\ \A n \in Nodes : Numbers(current[n]) \subseteq Int /\ Numbers(prefetch[n]) \subseteq Int
          /\ \A q \in Processes : Numbers(range[q]) \subseteq Int
          /\ taken \subseteq Int
      BY DEF Numbers, TypeOK, Segments
    <3> USE DEF Unused, Disjoint
    <3>f1. (\A k \in taken : k < nextValue)'
      BY <3>1, <3>3, <3>4, <3>5, <3>6 DEF Fresh
    <3>f2. (\A n \in Nodes : Unused(current[n]) /\ Unused(prefetch[n]))'
      BY <3>1, <3>3, <3>4, <3>5, <3>6 DEF Fresh
    <3>f3. (\A q \in Processes : Unused(range[q]))'
      BY <3>1, <3>3, <3>4, <3>5, <3>6, ZenonT(40) DEF Fresh
    <3>f4. (\A n, m \in Nodes : Disjoint(current[n], prefetch[m]))'
      BY <3>1, <3>3, <3>4, <3>5, <3>6, ZenonT(40) DEF Fresh
    <3>f5. (\A n, m \in Nodes :
                n # m => Disjoint(current[n], current[m]) /\ Disjoint(prefetch[n], prefetch[m]))'
      BY <3>1, <3>3, <3>4, <3>5, <3>6, ZenonT(40) DEF Fresh
    <3>f6. (\A n \in Nodes, q \in Processes :
                Disjoint(current[n], range[q]) /\ Disjoint(prefetch[n], range[q]))'
      BY <3>1, <3>3, <3>4, <3>5, <3>6, ZenonT(40) DEF Fresh
    <3>f7. (\A q, r \in Processes : q # r => Disjoint(range[q], range[r]))'
      BY <3>1, <3>3, <3>4, <3>5, <3>6, ZenonT(40) DEF Fresh
    <3> QED BY <3>f1, <3>f2, <3>f3, <3>f4, <3>f5, <3>f6, <3>f7, ZenonT(40) DEF Fresh
  <2> QED BY <1>7, <2>3, <2>4 DEF LeaseCodeRange
<1>8. ASSUME NEW p \in Processes, StoreRange(p) PROVE Fresh'
  <2>1. Numbers(NoSegment) = {}
    BY DEF Numbers, NoSegment
  <2>2. /\ range'[p] = NoSegment
        /\ \A q \in Processes : q # p => range'[q] = range[q]
        /\ UNCHANGED <<nextValue, taken>>
    BY <1>8, ZenonT(40) DEF StoreRange, TypeOK
  <2>3. CASE p \in Callers
    <3>1. /\ NodeOf[p] \in Nodes
          /\ current'[NodeOf[p]] = range[p]
          /\ \A n \in Nodes : n # NodeOf[p] => current'[n] = current[n]
          /\ UNCHANGED prefetch
      BY <1>8, <2>3 DEF StoreRange, Host, TypeOK
    <3> USE DEF Unused, Disjoint
    <3>f1. (\A k \in taken : k < nextValue)'
      BY <2>1, <2>2, <3>1 DEF Fresh
    <3>f2. (\A n \in Nodes : Unused(current[n]) /\ Unused(prefetch[n]))'
      BY <2>1, <2>2, <3>1 DEF Fresh
    <3>f3. (\A q \in Processes : Unused(range[q]))'
      BY <2>1, <2>2, <3>1 DEF Fresh
    <3>f4. (\A n, m \in Nodes : Disjoint(current[n], prefetch[m]))'
      BY <2>1, <2>2, <3>1 DEF Fresh
    <3>f5. (\A n, m \in Nodes :
                n # m => Disjoint(current[n], current[m]) /\ Disjoint(prefetch[n], prefetch[m]))'
      BY <2>1, <2>2, <3>1 DEF Fresh
    <3>f6. (\A n \in Nodes, q \in Processes :
                Disjoint(current[n], range[q]) /\ Disjoint(prefetch[n], range[q]))'
      BY <2>1, <2>2, <3>1 DEF Fresh
    <3>f7. (\A q, r \in Processes : q # r => Disjoint(range[q], range[r]))'
      BY <2>1, <2>2, <3>1, ZenonT(40) DEF Fresh
    <3> QED BY <3>f1, <3>f2, <3>f3, <3>f4, <3>f5, <3>f6, <3>f7, ZenonT(40) DEF Fresh
  <2>4. CASE p \in Nodes
    <3>1. /\ prefetch'[p] = range[p]
          /\ \A n \in Nodes : n # p => prefetch'[n] = prefetch[n]
          /\ UNCHANGED current
      BY <1>8, <2>4 DEF StoreRange, TypeOK
    <3> USE DEF Unused, Disjoint
    <3>f1. (\A k \in taken : k < nextValue)'
      BY <2>1, <2>2, <2>4, <3>1 DEF Fresh
    <3>f2. (\A n \in Nodes : Unused(current[n]) /\ Unused(prefetch[n]))'
      BY <2>1, <2>2, <2>4, <3>1 DEF Fresh
    <3>f3. (\A q \in Processes : Unused(range[q]))'
      BY <2>1, <2>2, <2>4, <3>1 DEF Fresh
    <3>f4. (\A n, m \in Nodes : Disjoint(current[n], prefetch[m]))'
      BY <2>1, <2>2, <2>4, <3>1 DEF Fresh
    <3>f5. (\A n, m \in Nodes :
                n # m => Disjoint(current[n], current[m]) /\ Disjoint(prefetch[n], prefetch[m]))'
      BY <2>1, <2>2, <2>4, <3>1 DEF Fresh
    <3>f6. (\A n \in Nodes, q \in Processes :
                Disjoint(current[n], range[q]) /\ Disjoint(prefetch[n], range[q]))'
      BY <2>1, <2>2, <2>4, <3>1 DEF Fresh
    <3>f7. (\A q, r \in Processes : q # r => Disjoint(range[q], range[r]))'
      BY <2>1, <2>2, <2>4, <3>1, ZenonT(40) DEF Fresh
    <3> QED BY <3>f1, <3>f2, <3>f3, <3>f4, <3>f5, <3>f6, <3>f7, ZenonT(40) DEF Fresh
  <2> QED BY <2>3, <2>4
<1>10. ASSUME NEW n \in Nodes, Crash(n) PROVE Fresh'
  <2>1. \A m \in Nodes : /\ current'[m] \in {current[m], NoSegment}
                         /\ prefetch'[m] \in {prefetch[m], NoSegment}
    BY <1>10 DEF Crash, TypeOK
  <2>2. \A q \in Processes : range'[q] \in {range[q], NoSegment}
    BY <1>10 DEF Crash
  <2>3. UNCHANGED <<nextValue, taken>>
    BY <1>10 DEF Crash
  <2> QED BY <2>1, <2>2, <2>3, <1>s, <1>z
<1> QED
  BY <1>1, <1>2, <1>3, <1>6, <1>7, <1>8, <1>10
  DEF Next, NextSeq, LeaseRange, Call, Wait, Renew, LeaseFailed, vars

\* No number is handed out twice, by whichever instance and after whatever errors
\* and crashes: nextSeq takes numbers of ranges that nobody else holds.
THEOREM NumbersAreUnique == Spec => NeverTwice
<1>1. Init => AllocatorInv
  BY DEF Init, AllocatorInv, TypeOK, Ready, Fresh, Unused, Disjoint, Numbers, NoRow, NoSegment,
     Segments, Refused
<1>2. AllocatorInv /\ [Next]_vars => AllocatorInv'
  BY TypeKeeps, FreshKeeps, ZenonT(40) DEF AllocatorInv
<1> DEFINE New(c) ==
      pc[c] = "loop" /\ pc'[c] = "idle" /\ got'[c] # Refused => got'[c] \notin taken
<1>3. AllocatorInv /\ [Next]_vars => [\A c \in Callers : New(c)]_vars
  <2> SUFFICES ASSUME AllocatorInv, Next, NEW c \in Callers,
                      pc[c] = "loop", pc'[c] = "idle", got'[c] # Refused
               PROVE  got'[c] \notin taken
    BY ZenonT(40)
  <2> USE DEF AllocatorInv, TypeOK, Processes
  <2>1. ASSUME NEW d \in Callers, Take(d) PROVE got'[c] \notin taken
    <3>1. c = d
      BY <2>1 DEF Take
    <3>2. got'[c] = current[NodeOf[c]].next
      BY <2>1, <3>1 DEF Take, Code
    <3>3. current[NodeOf[c]].next \in Numbers(current[NodeOf[c]])
      BY <2>1, <3>1 DEF Take, HasNext, Numbers, Segments
    <3> QED BY <3>2, <3>3 DEF Fresh, Unused
  <2>2. ASSUME NEW n \in Nodes, Crash(n) PROVE got'[c] \notin taken
    BY <2>2, ZenonT(40) DEF Crash, Host
  <2>3. ASSUME NEW p \in Processes, LeaseRange(p) PROVE FALSE
    BY <2>3, ZenonT(40)
    DEF LeaseRange, InitCodeSequence, LeaseCodeRange, StoreRange, LeaseFailed, Release
  <2>4. ASSUME NEW d \in Callers, Call(d) \/ Adopt(d) \/ Wait(d) \/ Renew(d) PROVE FALSE
    BY <2>4 DEF Call, Adopt, Wait, Renew
  <2> QED BY <2>1, <2>2, <2>3, <2>4 DEF Next, NextSeq
<1> QED BY <1>1, <1>2, <1>3, PTL DEF Spec, NeverTwice

-----------------------------------------------------------------------------
(* One renewal at a time *)

\* Every step keeps the renewing flag in accordance with the goroutines that renew.
LEMMA OneRenewalKeeps == TypeOK /\ OneRenewal /\ [Next]_vars => OneRenewal'
<1> SUFFICES ASSUME TypeOK, OneRenewal, [Next]_vars PROVE OneRenewal'
  OBVIOUS
<1> USE DEF TypeOK, Processes
<1>h. /\ \A p \in Processes : Host(p) \in Nodes
      /\ \A c \in Callers : Host(c) = NodeOf[c]
      /\ \A n \in Nodes : Host(n) = n
  BY DEF Host
\* the four ways in which a step bears on the renewals
<1>a. ASSUME UNCHANGED renewing, \A q \in Processes : Renews(q)' <=> Renews(q)
      PROVE  OneRenewal'
  BY <1>a DEF OneRenewal
<1>b. ASSUME NEW p \in Processes, Host(p) \notin renewing, renewing' = renewing \cup {Host(p)},
             \A q \in Processes : Renews(q)' <=> Renews(q) \/ q = p
      PROVE  OneRenewal'
  BY <1>b, <1>h DEF OneRenewal
<1>c. ASSUME NEW p \in Processes, Renews(p), renewing' = renewing \ {Host(p)},
             \A q \in Processes : Renews(q)' <=> Renews(q) /\ q # p
      PROVE  OneRenewal'
  BY <1>c, <1>h DEF OneRenewal
<1>d. ASSUME NEW n \in Nodes, renewing' = renewing \ {n},
             \A q \in Processes : Renews(q)' <=> Renews(q) /\ Host(q) # n
      PROVE  OneRenewal'
  BY <1>d, <1>h DEF OneRenewal
<1>1. ASSUME NEW c \in Callers, Call(c) \/ Adopt(c) \/ Wait(c) PROVE OneRenewal'
  BY <1>1, <1>a DEF Call, Adopt, Wait, Renews
<1>2. ASSUME NEW c \in Callers, Take(c) PROVE OneRenewal'
  <2>1. CASE RunsLow(NodeOf[c], [current[NodeOf[c]] EXCEPT !.next = @ + 1])
    <3>1. /\ NodeOf[c] \in Nodes /\ NodeOf[c] \notin renewing
          /\ renewing' = renewing \cup {NodeOf[c]}
          /\ pc' = [pc EXCEPT ![c] = "idle", ![NodeOf[c]] = "lease"]
          /\ pc[c] = "loop"
      BY <1>2, <2>1 DEF Take, RunsLow
    <3>2. \A q \in Processes : Renews(q)' <=> Renews(q) \/ q = NodeOf[c]
      BY <3>1 DEF Renews
    <3> QED BY <3>1, <3>2, <1>b, <1>h
  <2>2. CASE UNCHANGED renewing /\ pc' = [pc EXCEPT ![c] = "idle"]
    BY <1>2, <2>2, <1>a DEF Take, Renews
  <2> QED BY <1>2, <2>1, <2>2 DEF Take
<1>3. ASSUME NEW c \in Callers, Renew(c) PROVE OneRenewal'
  BY <1>3, <1>b, <1>h DEF Renew, Renews
<1>4. ASSUME NEW p \in Processes, InitCodeSequence(p) \/ LeaseCodeRange(p) PROVE OneRenewal'
  BY <1>4, <1>a DEF InitCodeSequence, LeaseCodeRange, Renews
<1>5. ASSUME NEW p \in Processes, StoreRange(p) PROVE OneRenewal'
  BY <1>5, <1>c DEF StoreRange, Release, Renews
<1>6. ASSUME NEW p \in Processes, LeaseFailed(p) PROVE OneRenewal'
  BY <1>6, <1>c DEF LeaseFailed, Release, Renews
<1>7. ASSUME NEW n \in Nodes, Crash(n) PROVE OneRenewal'
  BY <1>7, <1>d, ZenonT(40) DEF Crash, Renews
<1>8. CASE UNCHANGED vars
  BY <1>8, <1>a DEF vars, Renews
<1> QED BY <1>1, <1>2, <1>3, <1>4, <1>5, <1>6, <1>7, <1>8 DEF Next, NextSeq, LeaseRange

\* An instance never has two renewals under way, and its renewing flag is set exactly
\* while it has one.
THEOREM RenewalsExclude == Spec => []OneRenewal
<1>1. Init => TypeOK /\ Ready /\ OneRenewal
  BY DEF Init, TypeOK, Ready, OneRenewal, Renews, NoRow, NoSegment, Segments, Refused, Processes,
     Host
<1>2. TypeOK /\ Ready /\ OneRenewal /\ [Next]_vars => (TypeOK /\ Ready /\ OneRenewal)'
  BY TypeKeeps, OneRenewalKeeps
<1> QED BY <1>1, <1>2, PTL DEF Spec

-----------------------------------------------------------------------------
(* No range is overwritten *)

\* A place that a renewal is to fill stays free until it is filled.
LEMMA SettledKeeps == TypeOK /\ OneRenewal /\ Settled /\ [Next]_vars => Settled'
<1> SUFFICES ASSUME TypeOK, OneRenewal, Settled, [Next]_vars PROVE Settled'
  OBVIOUS
<1> USE DEF TypeOK, Processes
<1>h. /\ \A c \in Callers : Host(c) = NodeOf[c] /\ NodeOf[c] \in Nodes
      /\ \A n \in Nodes : Host(n) = n
  BY ZenonT(40) DEF Host
<1>1. ASSUME NEW c \in Callers, Call(c) \/ Wait(c) \/ Renew(c) PROVE Settled'
  BY <1>1 DEF Call, Wait, Renew, Settled, Renews, Empty
<1>2. ASSUME NEW c \in Callers, Take(c) PROVE Settled'
  <2> DEFINE n == NodeOf[c]
  <2>1. \A d \in Callers : Renews(d) => NodeOf[d] # n
    BY <1>2 DEF Take, Settled, Empty
  <2>2. \A d \in Callers : Renews(d)' => Renews(d)
    BY <1>2, <1>h DEF Take, Renews
  <2>3. \A m \in Nodes : Renews(m)' => Renews(m) \/ prefetch[m] = NoSegment
    BY <1>2, <1>h DEF Take, Renews, RunsLow
  <2>4. \A p \in Processes : pc'[p] # "leased" => pc[p] # "leased" \/ p = n
    BY <1>2, <1>h DEF Take
  <2>5. pc'[n] # "leased" => pc[n] # "leased"
    BY <1>2, <1>h DEF Take, RunsLow, OneRenewal, Renews
  <2>6. \A m \in Nodes : m # n => current'[m] = current[m]
    BY <1>2, <1>h DEF Take
  <2>7. UNCHANGED <<prefetch, range>>
    BY <1>2, ZenonT(40) DEF Take
  <2> HIDE DEF n
  <2> QED BY <2>1, <2>2, <2>3, <2>4, <2>5, <2>6, <2>7, <1>h DEF Settled, Empty
<1>3. ASSUME NEW c \in Callers, Adopt(c) PROVE Settled'
  BY <1>3, <1>h, ZenonT(40) DEF Adopt, Settled, Renews, Empty
<1>4. ASSUME NEW p \in Processes, InitCodeSequence(p) \/ LeaseCodeRange(p) PROVE Settled'
  BY <1>4, <1>h, ZenonT(40) DEF InitCodeSequence, LeaseCodeRange, Settled, Renews, Empty
<1>5. ASSUME NEW p \in Processes, StoreRange(p) PROVE Settled'
  <2>1. \A q \in Processes : Renews(q)' => Renews(q) /\ q # p /\ Host(q) # Host(p)
    <3>1. \A q \in Processes : Renews(q)' => Renews(q) /\ q # p
      BY <1>5 DEF StoreRange, Release, Renews
    <3>2. Renews(p) /\ Host(p) \in Nodes
      BY <1>5, <1>h DEF StoreRange, Renews
    <3> QED BY <3>1, <3>2 DEF OneRenewal
  <2>2. \A n \in Nodes : n # Host(p) => current'[n] = current[n] /\ prefetch'[n] = prefetch[n]
    <3>1. CASE p \in Callers
      BY <1>5, <1>h, <3>1 DEF StoreRange
    <3>2. CASE p \in Nodes
      BY <1>5, <1>h, <3>2 DEF StoreRange
    <3> QED BY <3>1, <3>2
  <2>3. \A q \in Processes : pc'[q] # "leased" => range'[q] = NoSegment
    <3>1. range'[p] = NoSegment /\ \A q \in Processes : q # p => range'[q] = range[q]
      BY <1>5 DEF StoreRange
    <3>2. \A q \in Processes : q # p => (pc'[q] = "leased" <=> pc[q] = "leased")
      BY <1>5, ZenonT(40) DEF StoreRange, Release
    <3> QED BY <3>1, <3>2 DEF Settled
  <2>4. \A n \in Nodes : Renews(n)' => prefetch'[n] = NoSegment
    BY <2>1, <2>2, <1>h DEF Settled
  <2>5. \A c \in Callers : Renews(c)' => Empty(NodeOf[c])'
    BY <2>1, <2>2, <1>h DEF Settled, Empty
  <2> QED BY <2>3, <2>4, <2>5 DEF Settled
<1>6. ASSUME NEW p \in Processes, LeaseFailed(p) PROVE Settled'
  BY <1>6, ZenonT(40) DEF LeaseFailed, Release, Settled, Renews, Empty
<1>7. ASSUME NEW n \in Nodes, Crash(n) PROVE Settled'
  BY <1>7, <1>h DEF Crash, Settled, Renews, Empty
<1>8. CASE UNCHANGED vars
  BY <1>8, ZenonT(40) DEF vars, Settled, Renews, Empty
<1> QED BY <1>1, <1>2, <1>3, <1>4, <1>5, <1>6, <1>7, <1>8 DEF Next, NextSeq, LeaseRange

\* Without errors and crashes every step keeps account of the numbers below next_value.
LEMMA NothingWastedKeeps ==
  TypeOK /\ Ready /\ Settled /\ NothingWasted /\ [Next]_vars => NothingWasted'
<1> SUFFICES ASSUME TypeOK, Ready, Settled, NothingWasted, [Next]_vars,
                    faults' = 0, crashes' = 0
             PROVE  (taken \cup Held = 0 .. nextValue - 1)'
  BY DEF NothingWasted
<1> DEFINE All == taken \cup Held
           Goal == (All = 0 .. nextValue - 1)'
<1>h. /\ \A c \in Callers : Host(c) = NodeOf[c] /\ NodeOf[c] \in Nodes
      /\ \A n \in Nodes : Host(n) = n
  BY DEF Host, Processes
<1>z. Numbers(NoSegment) = {}
  BY DEF Numbers, NoSegment
<1>e. \A n \in Nodes : ~HasNext(current[n]) => Numbers(current[n]) = {}
  BY DEF Numbers, HasNext, Segments, TypeOK
<1>0. faults = 0 /\ crashes = 0 => All = 0 .. nextValue - 1
  BY DEF NothingWasted
<1>m. \A k : k \in All <=> \/ k \in taken
                           \/ \E n \in Nodes : k \in Numbers(current[n]) \/ k \in Numbers(prefetch[n])
                           \/ \E p \in Processes : k \in Numbers(range[p])
  BY DEF Held
<1>n. \A k : k \in All' <=> \/ k \in taken'
                            \/ \E n \in Nodes : k \in Numbers(current'[n]) \/ k \in Numbers(prefetch'[n])
                            \/ \E p \in Processes : k \in Numbers(range'[p])
  BY DEF Held
<1> HIDE DEF All
<1> USE DEF TypeOK, Processes
<1>1. ASSUME UNCHANGED <<nextValue, current, prefetch, range, taken, faults, crashes>> PROVE Goal
  <2>1. All' = All
    <3>1. \A k : k \in All' <=> k \in All
      BY <1>1, <1>m, <1>n
    <3> QED BY <3>1, ZenonT(40)
  <2> QED BY <1>1, <2>1, <1>0
<1>2. ASSUME NEW c \in Callers, Take(c) PROVE Goal
  <2> DEFINE n == NodeOf[c]
  <2>1. Numbers(current[n]) = Numbers(current'[n]) \cup {current[n].next}
    <3>1. current'[n].next = current[n].next + 1 /\ current'[n].end = current[n].end
      BY <1>2, <1>h DEF Take, Segments
    <3>2. current[n].next \in Nat /\ current[n].end \in Int /\ current[n].next <= current[n].end
      BY <1>2, <1>h DEF Segments, Take, HasNext
    <3> QED BY <3>1, <3>2 DEF Numbers
  <2>2. /\ \A m \in Nodes : m # n => current'[m] = current[m]
        /\ taken' = taken \cup {current[n].next}
        /\ UNCHANGED <<prefetch, range, nextValue, faults, crashes>>
    BY <1>2, <1>h DEF Take
  <2> HIDE DEF n
  <2>3. All' = All
    <3>1. \A k : k \in All' <=> k \in All
      BY <2>1, <2>2, <1>h, <1>m, <1>n, ZenonT(40) DEF n
    <3> QED BY <3>1, ZenonT(40)
  <2> QED BY <2>2, <2>3, <1>0, ZenonT(40)
<1>3. ASSUME NEW c \in Callers, Adopt(c) PROVE Goal
  <2>1. All' = All
    <3>1. \A k : k \in All' <=> k \in All
      BY <1>3, <1>h, <1>z, <1>e, <1>m, <1>n DEF Adopt
    <3> QED BY <3>1, ZenonT(40)
  <2> QED BY <1>3, <2>1, <1>0, ZenonT(40) DEF Adopt
<1>4. ASSUME NEW p \in Processes, InitCodeSequence(p) PROVE Goal
  <2>1. All' = All /\ faults = 0 /\ crashes = 0
    <3>1. /\ UNCHANGED <<current, prefetch, range, taken>>
          /\ faults = 0 /\ crashes = 0
      BY <1>4 DEF InitCodeSequence, Fault
    <3>2. \A k : k \in All' <=> k \in All
      BY <3>1, <1>m, <1>n
    <3> QED BY <3>1, <3>2, ZenonT(40)
  <2>2. 0 .. nextValue' - 1 = 0 .. nextValue - 1
    BY <1>4, <2>1 DEF InitCodeSequence, InitSequence, NoRow
  <2> QED BY <2>1, <2>2, <1>0
<1>5. ASSUME NEW p \in Processes, LeaseCodeRange(p) PROVE Goal
  <2>1. /\ nextValue \in Nat /\ nextValue' = nextValue + BatchSize
        /\ faults = 0 /\ crashes = 0
        /\ UNCHANGED <<current, prefetch, taken>>
        /\ range'[p].next = nextValue /\ range'[p].end = nextValue + BatchSize - 1
        /\ \A q \in Processes : q # p => range'[q] = range[q]
    BY <1>5 DEF LeaseCodeRange, Fault, Ready
  <2>2. range[p] = NoSegment
    BY <1>5 DEF LeaseCodeRange, Settled
  <2>3. All' = All \cup Numbers(range'[p])
    <3>1. \A k : k \in All' <=> k \in All \/ k \in Numbers(range'[p])
      BY <2>1, <2>2, <1>z, <1>m, <1>n, ZenonT(40)
    <3> QED BY <3>1, ZenonT(40)
  <2>4. (0 .. nextValue - 1) \cup (nextValue .. nextValue + BatchSize - 1)
          = 0 .. nextValue + BatchSize - 1
    BY <2>1
  <2> QED BY <2>1, <2>3, <2>4, <1>0 DEF Numbers
<1>6. ASSUME NEW p \in Processes, StoreRange(p) PROVE Goal
  <2>1. /\ range'[p] = NoSegment
        /\ \A q \in Processes : q # p => range'[q] = range[q]
        /\ UNCHANGED <<nextValue, taken, faults, crashes>>
    BY <1>6 DEF StoreRange
  <2>2. CASE p \in Callers
    <3>1. Numbers(current[NodeOf[p]]) = {}
      BY <1>6, <2>2, <1>e, <1>h DEF StoreRange, Settled, Renews, Empty
    <3>2. /\ current'[NodeOf[p]] = range[p]
          /\ \A n \in Nodes : n # NodeOf[p] => current'[n] = current[n]
          /\ UNCHANGED prefetch
      BY <1>6, <2>2, <1>h DEF StoreRange
    <3>3. All' = All
      <4> HIDE DEF TypeOK
      <4>1. ASSUME NEW k, k \in All' PROVE k \in All
        <5>1. CASE k \in taken' \/ \E n \in Nodes : k \in Numbers(prefetch'[n])
          BY <2>1, <3>2, <5>1, <1>m
        <5>2. CASE \E n \in Nodes : k \in Numbers(current'[n])
          BY <3>2, <5>2, <1>m
        <5>3. CASE \E q \in Processes : k \in Numbers(range'[q])
          BY <2>1, <5>3, <1>m, <1>z
        <5> QED BY <4>1, <5>1, <5>2, <5>3, <1>n
      <4>2. ASSUME NEW k, k \in All PROVE k \in All'
        <5>1. CASE k \in taken \/ \E n \in Nodes : k \in Numbers(prefetch[n])
          BY <2>1, <3>2, <5>1, <1>n, ZenonT(40)
        <5>2. CASE \E n \in Nodes : k \in Numbers(current[n])
          BY <3>1, <3>2, <5>2, <1>n, ZenonT(40)
        <5>3. CASE \E q \in Processes : k \in Numbers(range[q])
          BY <2>1, <2>2, <3>2, <5>3, <1>h, <1>n, ZenonT(40)
        <5> QED BY <4>2, <5>1, <5>2, <5>3, <1>m, ZenonT(40)
      <4> QED BY <4>1, <4>2
    <3> QED BY <2>1, <3>3, <1>0, ZenonT(40)
  <2>3. CASE p \in Nodes
    <3>1. Numbers(prefetch[p]) = {}
      BY <1>6, <2>3, <1>z DEF StoreRange, Settled, Renews
    <3>2. /\ prefetch'[p] = range[p]
          /\ \A n \in Nodes : n # p => prefetch'[n] = prefetch[n]
          /\ UNCHANGED current
      BY <1>6, <2>3 DEF StoreRange
    <3>3. All' = All
      <4>1. \A k : k \in All' <=> k \in All
        BY <2>1, <2>3, <3>1, <3>2, <1>z, <1>m, <1>n
      <4> QED BY <4>1, ZenonT(40)
    <3> QED BY <2>1, <3>3, <1>0
  <2> QED BY <2>2, <2>3, ZenonT(40)
<1>7. ASSUME NEW n \in Nodes, Crash(n) PROVE FALSE
  BY <1>7 DEF Crash
<1> QED
  BY <1>1, <1>2, <1>3, <1>4, <1>5, <1>6, <1>7
  DEF Next, NextSeq, LeaseRange, Call, Wait, Renew, LeaseFailed, vars, All

\* Without errors and crashes no number of a leased range is lost: no renewal
\* overwrites a range that still has numbers.
THEOREM RangesAreUsed == Spec => []NothingWasted
<1> DEFINE Inv == TypeOK /\ Ready /\ OneRenewal /\ Settled /\ NothingWasted
<1>1. Init => Inv
  <2> SUFFICES ASSUME Init PROVE Inv
    BY ZenonT(40)
  <2>1. TypeOK /\ Ready /\ OneRenewal /\ Settled
    BY DEF Init, TypeOK, Ready, OneRenewal, Settled, Renews, NoRow, NoSegment, Segments, Refused,
       Processes, Host
  <2>2. Held = {} /\ taken = {}
    BY DEF Init, Held, Numbers, NoSegment
  <2> QED BY <2>1, <2>2 DEF Init, NothingWasted, NoRow
<1>2. Inv /\ [Next]_vars => Inv'
  BY TypeKeeps, OneRenewalKeeps, SettledKeeps, NothingWastedKeeps
<1> QED BY <1>1, <1>2, PTL DEF Spec
=============================================================================
