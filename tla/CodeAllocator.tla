---------------------------- MODULE CodeAllocator ----------------------------
(***************************************************************************)
(* The allocator of merchant, customer and account numbers                 *)
(* (dbCodeProvider), for one code type and scope.                          *)
(*                                                                         *)
(* Instances lease ranges of a sequence kept in PostgreSQL and hand their  *)
(* numbers out from memory.  Callers share the bucket of their instance    *)
(* under a mutex: a current range, a prefetched one and a flag that a      *)
(* renewal is under way.  A renewal is done by a caller that found nothing *)
(* left, or in the background once a range runs low.                       *)
(***************************************************************************)
EXTENDS Integers

CONSTANTS
  Nodes,         \* server instances; n also names the renewAsync goroutine of n
  Callers,       \* goroutines that ask for numbers
  NodeOf,        \* NodeOf[c]: the instance a caller runs in
  BatchSize, LowWatermark,
  Capacity,      \* pow10 of the digits that a code has for its number
  MaxCalls,      \* bound: calls in a behaviour
  MaxFaults,     \* bound: database errors in a behaviour
  MaxCrashes     \* bound: instance crashes in a behaviour

ASSUME ProcessAssumption == NodeOf \in [Callers -> Nodes] /\ Nodes \cap Callers = {}
ASSUME RangeAssumption ==
  BatchSize \in Nat \ {0} /\ LowWatermark \in Nat /\ Capacity \in Nat
ASSUME BoundAssumption == MaxCalls \in Nat /\ MaxFaults \in Nat /\ MaxCrashes \in Nat

Processes == Nodes \cup Callers
Host(p) == IF p \in Nodes THEN p ELSE NodeOf[p]

NoRow == -1
Segments == [next : Nat, end : Int]
\* an invalid segment, a nil prefetch
NoSegment == [next |-> 0, end |-> -1]

VARIABLES
  nextValue,   \* code_sequence.next_value; NoRow before the first lease
  inited,      \* instances with the sequence in codeSequenceInitOnce
  current, prefetch,  \* bucket.current, bucket.prefetch of an instance
  renewing,    \* instances with bucket.renewing set
  pc,          \* where a process is
  range,       \* the range that LeaseRange returned to a process
  taken,       \* numbers taken from a segment
  got,         \* what the last call of a caller returned
  calls, faults, crashes

vars == <<nextValue, inited, current, prefetch, renewing, pc, range, taken,
          got, calls, faults, crashes>>

-----------------------------------------------------------------------------
HasNext(seg) == seg.next <= seg.end
Remaining(seg) == IF HasNext(seg) THEN seg.end - seg.next + 1 ELSE 0
Refused == -1

\* a number with too many digits is ErrCodeSequenceExhausted
Code(seq) == IF seq >= Capacity THEN Refused ELSE seq

Fault == faults < MaxFaults /\ faults' = faults + 1

\* nothing to hand out at instance n
Empty(n) == ~HasNext(current[n]) /\ ~HasNext(prefetch[n])

(* nextSeq, one pass of its loop at a time; the mutex is held during each action
   but not between them *)

\* NewMerchantNo, NewCustomerNo, NewAccountNo
Call(c) ==
  /\ pc[c] = "idle" /\ calls < MaxCalls
  /\ calls' = calls + 1
  /\ pc' = [pc EXCEPT ![c] = "loop"]
  /\ UNCHANGED <<nextValue, inited, current, prefetch, renewing, range, taken, got, faults, crashes>>

\* mutant: a range is prefetched although there is one already
RunsLowAgain(n, seg) == Remaining(seg) <= LowWatermark /\ n \notin renewing

\* the current range of n is low, and nobody has seen to it
RunsLow(n, seg) ==
  /\ Remaining(seg) <= LowWatermark
  /\ prefetch[n] = NoSegment
  /\ n \notin renewing

\* mutant: the last number of a range stays in it
TakeKeepingLast(c) ==
  LET n == NodeOf[c]
      left == [current[n] EXCEPT !.next = IF @ < current[n].end THEN @ + 1 ELSE @]
  IN
  /\ pc[c] = "loop" /\ HasNext(current[n])
  /\ current' = [current EXCEPT ![n] = left]
  /\ taken' = taken \cup {current[n].next}
  /\ got' = [got EXCEPT ![c] = Code(current[n].next)]
  /\ pc' = [pc EXCEPT ![c] = "idle"]
  /\ UNCHANGED <<nextValue, inited, prefetch, renewing, range, calls, faults, crashes>>

\* a number is taken and, if the range runs low, renewAsync is started
Take(c) ==
  LET n == NodeOf[c]
      left == [current[n] EXCEPT !.next = @ + 1]
  IN
  /\ pc[c] = "loop" /\ HasNext(current[n])
  /\ current' = [current EXCEPT ![n] = left]
  /\ taken' = taken \cup {current[n].next}
  /\ got' = [got EXCEPT ![c] = Code(current[n].next)]
  /\ IF RunsLow(n, left)
     THEN /\ renewing' = renewing \cup {n}
          /\ pc' = [pc EXCEPT ![c] = "idle", ![n] = "lease"]
     ELSE /\ pc' = [pc EXCEPT ![c] = "idle"]
          /\ UNCHANGED renewing
  /\ UNCHANGED <<nextValue, inited, prefetch, range, calls, faults, crashes>>

\* the prefetched range becomes the current one
Adopt(c) ==
  LET n == NodeOf[c] IN
  /\ pc[c] = "loop" /\ ~HasNext(current[n]) /\ HasNext(prefetch[n])
  /\ current' = [current EXCEPT ![n] = prefetch[n]]
  /\ prefetch' = [prefetch EXCEPT ![n] = NoSegment]
  /\ UNCHANGED <<nextValue, inited, renewing, pc, range, taken, got, calls, faults, crashes>>

\* cond.Wait
Wait(c) ==
  /\ pc[c] = "loop" /\ Empty(NodeOf[c]) /\ NodeOf[c] \in renewing
  /\ pc' = [pc EXCEPT ![c] = "wait"]
  /\ UNCHANGED <<nextValue, inited, current, prefetch, renewing, range, taken, got, calls,
                 faults, crashes>>

\* the caller renews the range itself
Renew(c) ==
  /\ pc[c] = "loop" /\ Empty(NodeOf[c]) /\ NodeOf[c] \notin renewing
  /\ renewing' = renewing \cup {NodeOf[c]}
  /\ pc' = [pc EXCEPT ![c] = "lease"]
  /\ UNCHANGED <<nextValue, inited, current, prefetch, range, taken, got, calls, faults, crashes>>

-----------------------------------------------------------------------------
(* LeaseRange, by a caller or by renewAsync, without the mutex *)

\* INSERT ... ON CONFLICT DO NOTHING
InitSequence == nextValue' = IF nextValue = NoRow THEN 0 ELSE nextValue

\* the first lease of an instance; an error ends it
InitCodeSequence(p) ==
  /\ pc[p] = "lease" /\ Host(p) \notin inited
  /\ \/ /\ InitSequence
        /\ inited' = inited \cup {Host(p)}
        /\ UNCHANGED <<pc, faults>>
     \/ /\ Fault
        /\ InitSequence \/ UNCHANGED nextValue
        /\ pc' = [pc EXCEPT ![p] = "failed"]
        /\ UNCHANGED inited
  /\ UNCHANGED <<current, prefetch, renewing, range, taken, got, calls, crashes>>

\* UPDATE ... RETURNING; an error leaves it done or not.  That it finds no row cannot
\* happen: InitCodeSequence was first, and no statement deletes a sequence.
LeaseCodeRange(p) ==
  /\ pc[p] = "lease" /\ Host(p) \in inited
  /\ \/ /\ nextValue' = nextValue + BatchSize
        /\ range' = [range EXCEPT ![p] =
                       [next |-> nextValue, end |-> nextValue + BatchSize - 1]]
        /\ pc' = [pc EXCEPT ![p] = "leased"]
        /\ UNCHANGED faults
     \/ /\ Fault
        /\ nextValue' \in {nextValue, nextValue + BatchSize}
        /\ pc' = [pc EXCEPT ![p] = "failed"]
        /\ UNCHANGED range
  /\ UNCHANGED <<inited, current, prefetch, renewing, taken, got, calls, crashes>>

-----------------------------------------------------------------------------
(* After LeaseRange, with the mutex again *)

\* mutant: nobody is woken up
ReleaseSilently(p, label) ==
  /\ renewing' = renewing \ {Host(p)}
  /\ pc' = [pc EXCEPT ![p] = label]

\* renewing is reset and cond.Broadcast wakes the waiting callers of the instance
Release(p, label) ==
  /\ renewing' = renewing \ {Host(p)}
  /\ pc' = [q \in Processes |->
              IF q = p THEN label
              ELSE IF pc[q] = "wait" /\ Host(q) = Host(p) THEN "loop" ELSE pc[q]]

\* a caller goes on with its range, renewAsync leaves it as the prefetched one
StoreRange(p) ==
  /\ pc[p] = "leased"
  /\ range' = [range EXCEPT ![p] = NoSegment]
  /\ \/ /\ p \in Callers
        /\ current' = [current EXCEPT ![Host(p)] = range[p]]
        /\ Release(p, "loop")
        /\ UNCHANGED prefetch
     \/ /\ p \in Nodes
        /\ prefetch' = [prefetch EXCEPT ![p] = range[p]]
        /\ Release(p, "idle")
        /\ UNCHANGED current
  /\ UNCHANGED <<nextValue, inited, taken, got, calls, faults, crashes>>

\* a caller returns ErrCodeAllocatorUnavailable, renewAsync just ends
LeaseFailed(p) ==
  /\ pc[p] = "failed"
  /\ Release(p, "idle")
  /\ got' = IF p \in Callers THEN [got EXCEPT ![p] = Refused] ELSE got
  /\ UNCHANGED <<nextValue, inited, current, prefetch, range, taken, calls, faults, crashes>>

\* an instance dies: its ranges are lost, the sequence remains
Crash(n) ==
  /\ crashes < MaxCrashes
  /\ crashes' = crashes + 1
  /\ inited' = inited \ {n}
  /\ current' = [current EXCEPT ![n] = NoSegment]
  /\ prefetch' = [prefetch EXCEPT ![n] = NoSegment]
  /\ renewing' = renewing \ {n}
  /\ pc' = [p \in Processes |-> IF Host(p) = n THEN "idle" ELSE pc[p]]
  /\ range' = [p \in Processes |-> IF Host(p) = n THEN NoSegment ELSE range[p]]
  /\ got' = [c \in Callers |-> IF NodeOf[c] = n THEN Refused ELSE got[c]]
  /\ UNCHANGED <<nextValue, taken, calls, faults>>

-----------------------------------------------------------------------------
Init ==
  /\ nextValue = NoRow
  /\ inited = {}
  /\ current = [n \in Nodes |-> NoSegment]
  /\ prefetch = [n \in Nodes |-> NoSegment]
  /\ renewing = {}
  /\ pc = [p \in Processes |-> "idle"]
  /\ range = [p \in Processes |-> NoSegment]
  /\ taken = {}
  /\ got = [c \in Callers |-> Refused]
  /\ calls = 0 /\ faults = 0 /\ crashes = 0

NextSeq(c) == Take(c) \/ Adopt(c) \/ Wait(c) \/ Renew(c)
LeaseRange(p) == InitCodeSequence(p) \/ LeaseCodeRange(p) \/ StoreRange(p) \/ LeaseFailed(p)

Next ==
  \/ \E c \in Callers : Call(c) \/ NextSeq(c)
  \/ \E p \in Processes : LeaseRange(p)
  \/ \E n \in Nodes : Crash(n)

Spec == Init /\ [][Next]_vars

\* goroutines that can run do run; a caller asks when it likes
Fairness ==
  /\ \A c \in Callers : WF_vars(NextSeq(c))
  /\ \A p \in Processes : WF_vars(LeaseRange(p))

FairSpec == Spec /\ Fairness

-----------------------------------------------------------------------------
(* Properties *)

\* The row, the segments and the answers stay in their ranges; no code has more
\* digits than its format allows.
TypeOK ==
  /\ nextValue \in Nat \cup {NoRow}
  /\ inited \subseteq Nodes
  /\ current \in [Nodes -> Segments]
  /\ prefetch \in [Nodes -> Segments]
  /\ renewing \subseteq Nodes
  /\ pc \in [Processes -> {"idle", "loop", "wait", "lease", "leased", "failed"}]
  /\ range \in [Processes -> Segments]
  /\ taken \subseteq Nat
  /\ got \in [Callers -> (0 .. Capacity - 1) \cup {Refused}]
  /\ calls \in 0 .. MaxCalls /\ faults \in 0 .. MaxFaults /\ crashes \in 0 .. MaxCrashes

\* No number is handed out twice, by whichever instance, before or after a restart,
\* a failed lease or a lost answer of the database.
NeverTwice ==
  [][\A c \in Callers :
       pc[c] = "loop" /\ pc'[c] = "idle" /\ got'[c] # Refused => got'[c] \notin taken]_vars

Renews(p) == pc[p] \in {"lease", "leased", "failed"}

\* At most one renewal of an instance is under way, a caller's or the background
\* one, and the renewing flag says so.
OneRenewal ==
  \A n \in Nodes :
    /\ n \in renewing <=> \E p \in Processes : Host(p) = n /\ Renews(p)
    /\ \A p, q \in Processes :
         Host(p) = n /\ Host(q) = n /\ Renews(p) /\ Renews(q) => p = q

Numbers(seg) == seg.next .. seg.end
Held == (UNION {Numbers(current[n]) \cup Numbers(prefetch[n]) : n \in Nodes})
          \cup (UNION {Numbers(range[p]) : p \in Processes})

\* Without errors and crashes every number below next_value has been handed out or
\* is held by an instance: no renewal overwrites a range that is not used up.
NothingWasted ==
  faults = 0 /\ crashes = 0 => taken \cup Held = 0 .. nextValue - 1

\* A call returns, with a number or an error, although callers sleep on a condition
\* variable while another goroutine's lease may fail or its range be used up by others.
CallsReturn == \A c \in Callers : pc[c] = "loop" ~> pc[c] = "idle"

-----------------------------------------------------------------------------
(* The inductive invariants of CodeAllocatorProofs *)

\* an instance that skips InitCodeSequence finds the row
Ready == inited # {} => nextValue # NoRow

Disjoint(a, b) == Numbers(a) \cap Numbers(b) = {}
Unused(seg) == \A k \in Numbers(seg) : k < nextValue /\ k \notin taken

\* no number is in two places, and what is held was leased and not handed out
Fresh ==
  /\ \A k \in taken : k < nextValue
  /\ \A n \in Nodes : Unused(current[n]) /\ Unused(prefetch[n])
  /\ \A p \in Processes : Unused(range[p])
  /\ \A n, m \in Nodes : Disjoint(current[n], prefetch[m])
  /\ \A n, m \in Nodes :
       n # m => Disjoint(current[n], current[m]) /\ Disjoint(prefetch[n], prefetch[m])
  /\ \A n \in Nodes, p \in Processes :
       Disjoint(current[n], range[p]) /\ Disjoint(prefetch[n], range[p])
  /\ \A p, q \in Processes : p # q => Disjoint(range[p], range[q])

\* a renewal has a free place to put its range
Settled ==
  /\ \A n \in Nodes : Renews(n) => prefetch[n] = NoSegment
  /\ \A c \in Callers : Renews(c) => Empty(NodeOf[c])
  /\ \A p \in Processes : pc[p] # "leased" => range[p] = NoSegment
=============================================================================
