--------------------------- MODULE LedgerContract ---------------------------
(***************************************************************************)
(* What the ledger promises its merchants, without workers, queues, keys   *)
(* or crashes.  A request is accepted; then either it is rejected and has  *)
(* moved nothing, or its amount leaves one account and later reaches the   *)
(* other, once each.  What an account holds and what a transfer can still  *)
(* be refunded are not stored: both are sums over the entries of a journal *)
(* that only grows.                                                        *)
(***************************************************************************)
EXTENDS Integers, Sums

CONSTANTS
  Txns, Accounts,
  From, To,    \* accounts of a txn
  Amt,         \* its amount
  RefundOf,    \* RefundOf[t]: the transfers that t refunds, none or one
  Opening,     \* what an account holds before the first entry
  Lowest,      \* what an account may not be taken below ...
  Unlimited    \* ... unless it is one of these

VARIABLES accepted, rejected, journal

contractVars == <<accepted, rejected, journal>>

Entries == Txns \X {"debit", "credit"}

Debited(t) == <<t, "debit">> \in journal
Settled(t) == <<t, "credit">> \in journal

Holds(a) ==
  Opening[a] + SumOver(Amt, {t \in Txns : Settled(t) /\ To[t] = a})
             - SumOver(Amt, {t \in Txns : Debited(t) /\ From[t] = a})

LeftToRefund(o) == Amt[o] - SumOver(Amt, {t \in Txns : Debited(t) /\ o \in RefundOf[t]})

-----------------------------------------------------------------------------
Accept(t) ==
  /\ t \notin accepted
  /\ accepted' = accepted \cup {t}
  /\ UNCHANGED <<rejected, journal>>

\* the amount leaves the account: funds cover it, and so does the refunded transfer
Debit(t) ==
  /\ t \in accepted \ rejected
  /\ ~Debited(t)
  /\ From[t] \in Unlimited \/ Holds(From[t]) - Amt[t] >= Lowest[From[t]]
  /\ \A o \in RefundOf[t] : Settled(o) /\ LeftToRefund(o) >= Amt[t]
  /\ journal' = journal \cup {<<t, "debit">>}
  /\ UNCHANGED <<accepted, rejected>>

\* the amount reaches the other account
Settle(t) ==
  /\ Debited(t) /\ ~Settled(t)
  /\ journal' = journal \cup {<<t, "credit">>}
  /\ UNCHANGED <<accepted, rejected>>

\* the request is turned down, which is final
Reject(t) ==
  /\ t \in accepted \ rejected
  /\ ~Debited(t)
  /\ rejected' = rejected \cup {t}
  /\ UNCHANGED <<accepted, journal>>

ContractInit == accepted = {} /\ rejected = {} /\ journal = {}

ContractNext ==
  \E t \in Txns : Accept(t) \/ Debit(t) \/ Settle(t) \/ Reject(t)

ContractSpec == ContractInit /\ [][ContractNext]_contractVars
=============================================================================
