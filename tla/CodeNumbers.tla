----------------------------- MODULE CodeNumbers -----------------------------
(* The visible numbers of merchants, customers and accounts: fixed digits, a
   sequence number padded to its width and a Luhn check digit.  CodeAllocator
   models how a process draws the sequence numbers of one code type and scope;
   here a draw is any number the scope has not given out.  The scope of an account
   number is the digits in front of its sequence number, which two merchants share
   when their hashes do.                                                        *)
EXTENDS Integers, Sequences, FiniteSets, FiniteSetsExt, SequencesExt

CONSTANTS
  Merchants, AccountTypes,
  Mapping,       \* FNV hash of a merchant number, modulo 10000
  Sequence,      \* the sequence numbers that can be drawn
  merchantSeqDigits, customerSeqDigits, accountSeqDigits,   \* 10, 10 and 6 in the code
  MaxCalls       \* bound: numbers drawn

ASSUME CodeNumbersAssumption ==
  /\ Mapping \in [Merchants -> 0..9999] /\ Sequence \subseteq Nat
  /\ {merchantSeqDigits, customerSeqDigits, accountSeqDigits} \subseteq Nat \ {0}

VARIABLES
  used,    \* code_sequence: the numbers each scope has given out
  issued,  \* the codes that calls have returned
  calls

vars == <<used, issued, calls>>

-----------------------------------------------------------------------------
\* fmt's %0*d: the decimal digits of n, at least w of them
Padded(n, w) ==
  LET width == Min({k \in w..(w + 3) : n < 10^k})
  IN [i \in 1..width |-> (n \div 10^(width - i)) % 10]

\* mutant: the two digits of a doubled digit are not added up
DoubledModulo(d) == (2 * d) % 10
Doubled(d) == IF 2 * d > 9 THEN 2 * d - 9 ELSE 2 * d

\* the sum over v from its last digit on, with every other digit doubled
LuhnSum(v, doubleLast) ==
  MapThenSumSet(LAMBDA i : IF ((Len(v) - i) % 2 = 0) = doubleLast THEN Doubled(v[i]) ELSE v[i],
                DOMAIN v)

computeLuhnCheckDigit(body) == (10 - (LuhnSum(body, TRUE) % 10)) % 10

appendLuhn(body) == Append(body, computeLuhnCheckDigit(body))

isValidLuhn(v) == v # << >> /\ LuhnSum(v, FALSE) % 10 = 0

onlyDigits(v) == \A i \in DOMAIN v : v[i] \in 0..9
hasExactDigits(v, n) == Len(v) = n /\ onlyDigits(v)

defaultBIN == <<6, 2, 1, 7, 7, 0>>
\* region 000 and version 1
RegionVersion == <<0, 0, 0, 1>>
Prefix(kind) == IF kind = "MERCHANT_NO" THEN <<1>> ELSE <<2>>

IsValidMerchantNo(v) ==
  hasExactDigits(v, 6 + merchantSeqDigits) /\ v[1] = 1 /\ isValidLuhn(v)
IsValidCustomerNo(v) ==
  hasExactDigits(v, 6 + customerSeqDigits) /\ v[1] = 2 /\ isValidLuhn(v)
IsValidAccountNo(v) == hasExactDigits(v, 13 + accountSeqDigits) /\ isValidLuhn(v)

IsValid(kind, v) ==
  CASE kind = "MERCHANT_NO" -> IsValidMerchantNo(v)
    [] kind = "CUSTOMER_NO" -> IsValidCustomerNo(v)
    [] kind = "ACCOUNT_NO" -> IsValidAccountNo(v)

merchantMapping(m) == Padded(Mapping[m], 4)

accountTypeCode(t) ==
  CASE t = "BUDGET" -> <<0, 1>>
    [] t = "RECEIVABLE" -> <<0, 2>>
    [] t = "CUSTOMER" -> <<1, 0>>
    [] OTHER -> <<1, 1>>

-----------------------------------------------------------------------------
\* mutant: every merchant has sequences of its own
ScopeKeyOfMerchant(m, t) == <<m, accountTypeCode(t)>>
ScopeKey(m, t) == defaultBIN \o merchantMapping(m) \o accountTypeCode(t)

\* merchants and customers are numbered in one sequence each
globalScopeKey == << >>

\* mutant: the first number with a digit too many is let through
ExhaustedLate(seq, digits) == seq > 10^digits
Exhausted(seq, digits) == seq >= 10^digits

Scopes ==
  ({"MERCHANT_NO", "CUSTOMER_NO"} \X {globalScopeKey})
    \cup {<<"ACCOUNT_NO", ScopeKey(m, t)>> : m \in Merchants, t \in AccountTypes}

\* nextSeq: a number of the scope that no call has had; a number past the digits is
\* used up and answered with an error
Draw(kind, scope, seq, digits, body) ==
  /\ calls < MaxCalls /\ calls' = calls + 1
  /\ seq \notin used[<<kind, scope>>]
  /\ used' = [used EXCEPT ![<<kind, scope>>] = @ \cup {seq}]
  /\ issued' = IF Exhausted(seq, digits) THEN issued
               ELSE Append(issued, [kind |-> kind, code |-> appendLuhn(body)])

NewMerchantNo(seq) ==
  Draw("MERCHANT_NO", globalScopeKey, seq, merchantSeqDigits,
       Prefix("MERCHANT_NO") \o RegionVersion \o Padded(seq, merchantSeqDigits))

NewCustomerNo(seq) ==
  Draw("CUSTOMER_NO", globalScopeKey, seq, customerSeqDigits,
       Prefix("CUSTOMER_NO") \o RegionVersion \o Padded(seq, customerSeqDigits))

NewAccountNo(m, t, seq) ==
  Draw("ACCOUNT_NO", ScopeKey(m, t), seq, accountSeqDigits,
       defaultBIN \o merchantMapping(m) \o accountTypeCode(t) \o Padded(seq, accountSeqDigits))

Init == used = [s \in Scopes |-> {}] /\ issued = << >> /\ calls = 0

Next ==
  \E seq \in Sequence :
    \/ NewMerchantNo(seq) \/ NewCustomerNo(seq)
    \/ \E m \in Merchants, t \in AccountTypes : NewAccountNo(m, t, seq)

Spec == Init /\ [][Next]_vars

-----------------------------------------------------------------------------
(* Properties *)

\* docs/CODE_RULES.md: a number that is returned has the length, the prefix and the
\* check digit of its kind, up to the last number of its sequence and past it
CodesWellFormed == \A i \in DOMAIN issued : IsValid(issued[i].kind, issued[i].code)

\* no number is returned twice, also not for two merchants whose hashes collide or for
\* two account types that have the same code
CodesDistinct == \A i, j \in DOMAIN issued : issued[i].code = issued[j].code => i = j

\* the check digit does its work: a number with one digit wrong, or with two neighbours
\* exchanged, is not valid; the exchange of 0 and 9 is the one that Luhn cannot see
MistypedIsRefused ==
  issued # << >> =>
    LET v == Last(issued).code
    IN /\ \A i \in DOMAIN v : \A d \in (0..9) \ {v[i]} : ~isValidLuhn([v EXCEPT ![i] = d])
       /\ \A i \in 1..(Len(v) - 1) :
            isValidLuhn([v EXCEPT ![i] = v[i + 1], ![i + 1] = v[i]])
              <=> v[i] = v[i + 1] \/ {v[i], v[i + 1]} = {0, 9}
=============================================================================
