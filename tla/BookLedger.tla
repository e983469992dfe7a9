----------------------------- MODULE BookLedger -----------------------------
(***************************************************************************)
(* Accounts with expiry books (book_enabled = true): the rows of           *)
(* account_book, one for each expiry date of an account, under the two     *)
(* stages of a txn.  A debit first writes the expired books off to the     *)
(* merchant's write-off account, then takes its amount from the books that *)
(* expire first.  A credit goes to the book of the txn's expiry date, of a *)
(* peer-to-peer transfer to the dates it was taken from, of a refund to    *)
(* new dates that restore the days the money had left.                     *)
(*                                                                         *)
(* A stage is one PostgreSQL transaction under the row locks of its txn    *)
(* and its account, and one action here; TxnPipeline models how stages are *)
(* scheduled.  Time is counted in the windows of 2^16 ms in which the      *)
(* first 8 digits of a UUIDv7 do not change; a day has several of them.    *)
(* Dates are days.  All accounts belong to one merchant.                   *)
(***************************************************************************)
EXTENDS Integers, Sequences, FiniteSets, FiniteSetsExt, Sums

CONSTANTS
  Txns,               \* txn numbers, one for each request of a client
  Accounts,           \* account numbers, the write-off account not among them
  Req,                \* Req[t]: what the request behind txn t asks for
  BookEnabled,        \* accounts with book_enabled, fixed at creation
  AllowOverdraft,     \* accounts with allow_overdraft, fixed at creation
  MaxOverdraftLimit,  \* account.max_overdraft_limit, 0 = unlimited
  NoExpire,           \* noExpireBookDate, 9999-12-31
  MaxDays,            \* the days a time.Duration can hold, 106751
  WindowsPerDay,      \* bound: UUIDv7 windows in a day
  MaxClock            \* bound: windows in a behaviour

Scenes == {"ISSUE", "CONSUME", "P2P"}
Requests ==
  [biz : {"TRANSFER", "REFUND"}, scene : Scenes, debit : Accounts,
   credit : Accounts, amount : Nat \ {0}, days : Nat, origin : Txns]

ASSUME BookReqAssumption == Req \in [Txns -> Requests]
\* a behaviour is about the finitely many rows it touches
ASSUME BookFiniteAssumption == IsFiniteSet(Txns) /\ IsFiniteSet(Accounts)
ASSUME BookAccountAssumption ==
  /\ BookEnabled \subseteq Accounts
  /\ AllowOverdraft \subseteq Accounts
  /\ MaxOverdraftLimit \in [Accounts -> Nat]
\* no date that a request or a refund can ask for reaches noExpireBookDate
ASSUME DateAssumption ==
  /\ WindowsPerDay \in Nat \ {0} /\ MaxClock \in Nat /\ NoExpire \in Nat
  /\ MaxDays \in Nat \ {0} /\ MaxClock \div WindowsPerDay + 1 + MaxDays < NoExpire
  /\ \A t \in Txns : MaxClock \div WindowsPerDay + 1 + Req[t].days < NoExpire

VARIABLES
  clock,      \* the window of time.Now()
  status,     \* txn.status; "NONE": there is no row
  refundable, \* txn.refundable_amount
  expireAt,   \* txn.credit_expire_at; 0: NULL
  balance,    \* account.balance
  book,       \* account_book: balance by expire_at, of the rows that exist
  taken,      \* account_book_change_log: the rows of a txn with a negative delta
  given,      \* account_book_change_log: the rows of a txn with a positive delta
  writeoffs,  \* txns of scene EXPIRE_WRITEOFF, by account and window
  writeoff,   \* balance of the merchant's write-off account
  restored,   \* history: what the credit of a refund restored of every row of its origin
  overlapped  \* history: txns of which two refunds were between their stages together

history == <<restored, overlapped>>
vars == <<clock, status, refundable, expireAt, balance, book, taken, given, writeoffs, writeoff,
          history>>

Day(c) == 1 + c \div WindowsPerDay
Today == Day(clock)

IsRefund(t) == Req[t].biz = "REFUND"
Origin(t) == Req[t].origin
Amount(t) == Req[t].amount
Amounts == [t \in Txns |-> Amount(t)]
DebitAccount(t) == IF IsRefund(t) THEN Req[Origin(t)].credit ELSE Req[t].debit
CreditAccount(t) == IF IsRefund(t) THEN Req[Origin(t)].debit ELSE Req[t].credit

\* of a sequence of parts: the sum of the amounts, and of those with one date
AmountsOf(parts) == [i \in DOMAIN parts |-> parts[i].amount]
Total(parts) == SumOver(AmountsOf(parts), DOMAIN parts)
TotalAt(parts, e) == SumOver(AmountsOf(parts), {i \in DOMAIN parts : parts[i].expire = e})
Lowest(m, n) == IF m < n THEN m ELSE n

-----------------------------------------------------------------------------
(* Submission.  TransferService.Submit is modelled in detail in TxnPipeline. *)

\* handleCredit and handleTransfer: the expiry of what a book account receives.  A
\* credit without expire_in_days has none.
CreditExpireAt(t) ==
  IF /\ Req[t].credit \in BookEnabled /\ Req[t].days > 0
     /\ Req[t].scene = "P2P" => Req[t].debit \notin BookEnabled
  THEN Today + Req[t].days ELSE 0

\* handleDebit and handleTransfer refuse a request that does not fit the books
Accepted(t) ==
  /\ Req[t].scene = "CONSUME" => Req[t].credit \notin BookEnabled
  /\ (Req[t].scene = "P2P" /\ Req[t].credit \in BookEnabled
        /\ Req[t].debit \notin BookEnabled) => Req[t].days > 0

SubmitTransfer(t) ==
  /\ status[t] = "NONE" /\ ~IsRefund(t)
  /\ Accepted(t)
  /\ status' = [status EXCEPT ![t] = "INIT"]
  /\ refundable' = [refundable EXCEPT ![t] = Amount(t)]
  /\ expireAt' = [expireAt EXCEPT ![t] = CreditExpireAt(t)]
  /\ UNCHANGED <<clock, balance, book, taken, given, writeoffs, writeoff, history>>

OriginRefundable(t) ==
  /\ ~IsRefund(Origin(t)) /\ status[Origin(t)] = "RECV_SUCCESS"
  /\ refundable[Origin(t)] >= Amount(t)

SubmitRefund(t) ==
  /\ status[t] = "NONE" /\ IsRefund(t)
  /\ OriginRefundable(t)
  /\ status' = [status EXCEPT ![t] = "INIT"]
  /\ UNCHANGED <<clock, refundable, expireAt, balance, book, taken, given, writeoffs, writeoff,
                 history>>

-----------------------------------------------------------------------------
(* Queries over the books b of an account, on day d *)

\* ListExpiredPositiveAccountBooksForUpdate
Expired(b, d) == {e \in DOMAIN b : e <= d /\ e # NoExpire /\ b[e] > 0}

\* ListAvailableAccountBooksForUpdate
Listed(b, d) == {e \in DOMAIN b : (e > d /\ b[e] > 0) \/ e = NoExpire}

\* mutant: the book that never expires is used first
LastListedDated(S) == IF S = {NoExpire} THEN NoExpire ELSE Max(S \ {NoExpire})

\* mutant: the book that expires last is used first
LastListedDescending(S) == IF NoExpire \in S THEN NoExpire ELSE Min(S)

\* its ORDER BY: of several books, the one that comes last
LastListed(S) == IF NoExpire \in S THEN NoExpire ELSE Max(S)

\* mutant: what is shown includes the books that expire today
AvailableToday(a) ==
  SumOver(book[a], {e \in DOMAIN book[a] : e >= Today \/ e = NoExpire})

\* GetAvailableBalance
Available(a) ==
  SumOver(book[a], {e \in DOMAIN book[a] : e > Today \/ e = NoExpire})

\* mutant: the refund counts itself
PriorWithSelf(t) ==
  SumOver(Amounts,
    {r \in Txns : /\ IsRefund(r) /\ Origin(r) = Origin(t)
                  /\ status[r] \in {"PAY_SUCCESS", "RECV_SUCCESS"}})

\* GetRefundDebitStatsByOrigin without the refund itself: what the other refunds of
\* the origin have debited
PriorDebited(t) ==
  SumOver(Amounts,
    {r \in Txns \ {t} : /\ IsRefund(r) /\ Origin(r) = Origin(t)
                        /\ status[r] \in {"PAY_SUCCESS", "RECV_SUCCESS"}})

-----------------------------------------------------------------------------
(* The debit of a book account: applyAccountDebitTx *)

\* the changes of a debit: one listed book after the other gives what it has, the one
\* that never expires all that is left, below zero if need be
Spread(b, d, amount) ==
  LET Take(e, s) ==
        LET use == IF e = NoExpire THEN s.left ELSE Lowest(b[e], s.left)
        IN IF s.left = 0 THEN s
           ELSE [left |-> s.left - use,
                 parts |-> Append(s.parts, [expire |-> e, amount |-> use])]
  IN MapThenFoldSet(Take, [left |-> amount, parts |-> << >>], LAMBDA e : e, LastListed,
                    Listed(b, d))

\* validateDebitBalanceOnly
CanDebit(a, has, amount) ==
  \/ a \notin AllowOverdraft /\ has >= amount
  \/ a \in AllowOverdraft /\ MaxOverdraftLimit[a] = 0
  \/ /\ a \in AllowOverdraft /\ MaxOverdraftLimit[a] > 0
     /\ has + MaxOverdraftLimit[a] >= amount

\* what sweepExpiredBooksTx writes off before a debit of the account
SweptBooks(a) == IF a \in BookEnabled THEN Expired(book[a], Today) ELSE {}
SweptAmount(a) == SumOver(book[a], SweptBooks(a))
BooksAfterSweep(a) ==
  [e \in DOMAIN book[a] |-> IF e \in SweptBooks(a) THEN 0 ELSE book[a][e]]

\* the write-off txn of the account has an out_trade_no that was used before, as
\* buildExpireWriteoffOutTradeNo keeps only the window of its txn number
Collides(a) == SweptAmount(a) > 0 /\ <<a, clock>> \in writeoffs

\* mutant: the write-off account is not credited
SweepKeepsMoney(a) ==
  /\ writeoffs' = IF SweptAmount(a) > 0 THEN writeoffs \cup {<<a, clock>>} ELSE writeoffs
  /\ UNCHANGED writeoff

\* the write-off txn, settled as soon as it is inserted
Sweep(a) ==
  /\ writeoffs' = IF SweptAmount(a) > 0 THEN writeoffs \cup {<<a, clock>>} ELSE writeoffs
  /\ writeoff' = writeoff + SweptAmount(a)

\* the transaction reads the clock twice: for the sweep, and for the list of books
\* it takes from.  A window, and a day, may end between the two.
LaterRead == {c \in {clock, clock + 1} : c <= MaxClock}

\* what the books b lose to the parts
BooksLess(b, parts) ==
  [e \in DOMAIN b |-> b[e] - TotalAt(parts, e)]

\* mutant: the sweep changes the books and not the account
DebitForgetsSweep(t, c) ==
  LET a == DebitAccount(t)
      parts == IF a \in BookEnabled
               THEN Spread(BooksAfterSweep(a), Day(c), Amount(t)).parts ELSE << >>
  IN /\ balance' = [balance EXCEPT ![a] = @ - Amount(t)]
     /\ book' = [book EXCEPT ![a] = BooksLess(BooksAfterSweep(a), parts)]
     /\ taken' = [taken EXCEPT ![t] =
                    [i \in DOMAIN parts |->
                       [expire |-> parts[i].expire, amount |-> parts[i].amount, day |-> Today]]]

\* the changes of applyAccountDebitTx; a change row carries the day on which the
\* transaction began
Debit(t, c) ==
  LET a == DebitAccount(t)
      parts == IF a \in BookEnabled
               THEN Spread(BooksAfterSweep(a), Day(c), Amount(t)).parts ELSE << >>
  IN /\ balance' = [balance EXCEPT ![a] = @ - SweptAmount(a) - Amount(t)]
     /\ book' = [book EXCEPT ![a] = BooksLess(BooksAfterSweep(a), parts)]
     /\ taken' = [taken EXCEPT ![t] =
                    [i \in DOMAIN parts |->
                       [expire |-> parts[i].expire, amount |-> parts[i].amount, day |-> Today]]]

\* mutant: the balance that was read before the sweep is checked
DebitRefusedStale(t, c) ==
  LET a == DebitAccount(t)
  IN \/ IsRefund(t) /\ ~OriginRefundable(t)
     \/ ~CanDebit(a, balance[a], Amount(t))
     \/ /\ a \in BookEnabled
        /\ Spread(BooksAfterSweep(a), Day(c), Amount(t)).left > 0

\* a domain error of the debit stage: the transaction is rolled back
DebitRefused(t, c) ==
  LET a == DebitAccount(t)
  IN \/ IsRefund(t) /\ ~OriginRefundable(t)
     \/ ~CanDebit(a, balance[a] - SweptAmount(a), Amount(t))
     \/ /\ a \in BookEnabled
        /\ Spread(BooksAfterSweep(a), Day(c), Amount(t)).left > 0

\* another refund of the same origin is debited and not yet credited
Overlaps(t) ==
  IsRefund(t) /\ \E r \in Txns : IsRefund(r) /\ Origin(r) = Origin(t) /\ status[r] = "PAY_SUCCESS"

\* INIT -> PAY_SUCCESS
DebitStage(t) ==
  /\ status[t] = "INIT"
  /\ ~Collides(DebitAccount(t))
  /\ \E c \in LaterRead :
       /\ ~DebitRefused(t, c)
       /\ clock' = c
       /\ Debit(t, c)
  /\ Sweep(DebitAccount(t))
  /\ refundable' = IF IsRefund(t)
                   THEN [refundable EXCEPT ![Origin(t)] = @ - Amount(t)]
                   ELSE refundable
  /\ status' = [status EXCEPT ![t] = "PAY_SUCCESS"]
  /\ overlapped' = IF Overlaps(t) THEN overlapped \cup {Origin(t)} ELSE overlapped
  /\ UNCHANGED <<expireAt, given, restored>>

\* INIT -> FAILED.  An out_trade_no that collides is no domain error: the txn stays
\* INIT and the stage is tried again later.
DebitStageRefused(t) ==
  /\ status[t] = "INIT"
  /\ Collides(DebitAccount(t)) => IsRefund(t) /\ ~OriginRefundable(t)
  /\ \E c \in LaterRead :
       /\ DebitRefused(t, c)
       /\ clock' = c
  /\ status' = [status EXCEPT ![t] = "FAILED"]
  /\ UNCHANGED <<refundable, expireAt, balance, book, taken, given, writeoffs, writeoff, history>>

-----------------------------------------------------------------------------
(* The credit of a book account *)

\* buildTransferBookCreditParts, and applyAccountCreditWithAccountTx when there is
\* nothing to follow
TransferParts(t) ==
  IF Req[t].scene = "P2P" /\ taken[t] # << >>
  THEN [i \in DOMAIN taken[t] |-> [expire |-> taken[t][i].expire, amount |-> taken[t][i].amount]]
  ELSE <<[expire |-> IF expireAt[t] = 0 THEN NoExpire ELSE expireAt[t],
          amount |-> Amount(t)]>>

\* mutant: the parts that other refunds have restored are not skipped
RefundUseAll(rows, prior, amount) ==
  LET Use(i, s) ==
        LET use == Lowest(rows[i].amount, s.refund)
        IN [s EXCEPT !.refund = @ - use, !.uses = Append(@, use)]
  IN MapThenFoldSet(Use, [offset |-> prior, refund |-> amount, uses |-> << >>],
                    LAMBDA i : i, Max, DOMAIN rows)

\* buildRefundBookCreditParts: how much a refund restores of every row its origin
\* took, after the amount that other refunds have debited
RefundUse(rows, prior, amount) ==
  LET Use(i, s) ==
        LET already == Lowest(s.offset, rows[i].amount)
            use == Lowest(rows[i].amount - already, s.refund)
        IN [offset |-> s.offset - already, refund |-> s.refund - use,
            uses |-> Append(s.uses, use)]
  IN MapThenFoldSet(Use, [offset |-> prior, refund |-> amount, uses |-> << >>],
                    LAMBDA i : i, Max, DOMAIN rows)

\* a part is merged with the one before it if both have the same date
AddPart(parts, part) ==
  IF parts # << >> /\ parts[Len(parts)].expire = part.expire
  THEN [parts EXCEPT ![Len(parts)].amount = @ + part.amount]
  ELSE Append(parts, part)

\* diffDaysUTCDate: the difference of two times saturates at the largest time.Duration
DiffDays(later, earlier) == Lowest(later - earlier, MaxDays)

Uses(t) == RefundUse(taken[Origin(t)], PriorDebited(t), Amount(t)).uses

\* ... with the days that the money had left when the origin took it, from today
RefundParts(t) ==
  LET rows == taken[Origin(t)]
      uses == Uses(t)
      Left(row) == IF row.expire > row.day THEN DiffDays(row.expire, row.day) ELSE 1
      Add(i, parts) ==
        IF uses[i] = 0 THEN parts
        ELSE AddPart(parts, [expire |-> Today + Left(rows[i]), amount |-> uses[i]])
  IN MapThenFoldSet(Add, << >>, LAMBDA i : i, Max, DOMAIN rows)

CreditParts(t) == IF IsRefund(t) THEN RefundParts(t) ELSE TransferParts(t)

Parts == [expire : Nat \ {0}, amount : Nat \ {0}]

\* applyBookCreditPartsTx: every part has a date and an amount, the parts add up, and no
\* book is credited twice, as then its balance would not be the planned one
CreditRefused(t) ==
  /\ CreditAccount(t) \in BookEnabled
  /\ LET parts == CreditParts(t)
     IN \/ parts \notin Seq(Parts) \/ Total(parts) # Amount(t)
        \/ \E i, j \in DOMAIN parts : i # j /\ parts[i].expire = parts[j].expire

\* UpsertAccountBookBalance, for every part
BooksPlus(b, parts) ==
  [e \in DOMAIN b \cup {parts[i].expire : i \in DOMAIN parts} |->
     (IF e \in DOMAIN b THEN b[e] ELSE 0) + TotalAt(parts, e)]

\* PAY_SUCCESS -> RECV_SUCCESS
CreditStage(t) ==
  LET a == CreditAccount(t)
      parts == IF a \in BookEnabled THEN CreditParts(t) ELSE << >>
  IN /\ status[t] = "PAY_SUCCESS"
     /\ ~CreditRefused(t)
     /\ balance' = [balance EXCEPT ![a] = @ + Amount(t)]
     /\ book' = [book EXCEPT ![a] = BooksPlus(@, parts)]
     /\ given' = [given EXCEPT ![t] = parts]
     /\ status' = [status EXCEPT ![t] = "RECV_SUCCESS"]
     /\ restored' = IF IsRefund(t) THEN [restored EXCEPT ![t] = Uses(t)] ELSE restored
     /\ UNCHANGED <<clock, refundable, expireAt, taken, writeoffs, writeoff, overlapped>>

Tick ==
  /\ clock < MaxClock
  /\ clock' = clock + 1
  /\ UNCHANGED <<status, refundable, expireAt, balance, book, taken, given, writeoffs, writeoff,
                 history>>

-----------------------------------------------------------------------------
(* ExpiryBookService keeps books in memory.  Its debit is a second account of what *)
(* is taken from which book.                                                        *)

FefoDebit(b, d, amount) ==
  LET Take(e, s) ==
        LET use == Lowest(b[e], s.left)
        IN IF s.left = 0 \/ e <= d \/ b[e] <= 0 THEN s
           ELSE [left |-> s.left - use,
                 parts |-> Append(s.parts, [expire |-> e, amount |-> use])]
  IN MapThenFoldSet(Take, [left |-> amount, parts |-> << >>], LAMBDA e : e, Max, DOMAIN b)

VerifyAccountBookBalance(a) == balance[a] = SumOver(book[a], DOMAIN book[a])

-----------------------------------------------------------------------------
\* createAccount: a book account has its book without expiry from the beginning
Init ==
  /\ clock = 0
  /\ status = [t \in Txns |-> "NONE"]
  /\ refundable = [t \in Txns |-> 0]
  /\ expireAt = [t \in Txns |-> 0]
  /\ balance = [a \in Accounts |-> 0]
  /\ book = [a \in Accounts |->
               [e \in IF a \in BookEnabled THEN {NoExpire} ELSE {} |-> 0]]
  /\ taken = [t \in Txns |-> << >>]
  /\ given = [t \in Txns |-> << >>]
  /\ writeoffs = {}
  /\ writeoff = 0
  /\ restored = [t \in Txns |-> << >>]
  /\ overlapped = {}

Next ==
  \/ \E t \in Txns : \/ SubmitTransfer(t) \/ SubmitRefund(t)
                     \/ DebitStage(t) \/ DebitStageRefused(t)
                     \/ CreditStage(t)
  \/ Tick

Spec == Init /\ [][Next]_vars

-----------------------------------------------------------------------------
(* Properties *)

\* every variable has the values its column can have; history has no column
TypeOK ==
  /\ clock \in 0..MaxClock
  /\ status \in [Txns -> {"NONE", "INIT", "PAY_SUCCESS", "RECV_SUCCESS", "FAILED"}]
  /\ refundable \in [Txns -> Nat]
  /\ expireAt \in [Txns -> Nat]
  /\ balance \in [Accounts -> Int]
  /\ \A a \in Accounts :
       /\ a \in BookEnabled <=> NoExpire \in DOMAIN book[a]
       /\ \A e \in DOMAIN book[a] : book[a][e] \in Int
       /\ a \notin BookEnabled => DOMAIN book[a] = {}
  /\ \A t \in Txns : /\ Range(given[t]) \subseteq Parts
                     /\ \A row \in Range(taken[t]) : row.amount > 0 /\ row.expire > row.day
  /\ writeoff \in Nat

\* docs/domain.md: the balance of a book account is the sum of its books, after every
\* sweep, debit, credit and refund
AccountIsSumOfBooks == \A a \in BookEnabled : VerifyAccountBookBalance(a)

InFlight == {t \in Txns : status[t] = "PAY_SUCCESS"}

\* sweeps, debits and credits move money and neither make nor lose any: the accounts,
\* the write-off account and what is between two stages add up to what they began with
Conservation ==
  SumOver(balance, Accounts) + writeoff + SumOver(Amounts, InFlight) = 0

\* once a txn is debited its credit cannot be refused, whatever was swept, refunded or
\* has expired in between: the parts are there, add up and name different books.  A
\* refusal would fail a transfer that was debited, and retry a refund for ever.
CreditNeverRefused == \A t \in Txns : status[t] = "PAY_SUCCESS" => ~CreditRefused(t)

Before(e, f) == e # NoExpire /\ (f = NoExpire \/ e < f)

\* a debit takes from a book only when every book that can still be used and expires
\* earlier is empty
FirstExpiryFirst ==
  [][\A t \in Txns :
       (status[t] = "INIT" /\ status'[t] = "PAY_SUCCESS") =>
         \A row \in Range(taken'[t]), e \in DOMAIN book[DebitAccount(t)] :
           (Before(e, row.expire) /\ e > Day(clock')) => book'[DebitAccount(t)][e] = 0]_vars

\* the available balance that the API shows is what a debit of the same day may take:
\* no more, although a sweep comes first, and no less
AvailableIsSpendable ==
  \A a \in BookEnabled \ AllowOverdraft :
    \A x \in 1..(Available(a) + 2) :
      x <= Available(a) <=> CanDebit(a, balance[a] - SweptAmount(a), x)

\* a debit that the books cover is spread over them as ExpiryBookService does it
SpreadAsReference ==
  \A a \in BookEnabled :
    book[a][NoExpire] >= 0 =>
      \A x \in 1..Available(a) :
        Spread(BooksAfterSweep(a), Today, x) = FefoDebit(book[a], Today, x)

\* the refunds of t that are credited, and what they have restored of its row i
Settled(t) == {r \in Txns : IsRefund(r) /\ Origin(r) = t /\ status[r] = "RECV_SUCCESS"}
RestoredOf(t, i) == SumOver([r \in Settled(t) |-> restored[r][i]], Settled(t))

\* The refunds of a txn restore, together and of every row that the txn took, what one
\* refund of their sum would: no row is restored twice and none is skipped, whatever their
\* amounts and whatever failed in between.  Excepted are txns of which two refunds were
\* debited before either was credited: then each of them takes the other for an earlier one.
RefundsTile ==
  \A t \in Txns \ overlapped : \A i \in DOMAIN taken[t] :
    RestoredOf(t, i) = RefundUse(taken[t], 0, SumOver(Amounts, Settled(t))).uses[i]

\* docs/domain.md:153: an account without allow_overdraft is not overdrawn, whatever
\* is swept from it and although the sweep and the debit read the clock separately
NoOverdraft == \A a \in Accounts \ AllowOverdraft : balance[a] >= 0

\* docs/requirements-design.md:76: only what has not expired can be debited, so that
\* no book of an account without allow_overdraft is overdrawn
NoBookOverdraft ==
  \A a \in BookEnabled \ AllowOverdraft : \A e \in DOMAIN book[a] : book[a][e] >= 0
=============================================================================
