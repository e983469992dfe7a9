# A TLA+ verification of the coin ledger

coin is a ledger service for points and balances. Merchants call an HTTP API to credit,
debit, transfer and refund; the service moves the amounts between accounts in PostgreSQL
and tells the merchant by webhook. This directory holds TLA+ models of the service, TLC
configurations that check them on small instances, and TLAPS proofs about them.
`PROJECT.json` relates every definition to the lines it models, and lists the hazards that
the properties are about.

## The system

| part | code | what it does | model |
|---|---|---|---|
| submission, customers, routing | `internal/api`, `internal/service/{transfer_service,customer_service,account_resolver,transfer_routing}.go` | finds or opens customers and accounts, routes, inserts a `txn` row with status INIT | `Submission` |
| stage transactions | `ApplyTxnStage` in `internal/db/repository.go` | INIT → PAY_SUCCESS debits, PAY_SUCCESS → RECV_SUCCESS credits and inserts the outbox event | `TxnPipeline`; `BookLedger` for accounts with books |
| asynchronous processor, processing guard, recovery worker | `internal/service/{txn_async_processor,processing_guard_redis,transfer_recovery_worker}.go` | sharded in-memory queues, a Redis key with a TTL, re-enqueueing of rows that do not move | `TxnPipeline` |
| books | `internal/db/repository.go` 1328–2216, `internal/service/expiry_book.go` | balances with an expiry date: sweep, write-off, first-expiring-first debit, restoring refunds | `BookLedger` |
| webhook delivery | `internal/service/webhook_worker.go` | claims events with a lease, delivers, retries, gives up | `WebhookOutbox` |
| numbers | `internal/platform/id` | leases ranges of a database sequence; digits, scope and Luhn check digit | `CodeAllocator`, `CodeNumbers` |
| console setup, merchants, secrets | `internal/api/admin_setup.go`, `internal/db/merchant_secret.go` | resumable initialisation under an advisory lock, rotation | `AdminSetup` |
| lists | `internal/api`, list queries of `internal/db` and the in-memory queries | pages behind a cursor | `Listing` |

Any number of server instances share PostgreSQL and Redis. Each runs the API, the workers
and the recovery worker (`cmd/server/main.go`). Nothing but the rows, the row locks and the
unique indexes is authoritative: queues, keys, caches and what a handler has read may be
lost, late or out of date, and the ledger has to be right all the same. That is what the
models are about. They meet at the `txn` row: `Submission` ends with its insert,
`TxnPipeline` starts with it and schedules the stages, `BookLedger` says what a stage does
to an account with books, `WebhookOutbox` starts with the event that the credit stage
inserts. `LedgerContract` is what all of this promises a merchant.

A database transaction is one step wherever it holds the locks on what it reads from its
first read to its commit. Everything between two transactions, or between a transaction and
a Redis call, is a step of its own, and so is every statement outside of a transaction.

## Modules, state and actions

`MC*` modules give constants their values for TLC; `*Proofs` modules hold the theorems.

**`TxnPipeline`** (accounts with `book_enabled = false`). PostgreSQL: `status`,
`refundable`, `balance`, `caps`, `debits` and `credits` (a txn's rows in
`account_change_log`), `hookOn`, `events`, `stale` (rows the recovery worker would list).
Redis: `guard`. Memory: `api` (a handler), `chan` and `pending` (`stageQueue`), `pc` and
`seen` (a worker in `processStage`), `rec` (the recovery worker).

| action | code |
|---|---|
| `SubmitCheck`, `CreateTransferTxn`, `EnqueueTxn` | `Submit`: its reads, its insert (inserted, refused by the unique index, or failed with or without the row), `enqueueTxn` |
| `TryBegin`, `TryBeginRefused` | a worker takes an item and does SETNX: it succeeds; the key is held; or Redis fails, with or without the key set |
| `StageApplied`, `StageNotApplied`, `StageRefused`, `StageError` | outcomes of `ApplyTxnStage`: committed; another status under the lock; a domain error; a database error, committed or not |
| `FailTxn`, `EnqueueNext`, `EndStage` | the separate conditional UPDATE after a rollback; the next queue; DEL of the key, then `Done` |
| `RecoverInit`, `RecoverEnqueue`, `RecoverPaySuccess`, `RecoverEnd` | a pass of `RunOnce`, one txn at a time |
| `GrowStale`, `GuardExpire`, `Crash` | time and the end of a process |
| `UpdateAccountCapabilities`, `UpsertWebhookConfig` | administrators and merchants |

What a request asks for is a constant, `Req[t]`; it may be sent to several instances at
once. Taking an item and SETNX are one step, and so are DEL and `Done`. Both stages have the
workers `Shards`. The listing of the recovery worker is not capped.

**`LedgerContract`**: a growing journal, accepted and rejected txns; balances and refundable
amounts are sums over the journal. `TxnPipeline` implements it (`ImplementsContract`, by the
mapping `Contract`: the journal is the change log).

**`BookLedger`**: `book[a]` maps the expiry dates of an account to balances, `taken` and
`given` are the change rows of a txn with their dates, `writeoff` is what sweeps have
written off. `SubmitTransfer`, `SubmitRefund`, `DebitStage`, `DebitStageRefused`,
`CreditStage` and `Tick` (the clock). A debit reads the clock twice, for the sweep and for
the listing; the second reading may be a day later, and is so in the model. `Spread` is the
plan of `applyBookDebitsTx`, a fold over the listed books in the order of the query;
`RefundUse` and `RefundParts` are `buildRefundBookCreditParts`; `DiffDays` saturates as
`time.Duration` does. `FefoDebit` is the in-memory `ExpiryBookService`, the reference of the
debit. A credit that is refused leaves the txn at PAY_SUCCESS; `CreditNeverRefused` says
that no such state is reached. `restored` and `overlapped` are history: what the credit of a
refund has restored of each row of its origin, and the txns of which two refunds were between
their stages together.

**`WebhookOutbox`**: the rows of `outbox_event` (`status`, `retry`, `due`, `stale` for a
lapsed lease), configuration and secret with their caches, hint queues, and what a goroutine
holds (`held`, `seen`: the retry count its claim returned). `RunOnce` and `DeliverTxn` claim;
`GetWebhookConfig`, `GetActiveSecret`, `DeliverAcked`, `DeliverFailed`, `MarkSuccess` and
`MarkRetry` are `handleEvent`; `ClaimLost`, `ReadFails`, `MarkFails`, `LeaseOverrun` and
`Crash` are what goes wrong. `posts`, `lost`, `acked`, `unwanted` and `overruns` are history.

**`Submission`**: one step of a request is one statement. `Handle` has the steps of the
handlers for credits, debits, transfers, refunds, customers, accounts, capability and
feature patches, `Apply` is what the pipeline does to a txn in the meantime, `Abandon` a
crash or a lost answer. Where the code takes a failed read for "no such row", as the lookups of
customers, accounts and users do, `ReadsAs` and `Finds` do too; a failed insert may have left
its row.

**`AdminSetup`**: the chain of statements of `handleInitialize` under an advisory lock whose
connection comes from the same pool, creation of merchants, and rotation of a secret as a
transaction of two statements under the row lock. Timeouts while waiting for a connection or
a lock, failed statements, crashes, and a lock session that breaks while its callback goes on.

**`CodeAllocator`**: `nextValue` is the row of `code_sequence`; `current`, `prefetch` and
`renewing` the bucket of an instance. An action is what happens under one hold of the
bucket's mutex or one SQL statement. **`CodeNumbers`**: padding, scope key and check digit
as operators, and the draw of a number.

**`Listing`**: a client follows `next_page_token` through one of eight lists while
transactions begin, commit and change status. `created_at` is the start of the inserting
transaction, so rows become visible out of order. The client sends only tokens it was given.

**`Sums`** has the sum of a function over a set; **`SumTheorems`** what the proofs need to
know of it.

## Runs

| run | instance | properties |
|---|---|---|
| `Race` | 2 instances, a transfer that could be paid twice, 1 fault, 1 crash, a withdrawn capability, a webhook switched off | `ExactlyOnce`, `EventWithSettlement` |
| `Refunds` | 2 instances, 2 workers a stage, 2 transfers of which one waits for the other's money, 2 refunds that exceed theirs together | `Conservation`, `RefundableIsJournal`, `BalanceIsJournal`, `ImplementsContract` |
| `Live` | 1 instance, 2 txns, queues of 1, 1 crash, fairness | `PendingIsQueued`, `EventuallyTerminal` |
| `Codes` | 2 instances, 3 callers, ranges of 2, numbers below 3, 4 calls, 1 fault, 1 crash, fairness | `NothingWasted`, `NeverTwice`, `CallsReturn` |
| `Books` | 3 incomes (two expiries, one without), a peer-to-peer payment, a purchase and 2 refunds of it, 3 days of 2 windows | `AccountIsSumOfBooks`, `Conservation`, `CreditNeverRefused`, `SpreadAsReference`, `RefundsTile`, `NoOverdraft`, `AvailableIsSpendable`, `FirstExpiryFirst` |
| `Webhook` | 1 event, pollers on 2 instances, 1 hinted goroutine, 2 attempts, 1 change of configuration, 1 secret, 1 fault, fairness | `OneHolder`, `SuccessIsEarned`, `GivesUp`, `TerminalIsFinal`, `Converges` |
| `Submit` | 13 requests in batches of two and three, 1 fault, fairness | `OwnerHasDefault`, `PartiesBelong`, `AnswerIsTrue`, `DefaultNeverMoves`, `Answered` |
| `Setup` | 2 setups and a rotation that share a pool of 3, 2 faults, fairness | `InitializedIsComplete`, `OneInitialization`, `SecretsAgree`, `InitializedIsFinal`, `SetupGoesThrough` |
| `Lists` | 8 lists, 4 rows, 2 instants, page sizes absent, 0, 2 and above the maximum, 1 failed query | `PagesInOrder`, `ScanIsComplete`, `MemoryAsDatabase` |
| `Numbers` | numbers of every kind for 3 merchants, two with one hash, two digits | `CodesWellFormed`, `CodesDistinct`, `MistypedIsRefused` |
| `DocOverdraft`, `DocPartial` | smallest instances | violated: see Findings |

What they say, where the name does not:

- `ExactlyOnce`: one debit from PAY_SUCCESS on, one credit at RECV_SUCCESS, none of a FAILED
  txn. `EventWithSettlement`: an event exists exactly for a settled txn (while the
  configuration is not touched).
- `BalanceIsJournal`, `RefundableIsJournal`: two columns that stages read and overwrite equal
  what the change log adds up to. `Conservation`: balances, write-offs and amounts between
  two stages are constant.
- `PendingIsQueued`: a txn in the dedupe map is in one channel once, so no entry leaks.
- `NothingWasted`: without errors every number below `next_value` is handed out or held.
- `SpreadAsReference`: the database debit takes what the in-memory one does.
  `RefundsTile`: the refunds of a txn, as many as have been credited, have restored of every
  row it took what one refund of their sum would. It excepts txns of which two refunds were
  debited before either was credited, as there it fails (see Findings).
  `AvailableIsSpendable`: what the API shows is what a debit of that day may take after its
  sweep. `FirstExpiryFirst`: no usable book with an earlier date keeps money when a later
  one is debited.
- `SuccessIsEarned`: delivered means acknowledged, or switched off. `GivesUp`: an event is
  posted at most as often as the limit says, once more for every attempt whose outcome was
  lost, and a whole limit more for every goroutine that outlives its lease, which writes an
  old retry count over a newer one. The last term is needed: with a limit of 2 and one overrun
  TLC finds 4 posts. `OneHolder`: two goroutines never work on one event; `TerminalIsFinal`:
  SUCCESS and DEAD stay, although no statement looks at the status it overwrites. Both except
  events of which a goroutine has outlived its lease: for those neither holds.
- `AnswerIsTrue`: success says that the request's own transaction exists, DUPLICATE that
  another request's does, any other answer that this request left none. After a lost answer,
  and after INTERNAL_ERROR when a statement failed, the client has to look.
- `InitializedIsComplete`: the flag stands over an existing user and merchant, and some
  merchant is complete, whatever happens to the lock; the recorded one is, while no lock
  session breaks. `OneInitialization` and `InitializedIsFinal` are about behaviours in which
  none breaks: after a break two setups may both succeed, and the later one changes the row.
- `SecretsAgree`: a merchant has one active secret, of the highest version, and two requests
  never got the same version. `SetupGoesThrough`: setups that starve
  each other of connections do not all fail.
- `ScanIsComplete`: a scan in which no query failed returns every row that was there and
  matched all along. (The API answers a failed query with an empty last page.)
  `MemoryAsDatabase` compares the two implementations on the same timestamps.
- `MistypedIsRefused`: a wrong digit is found, and so are the exchanges Luhn can find.

### Bounds

Two instances, or two goroutines of one, are what a lost exclusion takes: a slow worker and
the one that takes over. One fault and one crash put a lost commit answer, a lost enqueue or
an orphaned key at every place; the setup gets two, as one is the broken lock session. With
two instances of the pipeline, `BoundedLoad` limits handlers, queued items and recovery
passes under way at once to 3: a worker's item, a pass and a listed or queued txn.
`Race` and `Refunds` use the symmetry of instances; the liveness runs use neither symmetry
nor constraint. `MaxPending = 1` makes the full queue happen with two txns. In `Books` the
purchase takes from all three books, its refunds split a row, and midnights fall between any
two steps; `MaxDays = 6` and `NoExpire = 12` let the saturating difference of dates happen.
Ranges of two and a watermark of one make the prefetch, its failure and exhaustion happen
within four calls. Deadlock is checked in the pipeline, where recovery passes and the clock go
on for ever; elsewhere the system rests when the requests are done.

### Fairness

`TxnPipeline`: weak fairness of each worker goroutine, of each recovery worker's ticker loop
and of time. Clients, administrators, faults and crashes are owed nothing and are bounded,
which stands for "the database is reachable again eventually". Workers range for ever over
channels that are never closed, and database and Redis calls have timeouts.
`CodeAllocator`: each goroutine inside a call or a renewal; Go's mutex does not starve and
`LeaseRange` has a timeout. `WebhookOutbox`: each goroutine inside `handleEvent`, the
pollers, and time; hints and cache expiry are owed nothing. `Submission` and `AdminSetup`:
the handler of a request (of a setup), which the HTTP server runs in a goroutine of its own.

## Findings

Two statements of the documentation do not hold of the code, and TLC shows how.

- `docs/requirements-design.md:76` and `docs/domain.md:153`: without overdraft a debit takes
  only money that has not expired. The sweep and the listing of a debit read the clock
  separately; a book that expires in between was counted and is not listed, so the book
  without expiry goes below zero (`DocOverdraft`, `NoBookOverdraft`). The account as a whole
  does not: `NoOverdraft` holds.
- `docs/API.md:335`: capabilities "can be updated in part". The patch writes all three flags
  as it has read them, so two patches that overlap lose one (`DocPartial`, `PatchIsPartial`).

More were met while modelling; no run is kept for them.

A refund takes all other debited refunds of its origin for earlier ones
(`repository.go:1423`), so of two that are debited before either is credited each starts
behind the other: of rows of 2, 1 and 1, refunds of 1 and 3 restore the last row twice and the
first one short. `docs/domain.md:422` has a refund booked back along the path of its origin,
accounts and books. The amounts are right, the expiry dates are not. Without its exception
`RefundsTile` is violated in `Books`.

Debit and credit of a transfer are two transactions (`docs/domain.md:406` wants one;
`Conservation` and `EventuallyTerminal` are what holds instead). The debit stage does not check `allow_debit_out` again
(`docs/domain.md:159`), so a capability withdrawn after the submission does not stop it. A
FAILED txn has no event (`docs/functional-design.md:119` lists `TxnFailed`). A goroutine that
outlives its lease can turn an event with the status SUCCESS or DEAD back.

## Proofs

All theorems hold for any sets of instances, workers, txns, accounts and requests and any
number of faults and crashes, from the `ASSUME`s on constants only.

**`TxnPipelineProofs`**: `TypeCorrect`, `AppliedExactlyOnce`, `OverdraftRespected`
(`WithinOverdraft`), `StatusNeverMovesBack` (`StatusAdvances`), `OutboxMatchesSettlement`,
`PendingIsInOneChannel`. The inductive invariant is `PipelineInv`: types, `ExactlyOnce`,
`WithinOverdraft` and `InHand`, which says what workers hold; without its clause that only a
worker of the INIT stage is about to fail a txn, `FailTxn` could turn a debited txn FAILED.
It mentions neither keys nor queues: exactly-once rests on the status comparison under the
row lock alone. `QueueInv` restates `PendingIsQueued` with positions in place of sets and is
inductive with the types.

The same module, on money: `MoneyIsConserved`, `BalancesAreJournal`, `RefundsAreJournal`,
`PipelineImplementsContract`. `LedgerStep` classifies what a step does to the ledger;
`MoneyInv` adds `RefundsFollow` (a debited refund has a settled origin that is no refund), without
which a transfer could be inserted after its refund and `RefundableIsJournal` would break. The
refinement maps every ledger step to a step of the contract and the rest to stuttering.

**`BookLedgerProofs`**: `TypeCorrect`, `AccountsAgreeWithBooks`, `BooksConserveMoney`,
`AccountsNotOverdrawn`, `ShownIsSpendable`, `FirstExpiryIsFirst`, for any books, dates,
amounts and clock. The invariant is `BooksInv` (only the book without expiry is
ever below zero, and no row was taken from an expired book) with `MoneyInv` (the two sums).
The core is what the folds compute. `SpreadOK` is the loop invariant of `Spread`: what is
left, what was taken at each date, and that listed books are emptied in order. `SpreadIsFefo`
is about the two folds of a debit: the one over the listed books stops where the one over all
books only skips, and both have the same rows.

**`BookRefundProofs`**: `RefundsTileRows`, `CreditsGoThrough`, `SpreadsAgree`. `UseOK` is the
loop invariant of `RefundUse`: after k rows a refund has restored the part of their running
total that lies between the refunds before it and its own amount; the parts of two refunds
then join (`UseTiles`). `TileInv` carries this over a behaviour: two refunds of a txn between
their stages are recorded in `overlapped`, so for the others what `PriorDebited` counts when a
refund is credited is exactly the refunds that have been credited before. That no credit is refused
needs the journal, `JournalInv`:

- `Dated`: no book or request is dated after `noExpireBookDate`, so that it is the last book;
- `TakenOK`: the rows of a debited txn add up to its amount and are in the order of their
  dates, so that the parts `RefundParts` merges name different books;
- `RefundsFollow`: a debited refund has a settled origin, whose rows are all there;
- `Refundables`: `refundable_amount` and the debited refunds add up to the amount. A refund
  that follows others therefore still finds its amount among the rows; without this clause
  `RefundUse` could run out of rows and `applyBookCreditPartsTx` would refuse the credit.

`JournalInvariant` is that `JournalInv` holds along with `BooksInv` and `MoneyInv`.
`SpreadsAgree` uses its `Dated`, and does not need the premise of `SpreadAsReference`.

**`WebhookOutboxProofs`**: `TypeCorrect`, `HoldersExclude`, `DeliveryIsEarned`,
`AttemptsAreBounded`, `OutcomeIsFinal`. `Leased` says that a held event whose lease lasts is as
its claim left it, `Counted` that an open event and what a claim returned are below the limit,
`Earned` that a goroutine about to write SUCCESS has a reason. `Attempts` counts ahead:
the POSTs made, those that the goroutines that hold the event may still cost (`Share`, a sum
over goroutines, of which there are finitely many) and, unless one of them has these in hand
(`Lent`), those that the row allows (`Rest`) stay within what `GivesUp` allows. An overrun is
where the row's attempts are given out a second time, and adds one limit.

**`SubmissionProofs`**: `TypeCorrect`, `OwnersHaveDefaults`, `PartiesAreOfMerchant`,
`AnswersAreTrue`, `DefaultsAreKept`. The strengthening says what a handler's locals still mean
when it uses them (`Customers`, `Opening`, `CreditParty`, `Ready`, `RefundParty`); `Lasting`
is why: what the service has written about a customer, an account or a txn stays.

**`AdminSetupProofs`**: `TypeCorrect`, `InitializationIsComplete`, `InitializesOnce`,
`InitializationIsFinal`, `SecretsAreConsistent`. `SetupInv`: who is under the lock
(`Exclusion`), what a setup has done by each step (`Prepared`, `Owned`), and that nobody is on
the way to write once the flag is set (`Quiet`, `Marked`). `SecretInv`: versions drawn under
the row lock are distinct and the active one is the last.

**`CodeAllocatorProofs`**: `TypeCorrect`, `NumbersAreUnique`, `RenewalsExclude`
(`OneRenewal`), `RangesAreUsed`. Uniqueness needs `Fresh`: ranges in buckets and hands are
disjoint, below `next_value` and hold no number handed out. The renewing flag plays no part
in it; that no range is wasted needs it, with `Settled`.

**`SumTheorems`**: sums over finite sets (add, remove, split, group by key, compare) and
`FoldExists`, that a fold over the subsets of a finite set has a solution of its type. Both
are proved by induction over sets of subsets and of numbers.

The type invariants, `WithinOverdraft`, `StatusAdvances` and `OneRenewal` are proved and not
checked by a run.

### Only model-checked

- Liveness (`EventuallyTerminal`, `CallsReturn`, `Converges`, `Answered`,
  `SetupGoesThrough`): out of the prover's reach.
- `Listing` (`PagesInOrder`, `ScanIsComplete`, `MemoryAsDatabase`): a page is a sorted
  sequence of rows, built with `SortSeq`, which the prover has no definition of.
- `CodeNumbers` (`CodesWellFormed`, `CodesDistinct`, `MistypedIsRefused`): padding and check
  digit are folds over digits with remainders, and a proof would be an induction over them.
- The findings: they are counterexamples.

## Not modelled

Console sessions, API authentication and encryption (no state); single-row queries, format
checks, texts; profiling; the load generator, SDKs and web pages; the random code provider,
the per-stage variants of `ApplyTxnStage` and `StartWithReport`, which the server does not
call; the creation of a missing write-off account; migrations, pools' sizes other than the
setup's, environment variables. Integers are unbounded: amounts are `int64` and checked to be
positive, and no sum in the models nears their limit.

## Running

    tlc -workers 2 -config Race.cfg MCTxnPipeline
    tlapm BookLedgerProofs.tla

A passing run takes up to two minutes on two cores. The proofs take from a minute
(`SumTheorems`) to about a quarter of an hour (`BookRefundProofs`). Most steps name the prover
that finds them (`ZenonT(40)`, 40 seconds); the others go to SMT first.
