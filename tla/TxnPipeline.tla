----------------------------- MODULE TxnPipeline -----------------------------
(***************************************************************************)
(* The asynchronous transaction pipeline of the coin service.              *)
(*                                                                         *)
(* An API handler checks a request and inserts a txn row with status INIT  *)
(* (TransferService.Submit).  Two stages then move the money, each in one  *)
(* PostgreSQL transaction under the row lock of the txn                    *)
(* (Repository.ApplyTxnStage): INIT -> PAY_SUCCESS debits, PAY_SUCCESS ->  *)
(* RECV_SUCCESS credits and inserts the outbox event.  The stages are run  *)
(* by the workers of TransferAsyncProcessor, which are fed by in-memory    *)
(* queues, exclude each other through a Redis key with a time to live, and *)
(* are backed up by the TransferRecoveryWorker, which re-enqueues the rows *)
(* that have not moved for a while.  Several server instances (Nodes)      *)
(* share PostgreSQL and Redis; an instance may crash at any point.         *)
(*                                                                         *)
(* The accounts of this module have book_enabled = false.                  *)
(***************************************************************************)
EXTENDS Integers, Sequences, FiniteSets, Functions, Sums

CONSTANTS
  Txns,               \* txn numbers, one for each request of a client
  Accounts,           \* account numbers
  Nodes,              \* server instances
  Shards,             \* worker indexes of a stage queue
  Req,                \* Req[t]: what the request behind txn t asks for
  ShardOf,            \* fnv hash of a route key (an account), modulo the workers
  InitBalance,        \* account.balance before the first txn
  AllowOverdraft,     \* accounts with allow_overdraft, fixed at creation
  MaxOverdraftLimit,  \* account.max_overdraft_limit, 0 = unlimited
  MaxPending,         \* stageQueue.maxPending
  CapUpdates,         \* capability sets an administrator may give an account
  HookUpdates,        \* values of webhook_config.enabled a merchant may set
  MaxFaults,          \* bound: Redis and PostgreSQL errors in a behaviour
  MaxCrashes          \* bound: instance crashes in a behaviour

Stages == {"INIT", "PAY_SUCCESS"}
Terminal == {"RECV_SUCCESS", "FAILED"}
Statuses == {"NONE"} \cup Stages \cup Terminal
Caps == {"debit_out", "credit_in", "transfer"}
Workers == Nodes \X Stages \X Shards

Requests ==
  [biz : {"TRANSFER", "REFUND"}, p2p : BOOLEAN, debit : Accounts,
   credit : Accounts, amount : Nat \ {0}, origin : Txns]

ASSUME ReqAssumption == Req \in [Txns -> Requests]
\* a behaviour is about the finitely many rows it touches
ASSUME FiniteAssumption == IsFiniteSet(Txns) /\ IsFiniteSet(Accounts)
ASSUME AccountAssumption ==
  /\ InitBalance \in [Accounts -> Int]
  /\ AllowOverdraft \subseteq Accounts
  /\ MaxOverdraftLimit \in [Accounts -> Nat]
ASSUME QueueAssumption ==
  /\ ShardOf \in [Accounts -> Shards]
  /\ MaxPending \in Nat \ {0}
  /\ IsFiniteSet(Shards) /\ Cardinality(Shards) <= MaxPending
ASSUME InputAssumption ==
  /\ CapUpdates \subseteq SUBSET Caps
  /\ HookUpdates \subseteq BOOLEAN
ASSUME BoundAssumption == MaxFaults \in Nat /\ MaxCrashes \in Nat

VARIABLES
  (* PostgreSQL *)
  status,      \* txn.status; "NONE": there is no row
  refundable,  \* txn.refundable_amount
  balance,     \* account.balance
  debits,      \* account_change_log: rows of the txn with a negative delta
  credits,     \* account_change_log: rows of the txn with a positive delta
  caps,        \* account.allow_debit_out, allow_credit_in, allow_transfer
  hookOn,      \* webhook_config: enabled with a url
  events,      \* outbox_event: the txns with an event
  stale,       \* txns whose updated_at is older than the stale threshold
  (* Redis *)
  guard,       \* processing keys txn_no+stage
  (* memory of each instance *)
  api,         \* progress of the API handler that owns the request of a txn
  chan,        \* channel of a worker; the head is the item in its hands
  pending,     \* stageQueue.pending
  pc, seen,    \* where a worker is in processStage; the status it read
  rec,         \* recovery worker: its pass and the txns still to enqueue
  (* bounds *)
  faults, crashes

dbVars == <<status, refundable, balance, debits, credits, caps, hookOn, events, stale>>
queueVars == <<chan, pending>>
vars == <<dbVars, guard, api, queueVars, pc, seen, rec, faults, crashes>>

-----------------------------------------------------------------------------
(* The parties and the amount of a txn.  A refund swaps its origin's.      *)

IsRefund(t) == Req[t].biz = "REFUND"
Origin(t) == Req[t].origin
Amount(t) == Req[t].amount
Amounts == [t \in Txns |-> Amount(t)]
DebitAccount(t) == IF IsRefund(t) THEN Req[Origin(t)].credit ELSE Req[t].debit
CreditAccount(t) == IF IsRefund(t) THEN Req[Origin(t)].debit ELSE Req[t].credit

\* domain.Account.CanDebit, as validateDebitBalanceOnly repeats it
CanDebit(a, amount) ==
  \/ a \notin AllowOverdraft /\ balance[a] >= amount
  \/ a \in AllowOverdraft /\ MaxOverdraftLimit[a] = 0
  \/ /\ a \in AllowOverdraft /\ MaxOverdraftLimit[a] > 0
     /\ balance[a] + MaxOverdraftLimit[a] >= amount

\* mutant: a transfer can be refunded before it settled
OriginUnsettled(t) ==
  /\ ~IsRefund(Origin(t))
  /\ refundable[Origin(t)] >= Amount(t)

\* the origin of a refund is a settled transfer with enough left to refund
OriginRefundable(t) ==
  /\ ~IsRefund(Origin(t))
  /\ status[Origin(t)] = "RECV_SUCCESS"
  /\ refundable[Origin(t)] >= Amount(t)

\* stageRouteKey and workerIndex: the debit stage of a txn is routed by the account
\* it debits, the credit stage by the account it credits
RouteOf(s, t) == ShardOf[IF s = "INIT" THEN DebitAccount(t) ELSE CreditAccount(t)]

Fault == faults < MaxFaults /\ faults' = faults + 1

-----------------------------------------------------------------------------
(* stageQueue *)

\* a txn that is pending already, or finds the queue full, is not enqueued
EnqueueWithRoute(n, s, t, shard) ==
  IF t \in pending[<<n, s>>] \/ Cardinality(pending[<<n, s>>]) >= MaxPending
  THEN UNCHANGED queueVars
  ELSE /\ pending' = [pending EXCEPT ![<<n, s>>] = @ \cup {t}]
       /\ chan' = [chan EXCEPT ![<<n, s, shard>>] = Append(@, t)]

\* mutant: the entry of the dedupe map is left behind
DoneKeepsPending(w) ==
  /\ chan' = [chan EXCEPT ![w] = Tail(@)]
  /\ UNCHANGED pending

\* the worker is through with the item at the head of its channel
Done(w) ==
  /\ chan' = [chan EXCEPT ![w] = Tail(@)]
  /\ pending' = [pending EXCEPT ![<<w[1], w[2]>>] = @ \ {Head(chan[w])}]

-----------------------------------------------------------------------------
(* API: a submitted request *)

CapabilitiesAllow(t) ==
  IF IsRefund(t)
  THEN "debit_out" \in caps[DebitAccount(t)]
  ELSE /\ "debit_out" \in caps[DebitAccount(t)]
       /\ "credit_in" \in caps[CreditAccount(t)]
       /\ Req[t].p2p => "transfer" \in caps[DebitAccount(t)]

\* TransferService.Submit up to the insert: the origin and the accounts are read.
\* A client may send a request again, and to another instance.
SubmitCheck(n, t) ==
  /\ status[t] = "NONE"
  /\ api[<<n, t>>] = "idle"
  /\ IsRefund(t) => OriginRefundable(t)
  /\ CapabilitiesAllow(t)
  /\ api' = [api EXCEPT ![<<n, t>>] = "checked"]
  /\ UNCHANGED <<dbVars, guard, queueVars, pc, seen, rec, faults, crashes>>

InsertTxn(t) ==
  /\ status[t] = "NONE"
  /\ status' = [status EXCEPT ![t] = "INIT"]
  /\ refundable' = [refundable EXCEPT ![t] = IF IsRefund(t) THEN 0 ELSE Amount(t)]

\* the insert, in a statement of its own: done, refused by the unique index on
\* out_trade_no, or failed with or without the row
CreateTransferTxn(n, t) ==
  /\ api[<<n, t>>] = "checked"
  /\ \/ /\ InsertTxn(t)
        /\ api' = [api EXCEPT ![<<n, t>>] = "created"]
        /\ UNCHANGED faults
     \/ /\ status[t] # "NONE"
        /\ api' = [api EXCEPT ![<<n, t>>] = "idle"]
        /\ UNCHANGED <<status, refundable, faults>>
     \/ /\ Fault
        /\ InsertTxn(t) \/ UNCHANGED <<status, refundable>>
        /\ api' = [api EXCEPT ![<<n, t>>] = "idle"]
  /\ UNCHANGED <<balance, debits, credits, caps, hookOn, events, stale, guard,
                 queueVars, pc, seen, rec, crashes>>

\* BusinessHandler.enqueueTxn, once the row is committed
EnqueueTxn(n, t) ==
  /\ api[<<n, t>>] = "created"
  /\ EnqueueWithRoute(n, "INIT", t, RouteOf("INIT", t))
  /\ api' = [api EXCEPT ![<<n, t>>] = "idle"]
  /\ UNCHANGED <<dbVars, guard, pc, seen, rec, faults, crashes>>

-----------------------------------------------------------------------------
(* The database transactions of the stages *)

\* mutant: a refund does not decrease its origin
DebitStageOriginKept(t) ==
  /\ balance' = [balance EXCEPT ![DebitAccount(t)] = @ - Amount(t)]
  /\ debits' = [debits EXCEPT ![t] = @ + 1]
  /\ status' = [status EXCEPT ![t] = "PAY_SUCCESS"]
  /\ stale' = stale \ {t}
  /\ UNCHANGED <<refundable, credits, caps, hookOn, events>>

\* INIT -> PAY_SUCCESS: applyAccountDebitTx and, for a refund,
\* DecreaseOriginTxnRefundableIfValid
DebitStage(t) ==
  /\ refundable' = IF IsRefund(t)
                   THEN [refundable EXCEPT ![Origin(t)] = @ - Amount(t)]
                   ELSE refundable
  /\ balance' = [balance EXCEPT ![DebitAccount(t)] = @ - Amount(t)]
  /\ debits' = [debits EXCEPT ![t] = @ + 1]
  /\ status' = [status EXCEPT ![t] = "PAY_SUCCESS"]
  /\ stale' = stale \ {t}
  /\ UNCHANGED <<credits, caps, hookOn, events>>

\* what makes the debit transaction return a domain error and roll back
DebitRefused(t) ==
  \/ IsRefund(t) /\ ~OriginRefundable(t)
  \/ ~CanDebit(DebitAccount(t), Amount(t))

\* mutant: the event is not written with the credit
CreditStageNoEvent(t) ==
  /\ balance' = [balance EXCEPT ![CreditAccount(t)] = @ + Amount(t)]
  /\ credits' = [credits EXCEPT ![t] = @ + 1]
  /\ status' = [status EXCEPT ![t] = "RECV_SUCCESS"]
  /\ stale' = stale \ {t}
  /\ UNCHANGED <<refundable, debits, caps, hookOn, events>>

\* mutant: the payer is credited
CreditStageToPayer(t) ==
  /\ balance' = [balance EXCEPT ![DebitAccount(t)] = @ + Amount(t)]
  /\ credits' = [credits EXCEPT ![t] = @ + 1]
  /\ status' = [status EXCEPT ![t] = "RECV_SUCCESS"]
  /\ events' = IF hookOn THEN events \cup {t} ELSE events
  /\ stale' = stale \ {t}
  /\ UNCHANGED <<refundable, debits, caps, hookOn>>

\* PAY_SUCCESS -> RECV_SUCCESS: the credit and insertOutboxEventTx
CreditStage(t) ==
  /\ balance' = [balance EXCEPT ![CreditAccount(t)] = @ + Amount(t)]
  /\ credits' = [credits EXCEPT ![t] = @ + 1]
  /\ status' = [status EXCEPT ![t] = "RECV_SUCCESS"]
  /\ events' = IF hookOn THEN events \cup {t} ELSE events
  /\ stale' = stale \ {t}
  /\ UNCHANGED <<refundable, debits, caps, hookOn>>

\* mutant: the status under the row lock is not compared with the expected one
CommitStageAnyStatus(t, s) ==
  \/ s = "INIT" /\ ~DebitRefused(t) /\ DebitStage(t)
  \/ s = "PAY_SUCCESS" /\ CreditStage(t)

\* the stage transaction of status s, committed
CommitStage(t, s) ==
  /\ status[t] = s
  /\ \/ s = "INIT" /\ ~DebitRefused(t) /\ DebitStage(t)
     \/ s = "PAY_SUCCESS" /\ CreditStage(t)

NextStatus(s) == IF s = "INIT" THEN "PAY_SUCCESS" ELSE "RECV_SUCCESS"

-----------------------------------------------------------------------------
(* A worker of TransferAsyncProcessor, in the order of processStage *)

Item(w) == Head(chan[w])
HasItem(w) == chan[w] # << >>
Goto(w, label) == pc' = [pc EXCEPT ![w] = label]

\* a status that has a stage is enqueued, a terminal one is not
AfterStage(w, st) ==
  /\ seen' = [seen EXCEPT ![w] = st]
  /\ Goto(w, IF st \in Stages THEN "enqueue" ELSE "end")

\* SETNX of the processing key succeeds
TryBegin(w) ==
  /\ pc[w] = "idle" /\ HasItem(w)
  /\ <<Item(w), w[2]>> \notin guard
  /\ guard' = guard \cup {<<Item(w), w[2]>>}
  /\ Goto(w, "apply")
  /\ UNCHANGED <<dbVars, api, queueVars, seen, rec, faults, crashes>>

\* the key is held, so the item is dropped; or Redis fails, and the key may be set
TryBeginRefused(w) ==
  /\ pc[w] = "idle" /\ HasItem(w)
  /\ \/ <<Item(w), w[2]>> \in guard /\ UNCHANGED <<guard, faults>>
     \/ Fault /\ guard' \in {guard, guard \cup {<<Item(w), w[2]>>}}
  /\ Done(w)
  /\ UNCHANGED <<dbVars, api, pc, seen, rec, crashes>>

\* ApplyTxnStage commits and the worker learns of it
StageApplied(w) ==
  /\ pc[w] = "apply"
  /\ CommitStage(Item(w), w[2])
  /\ AfterStage(w, NextStatus(w[2]))
  /\ UNCHANGED <<guard, api, queueVars, rec, faults, crashes>>

\* the txn has another status than expected: nothing is applied
StageNotApplied(w) ==
  /\ pc[w] = "apply"
  /\ status[Item(w)] # w[2]
  /\ AfterStage(w, status[Item(w)])
  /\ UNCHANGED <<dbVars, guard, api, queueVars, rec, faults, crashes>>

\* a domain error: the transaction is rolled back, the txn is to be failed
StageRefused(w) ==
  /\ pc[w] = "apply"
  /\ w[2] = "INIT" /\ status[Item(w)] = "INIT" /\ DebitRefused(Item(w))
  /\ Goto(w, "fail")
  /\ UNCHANGED <<dbVars, guard, api, queueVars, seen, rec, faults, crashes>>

\* a database error: rolled back, or committed with the answer lost
StageError(w) ==
  /\ pc[w] = "apply"
  /\ Fault
  /\ CommitStage(Item(w), w[2]) \/ UNCHANGED dbVars
  /\ Goto(w, "end")
  /\ UNCHANGED <<guard, api, queueVars, seen, rec, crashes>>

\* mutant: UpdateTransferTxnStatus instead of the transition from a status
FailTxnUnconditional(w) ==
  /\ pc[w] = "fail"
  /\ status' = [status EXCEPT ![Item(w)] = "FAILED"]
  /\ stale' = stale \ {Item(w)}
  /\ Goto(w, "end")
  /\ UNCHANGED <<refundable, balance, debits, credits, caps, hookOn, events, guard,
                 api, queueVars, seen, rec, faults, crashes>>

\* handleStageError: TransitionTransferTxnStatus from the expected status
FailTxn(w) ==
  /\ pc[w] = "fail"
  /\ \/ /\ status[Item(w)] = w[2]
        /\ status' = [status EXCEPT ![Item(w)] = "FAILED"]
        /\ stale' = stale \ {Item(w)}
        /\ UNCHANGED faults
     \/ status[Item(w)] # w[2] /\ UNCHANGED <<status, stale, faults>>
     \/ Fault /\ UNCHANGED <<status, stale>>
  /\ Goto(w, "end")
  /\ UNCHANGED <<refundable, balance, debits, credits, caps, hookOn, events, guard,
                 api, queueVars, seen, rec, crashes>>

\* enqueueByStatusWithTxn for the status the stage left or found
EnqueueNext(w) ==
  /\ pc[w] = "enqueue"
  /\ EnqueueWithRoute(w[1], seen[w], Item(w), RouteOf(seen[w], Item(w)))
  /\ Goto(w, "end")
  /\ UNCHANGED <<dbVars, guard, api, seen, rec, faults, crashes>>

\* endStage deletes the key, whoever set it, then the queue item is Done
EndStage(w) ==
  /\ pc[w] = "end"
  /\ \/ guard' = guard \ {<<Item(w), w[2]>>} /\ UNCHANGED faults
     \/ Fault /\ UNCHANGED guard
  /\ Done(w)
  /\ Goto(w, "idle")
  /\ seen' = [seen EXCEPT ![w] = "NONE"]
  /\ UNCHANGED <<dbVars, api, rec, crashes>>

-----------------------------------------------------------------------------
(* TransferRecoveryWorker *)

\* mutant: only the rows that have not been debited are listed
StaleWithInitOnly(s) == {t \in stale : s = "INIT" /\ status[t] = s}

\* ListStaleTransferTxnNosByStatus
StaleWith(s) == {t \in stale : status[t] = s}

\* a pass of RunOnce: its listing, empty if the query fails
List(n, s) ==
  \/ /\ rec' = [rec EXCEPT ![n] = [pass |-> s, todo |-> StaleWith(s)]]
     /\ UNCHANGED faults
  \/ /\ rec' = [rec EXCEPT ![n] = [pass |-> s, todo |-> {}]]
     /\ Fault

\* RunOnce lists the stale INIT rows ...
RecoverInit(n) ==
  /\ rec[n].pass = "idle"
  /\ List(n, "INIT")
  /\ UNCHANGED <<dbVars, guard, api, queueVars, pc, seen, crashes>>

\* ... enqueues them by the status it listed, routed by the txn number if the row
\* cannot be read, ...
RecoverEnqueue(n, t) ==
  /\ t \in rec[n].todo
  /\ \/ EnqueueWithRoute(n, rec[n].pass, t, RouteOf(rec[n].pass, t)) /\ UNCHANGED faults
     \/ \E shard \in Shards : Fault /\ EnqueueWithRoute(n, rec[n].pass, t, shard)
  /\ rec' = [rec EXCEPT ![n].todo = @ \ {t}]
  /\ UNCHANGED <<dbVars, guard, api, pc, seen, crashes>>

\* ... does the same for PAY_SUCCESS ...
RecoverPaySuccess(n) ==
  /\ rec[n].pass = "INIT" /\ rec[n].todo = {}
  /\ List(n, "PAY_SUCCESS")
  /\ UNCHANGED <<dbVars, guard, api, queueVars, pc, seen, crashes>>

\* ... and waits for the next tick
RecoverEnd(n) ==
  /\ rec[n].pass = "PAY_SUCCESS" /\ rec[n].todo = {}
  /\ rec' = [rec EXCEPT ![n].pass = "idle"]
  /\ UNCHANGED <<dbVars, guard, api, queueVars, pc, seen, faults, crashes>>

-----------------------------------------------------------------------------
(* The environment: time, crashes, administrators, merchants *)

\* the stale threshold passes for a row that does not move
GrowStale(t) ==
  /\ status[t] \in Stages /\ t \notin stale
  /\ stale' = stale \cup {t}
  /\ UNCHANGED <<status, refundable, balance, debits, credits, caps, hookOn, events,
                 guard, api, queueVars, pc, seen, rec, faults, crashes>>

\* a processing key lives for the guard's TTL, however slow its worker is
GuardExpire(t, s) ==
  /\ <<t, s>> \in guard
  /\ guard' = guard \ {<<t, s>>}
  /\ UNCHANGED <<dbVars, api, queueVars, pc, seen, rec, faults, crashes>>

\* an instance dies and is started again: its memory is gone, its keys remain
Crash(n) ==
  /\ crashes < MaxCrashes
  /\ crashes' = crashes + 1
  /\ api' = [x \in Nodes \X Txns |-> IF x[1] = n THEN "idle" ELSE api[x]]
  /\ chan' = [w \in Workers |-> IF w[1] = n THEN << >> ELSE chan[w]]
  /\ pending' = [x \in Nodes \X Stages |-> IF x[1] = n THEN {} ELSE pending[x]]
  /\ pc' = [w \in Workers |-> IF w[1] = n THEN "idle" ELSE pc[w]]
  /\ seen' = [w \in Workers |-> IF w[1] = n THEN "NONE" ELSE seen[w]]
  /\ rec' = [rec EXCEPT ![n] = [pass |-> "idle", todo |-> {}]]
  /\ UNCHANGED <<dbVars, guard, faults>>

UpdateAccountCapabilities(a, c) ==
  /\ caps' = [caps EXCEPT ![a] = c]
  /\ UNCHANGED <<status, refundable, balance, debits, credits, hookOn, events, stale,
                 guard, api, queueVars, pc, seen, rec, faults, crashes>>

UpsertWebhookConfig(enabled) ==
  /\ hookOn' = enabled
  /\ UNCHANGED <<status, refundable, balance, debits, credits, caps, events, stale,
                 guard, api, queueVars, pc, seen, rec, faults, crashes>>

-----------------------------------------------------------------------------
Init ==
  /\ status = [t \in Txns |-> "NONE"]
  /\ refundable = [t \in Txns |-> 0]
  /\ balance = InitBalance
  /\ debits = [t \in Txns |-> 0]
  /\ credits = [t \in Txns |-> 0]
  /\ caps = [a \in Accounts |-> Caps]
  /\ hookOn = TRUE
  /\ events = {}
  /\ stale = {}
  /\ guard = {}
  /\ api = [x \in Nodes \X Txns |-> "idle"]
  /\ chan = [w \in Workers |-> << >>]
  /\ pending = [x \in Nodes \X Stages |-> {}]
  /\ pc = [w \in Workers |-> "idle"]
  /\ seen = [w \in Workers |-> "NONE"]
  /\ rec = [n \in Nodes |-> [pass |-> "idle", todo |-> {}]]
  /\ faults = 0
  /\ crashes = 0

WorkerStep(w) ==
  \/ TryBegin(w) \/ TryBeginRefused(w)
  \/ StageApplied(w) \/ StageNotApplied(w) \/ StageRefused(w) \/ StageError(w)
  \/ FailTxn(w) \/ EnqueueNext(w) \/ EndStage(w)

RecoveryStep(n) ==
  \/ RecoverInit(n) \/ RecoverPaySuccess(n) \/ RecoverEnd(n)
  \/ \E t \in Txns : RecoverEnqueue(n, t)

Next ==
  \/ \E n \in Nodes, t \in Txns :
       SubmitCheck(n, t) \/ CreateTransferTxn(n, t) \/ EnqueueTxn(n, t)
  \/ \E w \in Workers : WorkerStep(w)
  \/ \E n \in Nodes : RecoveryStep(n) \/ Crash(n)
  \/ \E t \in Txns : GrowStale(t)
  \/ \E t \in Txns, s \in Stages : GuardExpire(t, s)
  \/ \E a \in Accounts, c \in CapUpdates : UpdateAccountCapabilities(a, c)
  \/ \E enabled \in HookUpdates : UpsertWebhookConfig(enabled)

Spec == Init /\ [][Next]_vars

-----------------------------------------------------------------------------
(* Safety *)

\* Every variable stays in the range the columns, keys and in-memory structures of
\* the code have; in particular refundable_amount never goes below zero.
TypeOK ==
  /\ status \in [Txns -> Statuses]
  /\ refundable \in [Txns -> Nat]
  /\ balance \in [Accounts -> Int]
  /\ debits \in [Txns -> Nat]
  /\ credits \in [Txns -> Nat]
  /\ caps \in [Accounts -> SUBSET Caps]
  /\ hookOn \in BOOLEAN
  /\ events \subseteq Txns
  /\ stale \subseteq Txns
  /\ guard \subseteq Txns \X Stages
  /\ api \in [Nodes \X Txns -> {"idle", "checked", "created"}]
  /\ chan \in [Workers -> Seq(Txns)]
  /\ pending \in [Nodes \X Stages -> SUBSET Txns]
  /\ pc \in [Workers -> {"idle", "apply", "enqueue", "fail", "end"}]
  /\ seen \in [Workers -> Statuses]
  /\ rec \in [Nodes -> [pass : Stages \cup {"idle"}, todo : SUBSET Txns]]
  /\ faults \in 0 .. MaxFaults
  /\ crashes \in 0 .. MaxCrashes

\* A txn is debited and credited at most once, and its rows in account_change_log
\* agree with its status, however often its stages are run: by two instances after
\* the processing key expired, again after a crash or a lost commit answer, or
\* while another worker is failing it.  A FAILED txn has moved no money.
ExactlyOnce ==
  \A t \in Txns :
    /\ debits[t] = IF status[t] \in {"PAY_SUCCESS", "RECV_SUCCESS"} THEN 1 ELSE 0
    /\ credits[t] = IF status[t] = "RECV_SUCCESS" THEN 1 ELSE 0

InFlight == {t \in Txns : status[t] = "PAY_SUCCESS"}

\* Money is neither made nor lost: the balances and the amounts debited but not
\* yet credited (status PAY_SUCCESS) always add up to the initial balances.
Conservation ==
  SumOver(balance, Accounts) + SumOver(Amounts, InFlight) = SumOver(InitBalance, Accounts)

\* what an account with a limit may not be taken below
Floor(a) == IF a \in AllowOverdraft THEN -MaxOverdraftLimit[a] ELSE 0
Unlimited == {a \in AllowOverdraft : MaxOverdraftLimit[a] = 0}

\* No debit takes an account below its overdraft limit, whichever txns compete for
\* the balance (validateDebitBalanceOnly under the account's row lock).
WithinOverdraft ==
  \A a \in Accounts \ Unlimited : InitBalance[a] >= Floor(a) => balance[a] >= Floor(a)

\* where a txn is in the channels of a stage: the shard and the position
Places(n, s, t) ==
  {x \in UNION {{k} \X DOMAIN chan[<<n, s, k>>] : k \in Shards} :
     chan[<<n, s, x[1]>>][x[2]] = t}

\* A txn that the queue counts as pending is in the channel of exactly one worker,
\* once, so that it will be worked on and leave: a leaked entry would make every
\* later enqueue of the txn, the recovery worker's included, a silent no-op.
PendingIsQueued ==
  \A n \in Nodes, s \in Stages : \A t \in Txns :
    IF t \in pending[<<n, s>>]
    THEN \E x \in Places(n, s, t) : Places(n, s, t) = {x}
    ELSE Places(n, s, t) = {}

\* The outbox event commits with the settlement, whatever crashes or fails around
\* it: no event without a settled txn and, as long as the merchant has not switched
\* its webhook off, no settled txn without its event.
EventWithSettlement ==
  \A t \in Txns :
    /\ t \in events => status[t] = "RECV_SUCCESS"
    /\ status[t] = "RECV_SUCCESS" /\ hookOn /\ TRUE \notin HookUpdates => t \in events

\* A status never moves back and a terminal one never changes, although a late
\* worker, the recovery worker and a failing worker may all hold the txn
\* (the status check of ApplyTxnStage, the WHERE clause of UpdateTransferTxnStatusFrom).
Rank == [s \in Statuses |-> CASE s = "NONE" -> 0 [] s = "INIT" -> 1
                              [] s = "PAY_SUCCESS" -> 2 [] OTHER -> 3]
StatusAdvances ==
  [][\A t \in Txns : status'[t] # status[t] => Rank[status'[t]] > Rank[status[t]]]_status

-----------------------------------------------------------------------------
(* Liveness *)

\* Workers keep running, the recovery ticker keeps ticking, time passes for a row
\* that does not move and for a processing key.  Clients, administrators, faults
\* and crashes owe nothing.
Fairness ==
  /\ \A w \in Workers : WF_vars(WorkerStep(w))
  /\ \A n \in Nodes : WF_vars(RecoveryStep(n))
  /\ \A t \in Txns : WF_vars(GrowStale(t))
  /\ \A t \in Txns, s \in Stages : WF_vars(GuardExpire(t, s))

FairSpec == Spec /\ Fairness

\* Every accepted txn ends RECV_SUCCESS or FAILED, although enqueues are dropped by
\* a full queue, swallowed by a pending entry or lost in a crash.
EventuallyTerminal ==
  \A t \in Txns : status[t] = "INIT" ~> status[t] \in Terminal

-----------------------------------------------------------------------------
(* The promise of the ledger *)

\* the journal is account_change_log
Contract == INSTANCE LedgerContract WITH
  From <- [t \in Txns |-> DebitAccount(t)],
  To <- [t \in Txns |-> CreditAccount(t)],
  Amt <- Amounts,
  RefundOf <- [t \in Txns |-> IF IsRefund(t) THEN {Origin(t)} ELSE {}],
  Opening <- InitBalance,
  Lowest <- [a \in Accounts |-> Floor(a)],
  accepted <- {t \in Txns : status[t] # "NONE"},
  rejected <- {t \in Txns : status[t] = "FAILED"},
  journal <- {e \in Txns \X {"debit", "credit"} :
                (IF e[2] = "debit" THEN debits ELSE credits)[e[1]] > 0}

\* Whatever the workers, the recovery worker, crashes and expired keys do, the txn
\* rows and the change log of the pipeline only ever take the steps of the contract.
ImplementsContract == Contract!ContractSpec

\* The balance column, which the stages read, compare and overwrite, is at any time
\* the opening balance plus the entries of the change log, for every account alone.
BalanceIsJournal == \A a \in Accounts : balance[a] = Contract!Holds(a)

\* What a transfer can still be refunded is its amount less every refund that has
\* been debited, so that concurrent refunds of one transfer never exceed it
\* (DecreaseOriginTxnRefundableIfValid rolls back with the refund's debit).
RefundableIsJournal ==
  \A o \in Txns : status[o] # "NONE" /\ ~IsRefund(o) =>
    refundable[o] = Contract!LeftToRefund(o)

=============================================================================
