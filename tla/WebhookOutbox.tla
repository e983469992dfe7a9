--------------------------- MODULE WebhookOutbox ---------------------------
(***************************************************************************)
(* The delivery of outbox events to the webhooks of merchants.             *)
(*                                                                         *)
(* An event is written with the settlement of its txn.  Every instance of  *)
(* the server polls for due events and also has workers that a hint, sent  *)
(* after the settlement, wakes for one txn.  A claim marks events          *)
(* PROCESSING for the 30 minutes of its lease; the events of a batch are   *)
(* then handled one after the other, each with a POST and a statement that *)
(* writes the outcome.  None of these statements looks at the status that  *)
(* it overwrites.                                                          *)
(*                                                                         *)
(* Times are abstracted to what the statements compare: whether            *)
(* next_retry_at has passed, whether a lease is over, whether a cache entry *)
(* has expired.  A txn has at most one event, and events are numbered in   *)
(* the order of created_at and id.                                         *)
(***************************************************************************)
EXTENDS Integers, Sequences, FiniteSets, FiniteSetsExt

CONSTANTS
  Events,      \* events, as numbers in the order of their creation
  Merchants,   \* merchant numbers
  MerchantOf,  \* the merchant of an event
  Instances,   \* instances of the server
  Pollers,     \* goroutines that run RunOnce
  Hinted,      \* goroutines that take hints from the queue of their instance
  InstanceOf,  \* the instance of a goroutine
  MaxRetries,  \* WEBHOOK_MAX_RETRIES
  BatchSize,   \* WEBHOOK_WORKER_BATCH_SIZE
  QueueSize,   \* WEBHOOK_ASYNC_QUEUE_SIZE
  MaxVersion,  \* bound: secrets of a merchant
  MaxConfigs,  \* bound: changes of the webhook configurations
  MaxFaults    \* bound: crashes, lost answers, statements that fail, overrun leases

Workers == Pollers \cup Hinted
On == "on"
Off == "off"

ASSUME EventAssumption ==
  Events \subseteq Nat /\ IsFiniteSet(Events)
ASSUME MerchantAssumption ==
  MerchantOf \in [Events -> Merchants]
ASSUME WorkerAssumption ==
  InstanceOf \in [Workers -> Instances] /\ Pollers \cap Hinted = {} /\ IsFiniteSet(Workers)
ASSUME LimitAssumption ==
  /\ MaxRetries \in Nat \ {0} /\ BatchSize \in Nat \ {0} /\ QueueSize \in Nat
  /\ MaxVersion \in Nat /\ MaxConfigs \in Nat /\ MaxFaults \in Nat

VARIABLES
  status,      \* outbox_event.status; "NONE": there is no row
  retry,       \* outbox_event.retry_count
  due,         \* events whose next_retry_at is NULL or has passed
  stale,       \* events whose updated_at is 30 minutes old
  config,      \* webhook_config: On if enabled with a URL, Off if not or missing
  configs,     \* changes of configurations so far
  secret,      \* version of the merchant's active secret, 0: none
  queue,       \* hints in the queue of an instance
  configCache, \* cached configuration of an instance and a merchant; Off: no entry
  secretCache, \* cached version of an instance and a merchant; 0: no entry
  pc,          \* what a goroutine does next
  held,        \* events of its batch that a goroutine has not finished
  seen,        \* retry_count of those events as the claim returned it
  acked,       \* events that the merchant has acknowledged
  unwanted,    \* events that were dropped as the webhook was switched off
  posts,       \* POSTs made for an event
  lost,        \* attempts for an event whose outcome was not written
  overruns,    \* leases of an event that ran out while a goroutine held it
  faults       \* faults so far

row == <<status, retry, due, stale>>
cache == <<configCache, secretCache>>
merchant == <<config, configs, secret>>
work == <<pc, held, seen>>
history == <<acked, unwanted, posts, lost, overruns, faults>>
vars == <<row, merchant, queue, cache, work, history>>

\* the goroutine handles the events of its batch in order
Current(w) == Min(held[w])
Merchant(w) == MerchantOf[Current(w)]
Cached(w) == <<InstanceOf[w], Merchant(w)>>

\* a step at which something fails that the code allows for
Fault == faults < MaxFaults /\ faults' = faults + 1

-----------------------------------------------------------------------------
(* Settlement and administration *)

\* InsertOutboxEvent, in the transaction of the settlement: only if the webhook of
\* the merchant is on
Settle(e) ==
  /\ status[e] = "NONE" /\ config[MerchantOf[e]] # Off
  /\ status' = [status EXCEPT ![e] = "PENDING"]
  /\ due' = due \cup {e}
  /\ UNCHANGED <<retry, stale, merchant, queue, cache, work, history>>

\* Enqueue, when the settlement has committed: a full queue drops the hint; one that is
\* queued may wait for any time
Enqueue(i, e) ==
  /\ status[e] = "PENDING" /\ retry[e] = 0 /\ Len(queue[i]) < QueueSize
  /\ e \notin {queue[i][n] : n \in DOMAIN queue[i]}
  /\ queue' = [queue EXCEPT ![i] = Append(@, e)]
  /\ UNCHANGED <<row, merchant, cache, work, history>>

UpsertWebhookConfig(m, u) ==
  /\ configs < MaxConfigs /\ config[m] # u
  /\ configs' = configs + 1
  /\ config' = [config EXCEPT ![m] = u]
  /\ UNCHANGED <<row, secret, queue, cache, work, history>>

\* RotateSecret, under the lock of the merchant's row: the other versions are
\* deactivated
RotateSecret(m) ==
  /\ secret[m] < MaxVersion
  /\ secret' = [secret EXCEPT ![m] = @ + 1]
  /\ UNCHANGED <<row, config, configs, queue, cache, work, history>>

-----------------------------------------------------------------------------
(* Claims *)

\* mutant: an event can be claimed while its lease lasts
DueAnyLease == {e \in Events : \/ status[e] = "PENDING" /\ e \in due
                               \/ status[e] = "PROCESSING"}

\* mutant: an event is claimed only once
DueOnce == {e \in Events : status[e] = "PENDING" /\ e \in due}

\* the condition of ClaimDueOutboxEvents
Due == {e \in Events : \/ status[e] = "PENDING" /\ e \in due
                       \/ status[e] = "PROCESSING" /\ e \in stale}

\* the first events that are due, at most as many as a batch holds
FirstDue == {e \in Due : Cardinality({f \in Due : f <= e}) <= BatchSize}

\* mutant: the claim by txn takes an event that was delivered or given up
DueOfTxnAnyStatus(e) == {f \in {e} : status[f] = "PROCESSING" => f \in stale}

\* ClaimDueOutboxEventsByTxnNo
DueOfTxn(e) == Due \cap {e}

\* the UPDATE of a claim, and what it returns
Claim(w, S) ==
  /\ status' = [e \in Events |-> IF e \in S THEN "PROCESSING" ELSE status[e]]
  /\ stale' = stale \ S
  /\ held' = [held EXCEPT ![w] = S]
  /\ seen' = [seen EXCEPT ![w] = [e \in Events |-> IF e \in S THEN retry[e] ELSE 0]]
  /\ pc' = [pc EXCEPT ![w] = IF S = {} THEN "idle" ELSE "config"]

\* RunOnce
RunOnce(w) ==
  /\ w \in Pollers /\ pc[w] = "idle" /\ FirstDue # {}
  /\ Claim(w, FirstDue)
  /\ UNCHANGED <<retry, due, merchant, queue, cache, history>>

\* DeliverTxn, for the hint at the head of the queue
DeliverTxn(w) ==
  LET i == InstanceOf[w]
  IN /\ w \in Hinted /\ pc[w] = "idle" /\ queue[i] # << >>
     /\ Claim(w, DueOfTxn(Head(queue[i])))
     /\ queue' = [queue EXCEPT ![i] = Tail(@)]
     /\ UNCHANGED <<retry, due, merchant, cache, history>>

\* the claim is committed, and its answer is lost
ClaimLost(w) ==
  /\ w \in Pollers /\ pc[w] = "idle" /\ FirstDue # {}
  /\ Fault
  /\ status' = [e \in Events |-> IF e \in FirstDue THEN "PROCESSING" ELSE status[e]]
  /\ stale' = stale \ FirstDue
  /\ UNCHANGED <<retry, due, merchant, queue, cache, work, acked, unwanted, posts, lost, overruns>>

-----------------------------------------------------------------------------
(* handleEvent, for the current event of goroutine w *)

Goto(w, label) == pc' = [pc EXCEPT ![w] = label]

\* getWebhookConfig and what follows: a webhook that is off ends the event
GetWebhookConfig(w) ==
  /\ pc[w] = "config"
  /\ LET u == IF configCache[Cached(w)] # Off THEN configCache[Cached(w)] ELSE config[Merchant(w)]
     IN /\ configCache' = [configCache EXCEPT ![Cached(w)] = u]
        /\ unwanted' = IF u = Off THEN unwanted \cup {Current(w)} ELSE unwanted
        /\ Goto(w, IF u = Off THEN "success" ELSE "secret")
  /\ UNCHANGED <<row, merchant, queue, secretCache, held, seen, acked, posts, lost, overruns, faults>>

\* getActiveSecret: without one the event is tried again later
GetActiveSecret(w) ==
  /\ pc[w] = "secret"
  /\ LET v == IF secretCache[Cached(w)] # 0 THEN secretCache[Cached(w)] ELSE secret[Merchant(w)]
     IN /\ secretCache' = [secretCache EXCEPT ![Cached(w)] = v]
        /\ Goto(w, IF v = 0 THEN "retry" ELSE "post")
  /\ UNCHANGED <<row, merchant, queue, configCache, held, seen, history>>

\* the read of the configuration or the secret fails
ReadFails(w) ==
  /\ pc[w] \in {"config", "secret"}
  /\ Fault
  /\ Goto(w, "retry")
  /\ UNCHANGED <<row, merchant, queue, cache, held, seen, acked, unwanted, posts, lost, overruns>>

\* deliver: the merchant answers 2xx
DeliverAcked(w) ==
  /\ pc[w] = "post"
  /\ acked' = acked \cup {Current(w)}
  /\ posts' = [posts EXCEPT ![Current(w)] = @ + 1]
  /\ Goto(w, "success")
  /\ UNCHANGED <<row, merchant, queue, cache, held, seen, unwanted, lost, overruns, faults>>

\* mutant: an answer other than 2xx counts as delivered
DeliverFailedAsSuccess(w) ==
  /\ pc[w] = "post"
  /\ posts' = [posts EXCEPT ![Current(w)] = @ + 1]
  /\ Goto(w, "success")
  /\ UNCHANGED <<row, merchant, queue, cache, held, seen, acked, unwanted, lost, overruns, faults>>

\* deliver: another answer, or none in time although the merchant may have the event
DeliverFailed(w) ==
  /\ pc[w] = "post"
  /\ posts' = [posts EXCEPT ![Current(w)] = @ + 1]
  /\ Goto(w, "retry")
  /\ UNCHANGED <<row, merchant, queue, cache, held, seen, acked, unwanted, lost, overruns, faults>>

\* the goroutine turns to the next event of its batch
Finish(w) ==
  /\ held' = [held EXCEPT ![w] = @ \ {Current(w)}]
  /\ Goto(w, IF held[w] = {Current(w)} THEN "idle" ELSE "config")
  /\ seen' = [seen EXCEPT ![w][Current(w)] = 0]

\* MarkOutboxEventSuccess
MarkSuccess(w) ==
  /\ pc[w] = "success"
  /\ status' = [status EXCEPT ![Current(w)] = "SUCCESS"]
  /\ stale' = stale \ {Current(w)}
  /\ Finish(w)
  /\ UNCHANGED <<retry, due, merchant, queue, cache, history>>

\* mutant: one retry too many
DeadAfter(n) == n > MaxRetries

Dead(n) == n >= MaxRetries

\* markRetry and MarkOutboxEventRetry: the count is the one that the claim returned
MarkRetry(w) ==
  LET e == Current(w)
      n == seen[w][e] + 1
  IN /\ pc[w] = "retry"
     /\ retry' = [retry EXCEPT ![e] = n]
     /\ status' = [status EXCEPT ![e] = IF Dead(n) THEN "DEAD" ELSE "PENDING"]
     /\ due' = due \ {e}
     /\ stale' = stale \ {e}
     /\ Finish(w)
     /\ UNCHANGED <<merchant, queue, cache, history>>

\* the statement that writes the outcome fails, which the code ignores
MarkFails(w) ==
  /\ pc[w] \in {"success", "retry"}
  /\ Fault
  /\ lost' = [lost EXCEPT ![Current(w)] = @ + 1]
  /\ Finish(w)
  /\ UNCHANGED <<row, merchant, queue, cache, acked, unwanted, posts, overruns>>

-----------------------------------------------------------------------------
(* Time and crashes *)

\* next_retry_at passes
RetryDue(e) ==
  /\ status[e] = "PENDING" /\ e \notin due
  /\ due' = due \cup {e}
  /\ UNCHANGED <<status, retry, stale, merchant, queue, cache, work, history>>

Holders(e) == {w \in Workers : e \in held[w]}

\* 30 minutes have passed since the claim
LeaseExpire(e) ==
  /\ status[e] = "PROCESSING" /\ e \notin stale /\ Holders(e) = {}
  /\ stale' = stale \cup {e}
  /\ UNCHANGED <<status, retry, due, merchant, queue, cache, work, history>>

\* ... and a goroutine has still not finished the event
LeaseOverrun(e) ==
  /\ status[e] = "PROCESSING" /\ e \notin stale /\ Holders(e) # {}
  /\ Fault
  /\ stale' = stale \cup {e}
  /\ overruns' = [overruns EXCEPT ![e] = @ + 1]
  /\ UNCHANGED <<status, retry, due, merchant, queue, cache, work, acked, unwanted, posts, lost>>

\* an entry of a cache is older than its TTL
CacheExpire(i, m) ==
  /\ <<configCache[<<i, m>>], secretCache[<<i, m>>]>> # <<Off, 0>>
  /\ \/ configCache' = [configCache EXCEPT ![<<i, m>>] = Off] /\ UNCHANGED secretCache
     \/ secretCache' = [secretCache EXCEPT ![<<i, m>>] = 0] /\ UNCHANGED configCache
  /\ UNCHANGED <<row, merchant, queue, work, history>>

\* an instance dies and starts again
Crash(i) ==
  /\ Fault
  /\ queue' = [queue EXCEPT ![i] = << >>]
  /\ configCache' = [k \in DOMAIN configCache |-> IF k[1] = i THEN Off ELSE configCache[k]]
  /\ secretCache' = [k \in DOMAIN secretCache |-> IF k[1] = i THEN 0 ELSE secretCache[k]]
  /\ pc' = [w \in Workers |-> IF InstanceOf[w] = i THEN "idle" ELSE pc[w]]
  /\ held' = [w \in Workers |-> IF InstanceOf[w] = i THEN {} ELSE held[w]]
  /\ seen' = [w \in Workers |->
                IF InstanceOf[w] = i THEN [e \in Events |-> 0] ELSE seen[w]]
  /\ lost' = [e \in Events |->
                IF \E w \in Holders(e) : InstanceOf[w] = i THEN lost[e] + 1 ELSE lost[e]]
  /\ UNCHANGED <<row, merchant, acked, unwanted, posts, overruns>>

-----------------------------------------------------------------------------
Init ==
  /\ status = [e \in Events |-> "NONE"]
  /\ retry = [e \in Events |-> 0]
  /\ due = {} /\ stale = {}
  /\ config = [m \in Merchants |-> On] /\ configs = 0
  /\ secret = [m \in Merchants |-> 0]
  /\ queue = [i \in Instances |-> << >>]
  /\ configCache = [k \in Instances \X Merchants |-> Off]
  /\ secretCache = [k \in Instances \X Merchants |-> 0]
  /\ pc = [w \in Workers |-> "idle"]
  /\ held = [w \in Workers |-> {}]
  /\ seen = [w \in Workers |-> [e \in Events |-> 0]]
  /\ acked = {} /\ unwanted = {}
  /\ posts = [e \in Events |-> 0] /\ lost = [e \in Events |-> 0]
  /\ overruns = [e \in Events |-> 0] /\ faults = 0

\* what a goroutine does with the event it handles
Handle(w) ==
  \/ GetWebhookConfig(w) \/ GetActiveSecret(w)
  \/ DeliverAcked(w) \/ DeliverFailed(w)
  \/ MarkSuccess(w) \/ MarkRetry(w)

WorkerFault(w) == ClaimLost(w) \/ ReadFails(w) \/ MarkFails(w)

Next ==
  \/ \E e \in Events : \/ Settle(e) \/ RetryDue(e) \/ LeaseExpire(e) \/ LeaseOverrun(e)
                       \/ \E i \in Instances : Enqueue(i, e)
  \/ \E w \in Workers : RunOnce(w) \/ DeliverTxn(w) \/ Handle(w) \/ WorkerFault(w)
  \/ \E m \in Merchants : \/ RotateSecret(m)
                          \/ \E u \in {On, Off} : UpsertWebhookConfig(m, u)
                          \/ \E i \in Instances : CacheExpire(i, m)
  \/ \E i \in Instances : Crash(i)

Spec == Init /\ [][Next]_vars

\* pollers tick, goroutines go on, and time passes; hints, faults, changes by the
\* merchant and the expiry of caches are not guaranteed
Fairness ==
  /\ \A w \in Workers : WF_vars(Handle(w))
  /\ \A w \in Pollers : WF_vars(RunOnce(w))
  /\ \A e \in Events : WF_vars(RetryDue(e)) /\ WF_vars(LeaseExpire(e))

FairSpec == Spec /\ Fairness

-----------------------------------------------------------------------------
(* Properties *)

Labels == {"idle", "config", "secret", "post", "success", "retry"}

\* every variable has the values its column or field can have, and a retry count
\* stays within the limit
TypeOK ==
  /\ status \in [Events -> {"NONE", "PENDING", "PROCESSING", "SUCCESS", "DEAD"}]
  /\ retry \in [Events -> 0..MaxRetries]
  /\ due \subseteq Events /\ stale \subseteq Events
  /\ config \in [Merchants -> {On, Off}] /\ configs \in 0..MaxConfigs
  /\ secret \in [Merchants -> 0..MaxVersion]
  /\ queue \in [Instances -> Seq(Events)]
  /\ configCache \in [Instances \X Merchants -> {On, Off}]
  /\ secretCache \in [Instances \X Merchants -> 0..MaxVersion]
  /\ pc \in [Workers -> Labels]
  /\ held \in [Workers -> SUBSET Events]
  /\ seen \in [Workers -> [Events -> Nat]]
  /\ acked \subseteq Events /\ unwanted \subseteq Events
  /\ posts \in [Events -> Nat] /\ lost \in [Events -> Nat] /\ overruns \in [Events -> Nat]
  /\ faults \in 0..MaxFaults

\* events of which a goroutine has outlived its lease
Overrun == {e \in Events : overruns[e] > 0}

\* pollers and hinted goroutines of all instances never work on one event at the same
\* time, unless its lease ran out under one of them
OneHolder ==
  \A e \in Events \ Overrun : \A v, w \in Workers :
    (e \in held[v] /\ e \in held[w]) => v = w

\* an event that counts as delivered was acknowledged by the merchant, or the webhook
\* was off when it was handled: whatever crashed, was lost or ran late, no event is
\* written off as delivered that the merchant never had
SuccessIsEarned == \A e \in Events : status[e] = "SUCCESS" => e \in acked \cup unwanted

\* An event is sent at most MaxRetries times, and once more for every attempt whose outcome
\* could not be written.  A goroutine that outlives its lease adds a whole budget: it and
\* the goroutine that claims the event after it write the count that each of them read, so
\* that MarkOutboxEventRetry sets retry_count back over attempts that were made.
GivesUp == \A e \in Events : posts[e] <= MaxRetries * (1 + overruns[e]) + lost[e]

\* every event ends as delivered or dead and stays so, though hints are dropped, claims
\* and outcomes are lost and instances die
Converges == <>[](\A e \in Events : status[e] \in {"NONE", "SUCCESS", "DEAD"})

\* SUCCESS and DEAD are terminal (docs/requirements-design.md), although no statement
\* looks at the status it overwrites.  Excepted are events of which a goroutine has
\* outlived its lease: what it writes late brings them back.
TerminalIsFinal ==
  [][\A e \in Events \ Overrun :
       status[e] \in {"SUCCESS", "DEAD"} => status'[e] = status[e]]_vars
=============================================================================
