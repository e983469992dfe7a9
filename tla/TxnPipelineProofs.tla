-------------------------- MODULE TxnPipelineProofs --------------------------
(***************************************************************************)
(* Proofs about TxnPipeline, for any number of txns, accounts, instances,  *)
(* workers, faults and crashes: stages apply once, the queues leak         *)
(* nothing, money is conserved, and the pipeline implements its contract.  *)
(***************************************************************************)
EXTENDS TxnPipeline, SumTheorems

\* the time that the provers have for a step
USE SMTT(40), ZenonT(40)

\* What a worker holds while it is in processStage: an item; a status that has a
\* stage, if it is about to enqueue; the debit stage, if it is about to fail the txn.
\* The recovery worker has txns to enqueue only inside a pass.
InHand ==
  /\ \A w \in Workers :
       /\ pc[w] # "idle" => chan[w] # << >>
       /\ pc[w] = "enqueue" => seen[w] \in Stages
       /\ pc[w] = "fail" => w[2] = "INIT"
  /\ \A n \in Nodes : rec[n].todo # {} => rec[n].pass \in Stages

\* the inductive invariant
PipelineInv == TypeOK /\ InHand /\ ExactlyOnce /\ WithinOverdraft

-----------------------------------------------------------------------------
(* The parts of a txn and of a worker *)

\* The accounts, the amount and the origin of a txn are those of a request that
\* Submit accepted: known accounts and a positive amount.
LEMMA ReqParts ==
  ASSUME NEW t \in Txns
  PROVE  /\ Origin(t) \in Txns
         /\ Amount(t) \in Nat /\ Amount(t) > 0
         /\ DebitAccount(t) \in Accounts
         /\ CreditAccount(t) \in Accounts
BY ReqAssumption DEF Origin, Amount, DebitAccount, CreditAccount, Requests, IsRefund

\* stageRouteKey and workerIndex always pick one of the queue's workers.
LEMMA RouteInShards ==
  ASSUME NEW t \in Txns, NEW s \in Stages
  PROVE  RouteOf(s, t) \in Shards
BY ReqParts, QueueAssumption DEF RouteOf

\* A worker of startWorkers has an instance, a stage and a shard.
LEMMA WorkerParts ==
  ASSUME NEW w \in Workers
  PROVE  w[1] \in Nodes /\ w[2] \in Stages /\ w[3] \in Shards /\ w = <<w[1], w[2], w[3]>>
BY DEF Workers

\* What a worker takes from its channel is a txn.
LEMMA ItemInTxns ==
  ASSUME TypeOK, NEW w \in Workers, chan[w] # << >>
  PROVE  Item(w) \in Txns /\ Tail(chan[w]) \in Seq(Txns)
BY DEF TypeOK, Item

-----------------------------------------------------------------------------
(* The steps that several actions share *)

\* the part of TypeOK about the database
DbOK ==
  /\ status \in [Txns -> Statuses]
  /\ refundable \in [Txns -> Nat]
  /\ balance \in [Accounts -> Int]
  /\ debits \in [Txns -> Nat]
  /\ credits \in [Txns -> Nat]
  /\ caps \in [Accounts -> SUBSET Caps]
  /\ hookOn \in BOOLEAN
  /\ events \subseteq Txns
  /\ stale \subseteq Txns

\* ... and the part about the queues
QueueOK ==
  /\ chan \in [Workers -> Seq(Txns)]
  /\ pending \in [Nodes \X Stages -> SUBSET Txns]

\* EnqueueWithRoute keeps the types and empties no channel.
LEMMA EnqueueKeeps ==
  ASSUME QueueOK, NEW n \in Nodes, NEW s \in Stages, NEW t \in Txns, NEW shard \in Shards,
         EnqueueWithRoute(n, s, t, shard)
  PROVE  QueueOK' /\ \A w \in Workers : chan[w] # << >> => chan'[w] # << >>
<1>1. <<n, s, shard>> \in Workers /\ <<n, s>> \in Nodes \X Stages
  BY DEF Workers
<1>2. CASE UNCHANGED queueVars
  BY <1>2 DEF queueVars, QueueOK
<1>3. CASE /\ pending' = [pending EXCEPT ![<<n, s>>] = @ \cup {t}]
           /\ chan' = [chan EXCEPT ![<<n, s, shard>>] = Append(@, t)]
  <2>1. QueueOK'
    BY <1>1, <1>3 DEF QueueOK
  <2>2. ASSUME NEW w \in Workers, chan[w] # << >> PROVE chan'[w] # << >>
    <3>1. CASE w = <<n, s, shard>>
      <4>1. chan[w] \in Seq(Txns) /\ chan'[w] = Append(chan[w], t)
        BY <1>1, <1>3, <3>1 DEF QueueOK
      <4>2. Len(chan'[w]) > 0
        BY <4>1
      <4> QED BY <4>2
    <3>2. CASE w # <<n, s, shard>>
      BY <1>1, <1>3, <3>2, <2>2 DEF QueueOK
    <3> QED BY <3>1, <3>2
  <2> QED BY <2>1, <2>2
<1> QED BY <1>2, <1>3, ZenonT(40) DEF EnqueueWithRoute

\* Done keeps the types and touches no other worker's channel.
LEMMA DoneKeeps ==
  ASSUME QueueOK, NEW w \in Workers, chan[w] # << >>, Done(w)
  PROVE  QueueOK' /\ \A v \in Workers : v # w => chan'[v] = chan[v]
BY WorkerParts DEF QueueOK, Done

\* A committed stage keeps the types, moves the money of a txn once and respects
\* the overdraft limits.
LEMMA CommitKeeps ==
  ASSUME DbOK, ExactlyOnce, WithinOverdraft, NEW t \in Txns, NEW s \in Stages,
         CommitStage(t, s)
  PROVE  DbOK' /\ ExactlyOnce' /\ WithinOverdraft'
<1> USE ReqParts DEF Stages, Statuses, Terminal
<1>1. CASE s = "INIT" /\ ~DebitRefused(t) /\ DebitStage(t)
  <2>0. refundable' \in [Txns -> Nat]
    <3>1. CASE IsRefund(t)
      BY <1>1, <3>1 DEF DbOK, DebitStage, DebitRefused, OriginRefundable
    <3>2. CASE ~IsRefund(t)
      BY <1>1, <3>2 DEF DbOK, DebitStage
    <3> QED BY <3>1, <3>2
  <2>a. /\ status' \in [Txns -> Statuses]
        /\ balance' \in [Accounts -> Int]
        /\ debits' \in [Txns -> Nat]
        /\ stale' \subseteq Txns
    BY <1>1 DEF DbOK, DebitStage
  <2>b. UNCHANGED <<credits, caps, hookOn, events>>
    BY <1>1 DEF DebitStage
  <2>1. DbOK'
    BY <2>0, <2>a, <2>b, ZenonT(40) DEF DbOK
  <2>2. ExactlyOnce'
    BY <1>1 DEF CommitStage, DbOK, ExactlyOnce, DebitStage
  <2>3. WithinOverdraft'
    <3> SUFFICES ASSUME NEW a \in Accounts \ Unlimited, InitBalance[a] >= Floor(a)
                 PROVE  balance'[a] >= Floor(a)
      BY DEF WithinOverdraft
    <3>1. CanDebit(DebitAccount(t), Amount(t))
      BY <1>1 DEF DebitRefused
    <3>2. a = DebitAccount(t) => balance[a] - Amount(t) >= Floor(a)
      BY <3>1, AccountAssumption DEF DbOK, CanDebit, Floor, Unlimited
    <3>3. balance'[a] = IF a = DebitAccount(t) THEN balance[a] - Amount(t) ELSE balance[a]
      BY <1>1 DEF DbOK, DebitStage
    <3> QED BY <3>2, <3>3 DEF WithinOverdraft
  <2> QED BY <2>1, <2>2, <2>3
<1>2. CASE s = "PAY_SUCCESS" /\ CreditStage(t)
  <2>a. /\ status' \in [Txns -> Statuses]
        /\ balance' \in [Accounts -> Int]
        /\ credits' \in [Txns -> Nat]
        /\ stale' \subseteq Txns /\ events' \subseteq Txns
    BY <1>2 DEF DbOK, CreditStage
  <2>b. UNCHANGED <<refundable, debits, caps, hookOn>>
    BY <1>2 DEF CreditStage
  <2>1. DbOK'
    BY <2>a, <2>b, ZenonT(40) DEF DbOK
  <2>2. ExactlyOnce'
    BY <1>2 DEF CommitStage, DbOK, ExactlyOnce, CreditStage
  <2>3. WithinOverdraft'
    <3> SUFFICES ASSUME NEW a \in Accounts \ Unlimited, InitBalance[a] >= Floor(a)
                 PROVE  balance'[a] >= Floor(a)
      BY DEF WithinOverdraft
    <3>1. Floor(a) \in Int /\ balance[a] \in Int /\ balance[a] >= Floor(a)
      BY AccountAssumption DEF DbOK, WithinOverdraft, Floor
    <3>2. balance'[a] = IF a = CreditAccount(t) THEN balance[a] + Amount(t) ELSE balance[a]
      BY <1>2 DEF DbOK, CreditStage
    <3> QED BY <3>1, <3>2
  <2> QED BY <2>1, <2>2, <2>3
<1> QED BY <1>1, <1>2 DEF CommitStage

\* The freshly migrated database and started instances satisfy the invariant.
LEMMA InitInv == Init => PipelineInv
<1> SUFFICES ASSUME Init PROVE PipelineInv
  OBVIOUS
<1>1. TypeOK
  BY AccountAssumption, BoundAssumption DEF Init, TypeOK, Statuses, Stages
<1>2. InHand /\ ExactlyOnce
  BY DEF Init, InHand, ExactlyOnce
<1>3. WithinOverdraft
  BY AccountAssumption DEF Init, WithinOverdraft
<1> QED BY <1>1, <1>2, <1>3 DEF PipelineInv

-----------------------------------------------------------------------------
(* Every step keeps the invariant: one lemma for each actor *)

\* Database state that a step leaves alone keeps its invariants.
LEMMA DbUnchanged ==
  ASSUME DbOK, ExactlyOnce, WithinOverdraft, UNCHANGED dbVars
  PROVE  DbOK' /\ ExactlyOnce' /\ WithinOverdraft'
BY DEF DbOK, ExactlyOnce, WithinOverdraft, dbVars

\* Submit, CreateTransferTxn and enqueueTxn keep the invariant: a new row has moved
\* no money.
LEMMA ApiKeeps ==
  ASSUME PipelineInv, NEW n \in Nodes, NEW t \in Txns,
         SubmitCheck(n, t) \/ CreateTransferTxn(n, t) \/ EnqueueTxn(n, t)
  PROVE  PipelineInv'
<1> USE DEF PipelineInv
<1>0. <<n, t>> \in Nodes \X Txns
  BY ZenonT(40)
<1>1. CASE SubmitCheck(n, t)
  BY <1>0, <1>1, ZenonT(40)
  DEF SubmitCheck, TypeOK, InHand, ExactlyOnce, WithinOverdraft, dbVars, queueVars
<1>2. CASE CreateTransferTxn(n, t)
  <2>1. TypeOK'
    <3>1. InsertTxn(t) \/ UNCHANGED <<status, refundable>>
      BY <1>2 DEF CreateTransferTxn
    <3>2. status' \in [Txns -> Statuses] /\ refundable' \in [Txns -> Nat]
      <4>1. (IF IsRefund(t) THEN 0 ELSE Amount(t)) \in Nat
        BY ReqParts
      <4>2. CASE InsertTxn(t)
        <5>1. refundable' \in [Txns -> Nat]
          BY <4>1, <4>2 DEF InsertTxn, TypeOK
        <5>2. status' \in [Txns -> Statuses]
          BY <4>2, ZenonT(40) DEF InsertTxn, TypeOK, Statuses, Stages
        <5> QED BY <5>1, <5>2
      <4>3. CASE UNCHANGED <<status, refundable>>
        BY <4>3, ZenonT(40) DEF TypeOK
      <4> QED BY <3>1, <4>2, <4>3
    <3>3. faults' \in 0 .. MaxFaults
      BY <1>2, BoundAssumption DEF CreateTransferTxn, Fault, TypeOK
    <3>4. api' \in [Nodes \X Txns -> {"idle", "checked", "created"}]
      BY <1>0, <1>2, ZenonT(40) DEF CreateTransferTxn, TypeOK
    <3> QED BY <1>2, <3>2, <3>3, <3>4, ZenonT(40) DEF CreateTransferTxn, TypeOK, queueVars
  <2>2. ExactlyOnce'
    BY <1>2, ZenonT(40) DEF CreateTransferTxn, InsertTxn, TypeOK, ExactlyOnce
  <2>3. InHand' /\ WithinOverdraft'
    BY <1>2 DEF CreateTransferTxn, InHand, WithinOverdraft, queueVars
  <2> QED BY <2>1, <2>2, <2>3
<1>3. CASE EnqueueTxn(n, t)
  <2>1. QueueOK' /\ \A w \in Workers : chan[w] # << >> => chan'[w] # << >>
    BY <1>3, EnqueueKeeps, RouteInShards, ZenonT(40) DEF EnqueueTxn, TypeOK, QueueOK, Stages
  <2>2. TypeOK'
    BY <1>0, <1>3, <2>1, ZenonT(40) DEF EnqueueTxn, TypeOK, QueueOK, dbVars
  <2>3. InHand'
    BY <1>3, <2>1 DEF EnqueueTxn, InHand
  <2>4. ExactlyOnce' /\ WithinOverdraft'
    BY <1>3, ZenonT(40) DEF EnqueueTxn, ExactlyOnce, WithinOverdraft, dbVars
  <2> QED BY <2>2, <2>3, <2>4, ZenonT(40)
<1> QED BY <1>1, <1>2, <1>3

\* Every step of processStage keeps the invariant; only the stage transactions and
\* the failing of an INIT row touch what it says of the database.
LEMMA WorkerKeeps ==
  ASSUME PipelineInv, NEW w \in Workers, WorkerStep(w)
  PROVE  PipelineInv'
<1> USE DEF PipelineInv
<1>a. DbOK /\ QueueOK
  BY ZenonT(40) DEF TypeOK, DbOK, QueueOK
<1>b. w[1] \in Nodes /\ w[2] \in Stages
  BY WorkerParts
<1>c. pc[w] # "idle" \/ HasItem(w) => Item(w) \in Txns /\ chan[w] # << >>
  BY ItemInTxns DEF InHand, HasItem
<1>d. \A s : AfterStage(w, s) /\ s \in Statuses =>
        /\ pc' \in [Workers -> {"idle", "apply", "enqueue", "fail", "end"}]
        /\ seen' \in [Workers -> Statuses]
  <2>1. \A l \in {"enqueue", "end"} : Goto(w, l) =>
          pc' \in [Workers -> {"idle", "apply", "enqueue", "fail", "end"}]
    BY DEF Goto, TypeOK
  <2>2. ASSUME NEW s \in Statuses, seen' = [seen EXCEPT ![w] = s]
        PROVE  seen' \in [Workers -> Statuses]
    BY <2>2, ZenonT(40) DEF TypeOK
  <2> QED BY <2>1, <2>2, ZenonT(40) DEF AfterStage
<1>e. ASSUME NEW s \in Statuses, AfterStage(w, s), pc[w] = "apply", UNCHANGED <<chan, rec>>
      PROVE  InHand'
  BY <1>e, ZenonT(40) DEF AfterStage, Goto, TypeOK, InHand
<1>f. Fault => faults' \in 0 .. MaxFaults
  BY BoundAssumption DEF Fault, TypeOK
<1>1. CASE TryBegin(w)
  <2>1. guard' \subseteq Txns \X Stages
    <3>1. Item(w) \in Txns
      BY <1>1, <1>c, ZenonT(40) DEF TryBegin
    <3>2. guard \subseteq Txns \X Stages
      BY ZenonT(40) DEF TypeOK
    <3> QED BY <1>1, <1>b, <3>1, <3>2 DEF TryBegin
  <2>2. TypeOK'
    BY <1>1, <2>1, ZenonT(40) DEF TryBegin, Goto, TypeOK, dbVars, queueVars
  <2>3. InHand'
    BY <1>1, <1>c, ZenonT(40) DEF TryBegin, Goto, TypeOK, InHand, queueVars
  <2> QED BY <1>1, <2>2, <2>3, <1>a, DbUnchanged, ZenonT(40) DEF TryBegin
<1>2. CASE TryBeginRefused(w)
  <2>1. QueueOK' /\ \A v \in Workers : v # w => chan'[v] = chan[v]
    BY <1>2, <1>a, <1>c, DoneKeeps, ZenonT(40) DEF TryBeginRefused
  <2>2. guard' \subseteq Txns \X Stages /\ faults' \in 0 .. MaxFaults
    <3>1. Item(w) \in Txns
      BY <1>2, <1>c, ZenonT(40) DEF TryBeginRefused
    <3>2. guard \cup {<<Item(w), w[2]>>} \subseteq Txns \X Stages
      BY <1>b, <3>1 DEF TypeOK
    <3>3. guard \subseteq Txns \X Stages /\ faults \in 0 .. MaxFaults
      BY ZenonT(40) DEF TypeOK
    <3> QED BY <1>2, <1>f, <3>2, <3>3, ZenonT(40) DEF TryBeginRefused
  <2>3. TypeOK'
    BY <1>2, <2>1, <2>2, ZenonT(40) DEF TryBeginRefused, TypeOK, QueueOK, dbVars
  <2>4. InHand'
    BY <1>2, <2>1 DEF TryBeginRefused, InHand
  <2> QED BY <1>2, <2>3, <2>4, <1>a, DbUnchanged DEF TryBeginRefused
<1>3. CASE StageApplied(w)
  <2>1. NextStatus(w[2]) \in Statuses
    BY ZenonT(40) DEF NextStatus, Statuses, Stages, Terminal
  <2>2. DbOK' /\ ExactlyOnce' /\ WithinOverdraft'
    BY <1>3, <1>a, <1>b, <1>c, CommitKeeps, ZenonT(40) DEF StageApplied
  <2>3. TypeOK'
    BY <1>3, <1>d, <2>1, <2>2, ZenonT(40) DEF StageApplied, TypeOK, DbOK, queueVars
  <2>4. InHand'
    BY <1>3, <1>e, <2>1, ZenonT(40) DEF StageApplied, queueVars
  <2> QED BY <2>2, <2>3, <2>4, ZenonT(40)
<1>4. CASE StageNotApplied(w)
  <2>1. status[Item(w)] \in Statuses
    BY <1>4, <1>c, ZenonT(40) DEF StageNotApplied, TypeOK
  <2>2. TypeOK'
    BY <1>4, <1>d, <2>1, ZenonT(40) DEF StageNotApplied, TypeOK, dbVars, queueVars
  <2>3. InHand'
    BY <1>4, <1>e, <2>1, ZenonT(40) DEF StageNotApplied, queueVars
  <2> QED BY <1>4, <2>2, <2>3, <1>a, DbUnchanged DEF StageNotApplied
<1>5. CASE StageRefused(w)
  <2>1. TypeOK'
    BY <1>5, ZenonT(40) DEF StageRefused, Goto, TypeOK, dbVars, queueVars
  <2>2. InHand'
    BY <1>5, ZenonT(40) DEF StageRefused, Goto, TypeOK, InHand, queueVars
  <2> QED BY <1>5, <2>1, <2>2, <1>a, DbUnchanged, ZenonT(40) DEF StageRefused
<1>6. CASE StageError(w)
  <2>1. DbOK' /\ ExactlyOnce' /\ WithinOverdraft'
    BY <1>6, <1>a, <1>b, <1>c, CommitKeeps, DbUnchanged, ZenonT(40) DEF StageError
  <2>2. TypeOK'
    BY <1>6, <1>f, <2>1, ZenonT(40) DEF StageError, Goto, TypeOK, DbOK, queueVars
  <2>3. InHand'
    BY <1>6 DEF StageError, Goto, TypeOK, InHand, queueVars
  <2> QED BY <2>1, <2>2, <2>3, ZenonT(40)
<1>7. CASE FailTxn(w)
  <2>1. /\ status' \in [Txns -> Statuses] /\ stale' \subseteq Txns
        /\ faults' \in 0 .. MaxFaults
    <3>1. Item(w) \in Txns
      BY <1>7, <1>c, ZenonT(40) DEF FailTxn
    <3>2. /\ status \in [Txns -> Statuses] /\ stale \subseteq Txns
          /\ faults \in 0 .. MaxFaults
      BY DEF TypeOK
    <3>3. [status EXCEPT ![Item(w)] = "FAILED"] \in [Txns -> Statuses]
      BY <3>1, <3>2, ZenonT(40) DEF Statuses, Terminal
    <3> QED BY <1>7, <1>f, <3>2, <3>3, ZenonT(40) DEF FailTxn
  <2>2. TypeOK'
    BY <1>7, <2>1, ZenonT(40) DEF FailTxn, Goto, TypeOK, queueVars
  <2>3. InHand'
    BY <1>7, ZenonT(40) DEF FailTxn, Goto, TypeOK, InHand, queueVars
  <2>4. ExactlyOnce'
    <3>1. Item(w) \in Txns /\ w[2] = "INIT" /\ status \in [Txns -> Statuses]
      BY <1>7, <1>c, ZenonT(40) DEF FailTxn, InHand, TypeOK
    <3>2. CASE UNCHANGED status
      BY <1>7, <3>2, ZenonT(40) DEF FailTxn, ExactlyOnce
    <3>3. CASE /\ status[Item(w)] = w[2]
               /\ status' = [status EXCEPT ![Item(w)] = "FAILED"]
      BY <1>7, <3>1, <3>3, ZenonT(40) DEF FailTxn, ExactlyOnce
    <3> QED BY <1>7, <3>2, <3>3, ZenonT(40) DEF FailTxn
  <2>5. WithinOverdraft'
    BY <1>7 DEF FailTxn, WithinOverdraft
  <2> QED BY <2>2, <2>3, <2>4, <2>5, ZenonT(40)
<1>8. CASE EnqueueNext(w)
  <2>1. seen[w] \in Stages
    BY <1>8, ZenonT(40) DEF EnqueueNext, InHand
  <2>2. QueueOK' /\ \A v \in Workers : chan[v] # << >> => chan'[v] # << >>
    BY <1>8, <1>a, <1>b, <1>c, <2>1, EnqueueKeeps, RouteInShards, ZenonT(40) DEF EnqueueNext
  <2>3. TypeOK'
    BY <1>8, <2>2, ZenonT(40) DEF EnqueueNext, Goto, TypeOK, QueueOK, dbVars
  <2>4. InHand'
    BY <1>8, <2>2, ZenonT(40) DEF EnqueueNext, Goto, TypeOK, InHand
  <2> QED BY <1>8, <2>3, <2>4, <1>a, DbUnchanged, ZenonT(40) DEF EnqueueNext
<1>9. CASE EndStage(w)
  <2>1. QueueOK' /\ \A v \in Workers : v # w => chan'[v] = chan[v]
    BY <1>9, <1>a, <1>c, DoneKeeps, ZenonT(40) DEF EndStage
  <2>2. guard' \subseteq Txns \X Stages /\ faults' \in 0 .. MaxFaults
    BY <1>9, <1>f DEF EndStage, TypeOK
  <2>3. TypeOK'
    BY <1>9, <2>1, <2>2, ZenonT(40) DEF EndStage, Goto, TypeOK, QueueOK, Statuses, dbVars
  <2>4. InHand'
    BY <1>9, <2>1, ZenonT(40) DEF EndStage, Goto, TypeOK, InHand
  <2> QED BY <1>9, <2>3, <2>4, <1>a, DbUnchanged, ZenonT(40) DEF EndStage
<1> QED BY <1>1, <1>2, <1>3, <1>4, <1>5, <1>6, <1>7, <1>8, <1>9, ZenonT(40) DEF WorkerStep

\* RunOnce keeps the invariant: it only enqueues, and only statuses with a stage.
LEMMA RecoveryKeeps ==
  ASSUME PipelineInv, NEW n \in Nodes, RecoveryStep(n)
  PROVE  PipelineInv'
<1> USE DEF PipelineInv
<1>a. DbOK /\ QueueOK
  BY ZenonT(40) DEF TypeOK, DbOK, QueueOK
<1>b. Fault => faults' \in 0 .. MaxFaults
  BY BoundAssumption DEF Fault, TypeOK
<1>c. ASSUME NEW s \in Stages, List(n, s)
      PROVE  /\ rec' \in [Nodes -> [pass : Stages \cup {"idle"}, todo : SUBSET Txns]]
             /\ \A m \in Nodes : rec'[m].todo # {} => rec'[m].pass \in Stages
             /\ faults' \in 0 .. MaxFaults
  <2>1. StaleWith(s) \in SUBSET Txns
    BY ZenonT(40) DEF StaleWith, TypeOK
  <2>2. PICK T \in SUBSET Txns : rec' = [rec EXCEPT ![n] = [pass |-> s, todo |-> T]]
    BY <1>c, <2>1, ZenonT(40) DEF List
  <2>3. faults' \in 0 .. MaxFaults
    BY <1>c, <1>b, ZenonT(40) DEF List, TypeOK
  <2> QED BY <2>2, <2>3, ZenonT(40) DEF TypeOK, InHand
<1>1. CASE RecoverInit(n)
  <2>1. TypeOK' /\ InHand'
    BY <1>1, <1>c, ZenonT(40) DEF RecoverInit, TypeOK, InHand, Stages, dbVars, queueVars
  <2> QED BY <1>1, <2>1, <1>a, DbUnchanged, ZenonT(40) DEF RecoverInit
<1>2. CASE RecoverPaySuccess(n)
  <2>1. TypeOK' /\ InHand'
    BY <1>2, <1>c, ZenonT(40) DEF RecoverPaySuccess, TypeOK, InHand, Stages, dbVars, queueVars
  <2> QED BY <1>2, <2>1, <1>a, DbUnchanged, ZenonT(40) DEF RecoverPaySuccess
<1>3. CASE RecoverEnd(n)
  <2>1. TypeOK'
    <3>1. rec \in [Nodes -> [pass : Stages \cup {"idle"}, todo : SUBSET Txns]]
      BY DEF TypeOK
    <3>2. rec' = [rec EXCEPT ![n].pass = "idle"]
      BY <1>3 DEF RecoverEnd
    <3>3. rec' \in [Nodes -> [pass : Stages \cup {"idle"}, todo : SUBSET Txns]]
      BY <3>1, <3>2, ZenonT(40)
    <3> QED BY <1>3, <3>3, ZenonT(40) DEF RecoverEnd, TypeOK, dbVars, queueVars
  <2>2. InHand'
    BY <1>3 DEF RecoverEnd, TypeOK, InHand, queueVars
  <2> QED BY <1>3, <2>1, <2>2, <1>a, DbUnchanged, ZenonT(40) DEF RecoverEnd
<1>4. ASSUME NEW t \in Txns, RecoverEnqueue(n, t) PROVE PipelineInv'
  <2>1. rec[n].pass \in Stages
    BY <1>4 DEF RecoverEnqueue, InHand
  <2>2. QueueOK' /\ \A w \in Workers : chan[w] # << >> => chan'[w] # << >>
    BY <1>4, <1>a, <2>1, EnqueueKeeps, RouteInShards, ZenonT(40) DEF RecoverEnqueue
  <2>3. faults' \in 0 .. MaxFaults
    <3>1. UNCHANGED faults \/ Fault
      BY <1>4 DEF RecoverEnqueue
    <3> QED BY <3>1, <1>b DEF TypeOK
  <2>4. rec' \in [Nodes -> [pass : Stages \cup {"idle"}, todo : SUBSET Txns]]
    <3>1. rec \in [Nodes -> [pass : Stages \cup {"idle"}, todo : SUBSET Txns]]
      BY DEF TypeOK
    <3>2. rec' = [rec EXCEPT ![n].todo = @ \ {t}]
      BY <1>4, ZenonT(40) DEF RecoverEnqueue
    <3> QED BY <3>1, <3>2, ZenonT(40)
  <2>5. \A m \in Nodes : rec'[m].todo # {} => rec'[m].pass \in Stages
    BY <1>4, <2>1 DEF RecoverEnqueue, TypeOK, InHand
  <2>6. TypeOK'
    BY <1>4, <2>2, <2>3, <2>4, ZenonT(40) DEF RecoverEnqueue, TypeOK, QueueOK, dbVars
  <2>7. InHand'
    BY <1>4, <2>2, <2>5 DEF RecoverEnqueue, InHand
  <2> QED BY <1>4, <2>6, <2>7, <1>a, DbUnchanged, ZenonT(40) DEF RecoverEnqueue
<1> QED BY <1>1, <1>2, <1>3, <1>4, ZenonT(40) DEF RecoveryStep

\* Time, expired keys, crashes, capability patches and webhook changes keep it.
LEMMA EnvironmentKeeps ==
  ASSUME PipelineInv,
         \/ \E n \in Nodes : Crash(n)
         \/ \E t \in Txns : GrowStale(t)
         \/ \E t \in Txns, s \in Stages : GuardExpire(t, s)
         \/ \E a \in Accounts, c \in CapUpdates : UpdateAccountCapabilities(a, c)
         \/ \E enabled \in HookUpdates : UpsertWebhookConfig(enabled)
  PROVE  PipelineInv'
<1> USE DEF PipelineInv
<1>1. ASSUME NEW n \in Nodes, Crash(n) PROVE PipelineInv'
  <2>1. api' \in [Nodes \X Txns -> {"idle", "checked", "created"}]
    BY <1>1, ZenonT(40) DEF Crash, TypeOK
  <2>2. chan' \in [Workers -> Seq(Txns)]
    <3>1. chan \in [Workers -> Seq(Txns)]
      BY ZenonT(40) DEF TypeOK
    <3>2. << >> \in Seq(Txns)
      OBVIOUS
    <3> QED BY <1>1, <3>1, <3>2, ZenonT(40) DEF Crash
  <2>3. pending' \in [Nodes \X Stages -> SUBSET Txns]
    BY <1>1, ZenonT(40) DEF Crash, TypeOK
  <2>4. /\ pc' \in [Workers -> {"idle", "apply", "enqueue", "fail", "end"}]
        /\ seen' \in [Workers -> Statuses]
    BY <1>1, ZenonT(40) DEF Crash, TypeOK, Statuses
  <2>5. rec' \in [Nodes -> [pass : Stages \cup {"idle"}, todo : SUBSET Txns]]
    <3>1. [pass |-> "idle", todo |-> {}] \in [pass : Stages \cup {"idle"}, todo : SUBSET Txns]
      OBVIOUS
    <3> QED BY <1>1, <3>1, ZenonT(40) DEF Crash, TypeOK
  <2>6. crashes' \in 0 .. MaxCrashes
    <3>1. crashes \in 0 .. MaxCrashes
      BY DEF TypeOK
    <3>2. crashes < MaxCrashes /\ crashes' = crashes + 1
      BY <1>1, ZenonT(40) DEF Crash
    <3> HIDE DEF PipelineInv
    <3> QED BY <3>1, <3>2, BoundAssumption
  <2>7. TypeOK'
    BY <1>1, <2>1, <2>2, <2>3, <2>4, <2>5, <2>6, ZenonT(40) DEF Crash, TypeOK, dbVars
  <2>8. InHand'
    BY <1>1, ZenonT(40) DEF Crash, TypeOK, InHand
  <2> QED BY <1>1, <2>7, <2>8, DbUnchanged, ZenonT(40) DEF Crash, TypeOK, DbOK
<1>2. ASSUME NEW t \in Txns, GrowStale(t) PROVE PipelineInv'
  BY <1>2, ZenonT(40) DEF GrowStale, TypeOK, InHand, ExactlyOnce, WithinOverdraft, queueVars
<1>3. ASSUME NEW t \in Txns, NEW s \in Stages, GuardExpire(t, s) PROVE PipelineInv'
  BY <1>3, ZenonT(40)
  DEF GuardExpire, TypeOK, InHand, ExactlyOnce, WithinOverdraft, dbVars, queueVars
<1>4. ASSUME NEW a \in Accounts, NEW c \in CapUpdates, UpdateAccountCapabilities(a, c)
      PROVE  PipelineInv'
  BY <1>4, InputAssumption, ZenonT(40)
  DEF UpdateAccountCapabilities, TypeOK, InHand, ExactlyOnce, WithinOverdraft, queueVars
<1>5. ASSUME NEW enabled \in HookUpdates, UpsertWebhookConfig(enabled) PROVE PipelineInv'
  BY <1>5, InputAssumption
  DEF UpsertWebhookConfig, TypeOK, InHand, ExactlyOnce, WithinOverdraft, queueVars
<1> QED BY <1>1, <1>2, <1>3, <1>4, <1>5, ZenonT(40)

\* The invariant is inductive: one case for each group of steps of the system.
LEMMA NextInv == PipelineInv /\ [Next]_vars => PipelineInv'
<1> SUFFICES ASSUME PipelineInv, [Next]_vars PROVE PipelineInv'
  BY ZenonT(40)
<1>1. CASE Next
  BY <1>1, ApiKeeps, WorkerKeeps, RecoveryKeeps, EnvironmentKeeps, ZenonT(40) DEF Next
<1>2. CASE UNCHANGED vars
  BY <1>2, ZenonT(40)
  DEF vars, dbVars, queueVars, PipelineInv, TypeOK, InHand, ExactlyOnce, WithinOverdraft
<1> QED BY <1>1, <1>2

-----------------------------------------------------------------------------
(* The theorems *)

\* The conjunction of the invariants is inductive.
THEOREM PipelineInvariant == Spec => []PipelineInv
BY InitInv, NextInv, PTL DEF Spec

\* Every variable keeps its type; in particular no refund is ever taken that would
\* drive the refundable amount of its origin below zero.
THEOREM TypeCorrect == Spec => []TypeOK
<1>1. PipelineInv => TypeOK
  BY ZenonT(40) DEF PipelineInv
<1> QED BY <1>1, PipelineInvariant, PTL

\* However many instances run a stage, whenever a key expires or an instance dies, a
\* txn is debited once and credited once, and not at all when it FAILED.
THEOREM AppliedExactlyOnce == Spec => []ExactlyOnce
<1>1. PipelineInv => ExactlyOnce
  BY ZenonT(40) DEF PipelineInv
<1> QED BY <1>1, PipelineInvariant, PTL

\* No interleaving of debits takes an account below its limit.
THEOREM OverdraftRespected == Spec => []WithinOverdraft
<1>1. PipelineInv => WithinOverdraft
  BY ZenonT(40) DEF PipelineInv
<1> QED BY <1>1, PipelineInvariant, PTL

-----------------------------------------------------------------------------
(* How the rows of the ledger may move *)

ledgerVars == <<balance, debits, credits, events>>

\* The steps that change a row of txn, account, account_change_log or outbox_event: the
\* insert, a committed stage, the failing of a txn that still has the status the worker
\* expected.  Only a stage moves money and writes an event.
LedgerStep ==
  \/ UNCHANGED <<status, refundable, ledgerVars>>
  \/ \E t \in Txns : InsertTxn(t) /\ UNCHANGED ledgerVars
  \/ \E t \in Txns, s \in Stages : CommitStage(t, s)
  \/ \E t \in Txns : /\ status[t] = "INIT"
                     /\ status' = [status EXCEPT ![t] = "FAILED"]
                     /\ UNCHANGED <<refundable, ledgerVars>>

\* Every step of the system is one of them for these rows.
LEMMA LedgerMoves ==
  ASSUME PipelineInv, [Next]_vars
  PROVE  LedgerStep
<1> USE DEF LedgerStep, ledgerVars
<1>1. ASSUME NEW n \in Nodes, NEW t \in Txns,
             SubmitCheck(n, t) \/ CreateTransferTxn(n, t) \/ EnqueueTxn(n, t)
      PROVE  LedgerStep
  BY <1>1, ZenonT(40) DEF SubmitCheck, CreateTransferTxn, EnqueueTxn, dbVars
<1>2. ASSUME NEW w \in Workers, WorkerStep(w) PROVE LedgerStep
  <2>1. pc[w] # "idle" => Item(w) \in Txns
    BY ItemInTxns, ZenonT(40) DEF PipelineInv, InHand
  <2>2. CASE StageApplied(w) \/ StageError(w)
    BY <2>1, <2>2, WorkerParts, ZenonT(40) DEF StageApplied, StageError, dbVars
  <2>3. CASE FailTxn(w)
    BY <2>1, <2>3, ZenonT(40) DEF FailTxn, PipelineInv, InHand
  <2>4. CASE \/ TryBegin(w) \/ TryBeginRefused(w) \/ StageNotApplied(w)
             \/ StageRefused(w) \/ EnqueueNext(w) \/ EndStage(w)
    BY <2>4, ZenonT(40) DEF TryBegin, TryBeginRefused, StageNotApplied, StageRefused, EnqueueNext,
                EndStage, dbVars
  <2> QED BY <1>2, <2>2, <2>3, <2>4, ZenonT(40) DEF WorkerStep
<1>3. ASSUME NEW n \in Nodes, RecoveryStep(n) PROVE LedgerStep
  BY <1>3 DEF RecoveryStep, RecoverInit, RecoverPaySuccess, RecoverEnd, RecoverEnqueue, dbVars
<1>4. CASE \/ \E n \in Nodes : Crash(n)
           \/ \E t \in Txns : GrowStale(t)
           \/ \E t \in Txns, s \in Stages : GuardExpire(t, s)
           \/ \E a \in Accounts, c \in CapUpdates : UpdateAccountCapabilities(a, c)
           \/ \E enabled \in HookUpdates : UpsertWebhookConfig(enabled)
  BY <1>4, ZenonT(40) DEF Crash, GrowStale, GuardExpire, UpdateAccountCapabilities,
              UpsertWebhookConfig, dbVars
<1>5. CASE UNCHANGED vars
  BY <1>5 DEF vars, dbVars
<1> QED BY <1>1, <1>2, <1>3, <1>4, <1>5, ZenonT(40) DEF Next

\* A status only moves forward, and RECV_SUCCESS and FAILED are final, whichever
\* late, recovering or failing worker still holds the txn.
THEOREM StatusNeverMovesBack == Spec => StatusAdvances
<1> DEFINE Forward == \A t \in Txns : status'[t] # status[t] =>
                        Rank[status'[t]] > Rank[status[t]]
<1>1. PipelineInv /\ [Next]_vars => [Forward]_status
  <2> SUFFICES ASSUME PipelineInv, [Next]_vars, NEW u \in Txns, status'[u] # status[u]
               PROVE  Rank[status'[u]] > Rank[status[u]]
    OBVIOUS
  <2>1. Rank["NONE"] = 0 /\ Rank["INIT"] = 1 /\ Rank["PAY_SUCCESS"] = 2
          /\ Rank["RECV_SUCCESS"] = 3 /\ Rank["FAILED"] = 3
    BY ZenonT(40) DEF Rank, Statuses, Stages, Terminal
  <2>2. status \in [Txns -> Statuses]
    BY DEF PipelineInv, TypeOK
  <2>3. ASSUME NEW t \in Txns, InsertTxn(t) PROVE Rank[status'[u]] > Rank[status[u]]
    BY <2>1, <2>2, <2>3 DEF InsertTxn
  <2>4. ASSUME NEW t \in Txns, NEW s \in Stages, CommitStage(t, s)
        PROVE  Rank[status'[u]] > Rank[status[u]]
    <3>1. CASE status[t] = "INIT" /\ status' = [status EXCEPT ![t] = "PAY_SUCCESS"]
      BY <2>1, <2>2, <3>1
    <3>2. CASE status[t] = "PAY_SUCCESS" /\ status' = [status EXCEPT ![t] = "RECV_SUCCESS"]
      BY <2>1, <2>2, <3>2
    <3> QED BY <2>4, <3>1, <3>2, ZenonT(40) DEF CommitStage, DebitStage, CreditStage
  <2>5. ASSUME NEW t \in Txns, status[t] = "INIT",
               status' = [status EXCEPT ![t] = "FAILED"]
        PROVE  Rank[status'[u]] > Rank[status[u]]
    BY <2>1, <2>2, <2>5
  <2> QED BY <2>3, <2>4, <2>5, LedgerMoves, ZenonT(40) DEF LedgerStep, ledgerVars
<1> QED BY <1>1, PipelineInvariant, PTL DEF Spec, StatusAdvances

-----------------------------------------------------------------------------
(* The outbox *)

\* A webhook that is only ever switched off has been on all the time if it is on.
LEMMA HookMoves ==
  ASSUME [Next]_vars, TRUE \notin HookUpdates, hookOn'
  PROVE  hookOn
<1>1. ASSUME NEW n \in Nodes, NEW t \in Txns,
             SubmitCheck(n, t) \/ CreateTransferTxn(n, t) \/ EnqueueTxn(n, t)
      PROVE  hookOn' = hookOn
  BY <1>1, ZenonT(40) DEF SubmitCheck, CreateTransferTxn, EnqueueTxn, dbVars
<1>2. ASSUME NEW w \in Workers, WorkerStep(w) PROVE hookOn' = hookOn
  BY <1>2, ZenonT(40) DEF WorkerStep, TryBegin, TryBeginRefused, StageApplied, StageNotApplied,
              StageRefused, StageError, FailTxn, EnqueueNext, EndStage, CommitStage,
              DebitStage, CreditStage, dbVars
<1>3. ASSUME NEW n \in Nodes, RecoveryStep(n) PROVE hookOn' = hookOn
  BY <1>3, ZenonT(40)
  DEF RecoveryStep, RecoverInit, RecoverPaySuccess, RecoverEnd, RecoverEnqueue, dbVars
<1>4. CASE \/ \E n \in Nodes : Crash(n)
           \/ \E t \in Txns : GrowStale(t)
           \/ \E t \in Txns, s \in Stages : GuardExpire(t, s)
           \/ \E a \in Accounts, c \in CapUpdates : UpdateAccountCapabilities(a, c)
  BY <1>4, ZenonT(40) DEF Crash, GrowStale, GuardExpire, UpdateAccountCapabilities, dbVars
<1>5. ASSUME NEW enabled \in HookUpdates, UpsertWebhookConfig(enabled) PROVE FALSE
  <2>1. hookOn' = enabled /\ enabled \in BOOLEAN
    BY <1>5, InputAssumption, ZenonT(40) DEF UpsertWebhookConfig
  <2> QED BY ZenonT(40), <1>5, <2>1
<1>6. CASE UNCHANGED vars
  BY <1>6 DEF vars, dbVars
<1> QED BY <1>1, <1>2, <1>3, <1>4, <1>5, <1>6, ZenonT(40) DEF Next

\* An outbox event is committed with the settlement of its txn: there is none for a
\* txn that is under way or FAILED, and none is lost.
THEOREM OutboxMatchesSettlement == Spec => []EventWithSettlement
<1>1. Init => EventWithSettlement
  BY DEF Init, EventWithSettlement
<1>2. PipelineInv /\ EventWithSettlement /\ [Next]_vars => EventWithSettlement'
  <2> SUFFICES ASSUME PipelineInv, EventWithSettlement, [Next]_vars PROVE EventWithSettlement'
    OBVIOUS
  <2>1. TRUE \notin HookUpdates /\ hookOn' => hookOn
    BY HookMoves, ZenonT(40)
  <2>2. status \in [Txns -> Statuses] /\ events \subseteq Txns
    BY DEF PipelineInv, TypeOK
  <2>3. UNCHANGED <<status, events>> => EventWithSettlement'
    BY <2>1, ZenonT(40) DEF EventWithSettlement
  <2>4. ASSUME NEW t \in Txns, InsertTxn(t), UNCHANGED events PROVE EventWithSettlement'
    BY <2>1, <2>2, <2>4, ZenonT(40) DEF EventWithSettlement, InsertTxn
  <2>5. ASSUME NEW t \in Txns, NEW s \in Stages, CommitStage(t, s)
        PROVE  EventWithSettlement'
    <3>1. CASE status[t] = "INIT" /\ DebitStage(t)
      BY <2>1, <2>2, <3>1, ZenonT(40) DEF EventWithSettlement, DebitStage
    <3>2. CASE CreditStage(t)
      <4>1. status' = [status EXCEPT ![t] = "RECV_SUCCESS"]
        BY <3>2, ZenonT(40) DEF CreditStage
      <4>2. events' = events \cup {t} \/ (events' = events /\ ~hookOn)
        BY <3>2 DEF CreditStage
      <4> QED BY <2>1, <2>2, <4>1, <4>2, ZenonT(40) DEF EventWithSettlement
    <3> QED BY <2>5, <3>1, <3>2, ZenonT(40) DEF CommitStage
  <2>6. ASSUME NEW t \in Txns, status[t] = "INIT",
               status' = [status EXCEPT ![t] = "FAILED"], UNCHANGED events
        PROVE  EventWithSettlement'
    BY <2>1, <2>2, <2>6, ZenonT(40) DEF EventWithSettlement
  <2> QED BY <2>3, <2>4, <2>5, <2>6, LedgerMoves, ZenonT(40) DEF LedgerStep, ledgerVars
<1> QED BY <1>1, <1>2, PipelineInvariant, PTL DEF Spec

-----------------------------------------------------------------------------
(* The queues *)

\* txn t is the i-th item of shard k of the queue of stage s on instance n
At(n, s, t, k, i) == i <= Len(chan[<<n, s, k>>]) /\ chan[<<n, s, k>>][i] = t
Positions == Nat \ {0}

\* PendingIsQueued without the sets: what is pending is somewhere, what is somewhere
\* is pending, and nothing is in two places.
QueueInv ==
  \A n \in Nodes, s \in Stages, t \in Txns :
    /\ t \in pending[<<n, s>>] => \E k \in Shards, i \in Positions : At(n, s, t, k, i)
    /\ \A k \in Shards, i \in Positions : At(n, s, t, k, i) => t \in pending[<<n, s>>]
    /\ \A k, l \in Shards, i, j \in Positions :
         At(n, s, t, k, i) /\ At(n, s, t, l, j) => k = l /\ i = j

\* The steps of the system, as the queues see them.
QueueStep ==
  \/ UNCHANGED queueVars
  \/ \E n \in Nodes, s \in Stages, t \in Txns, k \in Shards : EnqueueWithRoute(n, s, t, k)
  \/ \E w \in Workers : chan[w] # << >> /\ Done(w)
  \/ \E n \in Nodes : Crash(n)

\* Every step of the system is one of them: a worker that calls Done has an item.
LEMMA QueueMoves ==
  ASSUME PipelineInv, [Next]_vars
  PROVE  QueueStep
<1> USE DEF QueueStep
<1>1. ASSUME NEW n \in Nodes, NEW t \in Txns,
             SubmitCheck(n, t) \/ CreateTransferTxn(n, t) \/ EnqueueTxn(n, t)
      PROVE  QueueStep
  BY <1>1, RouteInShards, ZenonT(40) DEF SubmitCheck, CreateTransferTxn, EnqueueTxn, Stages
<1>2. ASSUME NEW w \in Workers, WorkerStep(w) PROVE QueueStep
  <2>1. pc[w] # "idle" => Item(w) \in Txns /\ chan[w] # << >>
    BY ItemInTxns, ZenonT(40) DEF PipelineInv, InHand
  <2>2. CASE TryBeginRefused(w) \/ EndStage(w)
    BY <2>1, <2>2, ZenonT(40) DEF TryBeginRefused, EndStage, HasItem
  <2>3. CASE EnqueueNext(w)
    <3>1. seen[w] \in Stages /\ w[1] \in Nodes /\ Item(w) \in Txns
      BY <2>1, <2>3, WorkerParts, ZenonT(40) DEF EnqueueNext, PipelineInv, InHand
    <3> QED BY <2>3, <3>1, RouteInShards, ZenonT(40) DEF EnqueueNext
  <2>4. CASE \/ TryBegin(w) \/ StageApplied(w) \/ StageNotApplied(w) \/ StageRefused(w)
             \/ StageError(w) \/ FailTxn(w)
    BY <2>4, ZenonT(40)
    DEF TryBegin, StageApplied, StageNotApplied, StageRefused, StageError, FailTxn
  <2> QED BY <1>2, <2>2, <2>3, <2>4, ZenonT(40) DEF WorkerStep
<1>3. ASSUME NEW n \in Nodes, RecoveryStep(n) PROVE QueueStep
  <2>1. CASE RecoverInit(n) \/ RecoverPaySuccess(n) \/ RecoverEnd(n)
    BY <2>1, ZenonT(40) DEF RecoverInit, RecoverPaySuccess, RecoverEnd
  <2>2. ASSUME NEW t \in Txns, RecoverEnqueue(n, t) PROVE QueueStep
    <3>1. rec[n].pass \in Stages
      BY <2>2 DEF RecoverEnqueue, PipelineInv, InHand
    <3> QED BY <2>2, <3>1, RouteInShards, ZenonT(40) DEF RecoverEnqueue
  <2> QED BY <1>3, <2>1, <2>2, ZenonT(40) DEF RecoveryStep
<1>4. CASE \/ \E t \in Txns : GrowStale(t)
           \/ \E t \in Txns, s \in Stages : GuardExpire(t, s)
           \/ \E a \in Accounts, c \in CapUpdates : UpdateAccountCapabilities(a, c)
           \/ \E enabled \in HookUpdates : UpsertWebhookConfig(enabled)
  BY <1>4, ZenonT(40) DEF GrowStale, GuardExpire, UpdateAccountCapabilities, UpsertWebhookConfig
<1>5. CASE UNCHANGED vars
  BY <1>5, ZenonT(40) DEF vars
<1> QED BY <1>1, <1>2, <1>3, <1>4, <1>5, ZenonT(40) DEF Next

\* It follows for queues whose places a step does not move.
LEMMA SameQueue ==
  ASSUME QueueInv, UNCHANGED queueVars
  PROVE  QueueInv'
<1>1. \A n, s, t, k, i : At(n, s, t, k, i)' <=> At(n, s, t, k, i)
  BY ZenonT(40) DEF queueVars, At
<1>2. pending' = pending
  BY DEF queueVars
<1> SUFFICES ASSUME NEW m \in Nodes, NEW r \in Stages, NEW u \in Txns
    PROVE  /\ u \in pending'[<<m, r>>] => \E l \in Shards, i \in Positions : At(m, r, u, l, i)'
           /\ \A l \in Shards, i \in Positions : At(m, r, u, l, i)' => u \in pending'[<<m, r>>]
           /\ \A l, p \in Shards, i, j \in Positions :
                At(m, r, u, l, i)' /\ At(m, r, u, p, j)' => l = p /\ i = j
  BY ZenonT(40) DEF QueueInv
<1>3. /\ u \in pending[<<m, r>>] => \E l \in Shards, i \in Positions : At(m, r, u, l, i)
      /\ \A l \in Shards, i \in Positions : At(m, r, u, l, i) => u \in pending[<<m, r>>]
      /\ \A l, p \in Shards, i, j \in Positions :
           At(m, r, u, l, i) /\ At(m, r, u, p, j) => l = p /\ i = j
  BY ZenonT(40) DEF QueueInv
<1> QED BY <1>1, <1>2, <1>3, ZenonT(40)

\* A txn that is enqueued is not pending, so it is nowhere, and goes to one place.
LEMMA EnqueueKeepsQueue ==
  ASSUME QueueOK, QueueInv, NEW n \in Nodes, NEW s \in Stages, NEW t \in Txns,
         NEW k \in Shards, EnqueueWithRoute(n, s, t, k)
  PROVE  QueueInv'
<1>1. CASE UNCHANGED queueVars
  BY <1>1, SameQueue
<1>2. CASE /\ t \notin pending[<<n, s>>]
           /\ pending' = [pending EXCEPT ![<<n, s>>] = @ \cup {t}]
           /\ chan' = [chan EXCEPT ![<<n, s, k>>] = Append(@, t)]
  <2>0. /\ <<n, s, k>> \in Workers /\ <<n, s>> \in Nodes \X Stages
        /\ chan[<<n, s, k>>] \in Seq(Txns)
    BY ZenonT(40) DEF QueueOK, Workers
  <2> DEFINE last == Len(chan[<<n, s, k>>]) + 1
  <2>1. ASSUME NEW m \in Nodes, NEW r \in Stages, NEW u \in Txns, NEW l \in Shards,
               NEW i \in Positions
        PROVE  At(m, r, u, l, i)' <=>
                 \/ At(m, r, u, l, i)
                 \/ m = n /\ r = s /\ u = t /\ l = k /\ i = last
    <3>1. CASE <<m, r, l>> = <<n, s, k>>
      <4>1. chan'[<<m, r, l>>] = Append(chan[<<n, s, k>>], t)
        BY <1>2, <2>0, <3>1, ZenonT(40) DEF QueueOK
      <4>2. /\ Len(Append(chan[<<n, s, k>>], t)) = last
            /\ \A j \in 1 .. Len(chan[<<n, s, k>>]) :
                 Append(chan[<<n, s, k>>], t)[j] = chan[<<n, s, k>>][j]
            /\ Append(chan[<<n, s, k>>], t)[last] = t
        BY <2>0
      <4>3. Len(chan[<<n, s, k>>]) \in Nat
        BY <2>0
      <4> QED BY <3>1, <4>1, <4>2, <4>3 DEF At, Positions
    <3>2. CASE <<m, r, l>> # <<n, s, k>>
      <4>1. <<m, r, l>> \in Workers
        BY ZenonT(40) DEF Workers
      <4>2. chan'[<<m, r, l>>] = chan[<<m, r, l>>]
        BY <1>2, <2>0, <3>2, <4>1, ZenonT(40) DEF QueueOK
      <4> QED BY <3>2, <4>2 DEF At
    <3> QED BY <3>1, <3>2, ZenonT(40)
  <2>2. ASSUME NEW m \in Nodes, NEW r \in Stages, NEW u \in Txns
        PROVE  u \in pending'[<<m, r>>] <=>
                 u \in pending[<<m, r>>] \/ (m = n /\ r = s /\ u = t)
    <3>1. <<m, r>> \in Nodes \X Stages
      BY ZenonT(40)
    <3> QED BY <1>2, <2>0, <3>1, ZenonT(40) DEF QueueOK
  <2>3. \A l \in Shards, i \in Positions : ~At(n, s, t, l, i)
    BY <1>2, ZenonT(40) DEF QueueInv
  <2>4. last \in Positions
    BY <2>0 DEF Positions
  <2> HIDE DEF last
  <2> SUFFICES ASSUME NEW m \in Nodes, NEW r \in Stages, NEW u \in Txns
      PROVE  /\ u \in pending'[<<m, r>>] => \E l \in Shards, i \in Positions : At(m, r, u, l, i)'
             /\ \A l \in Shards, i \in Positions : At(m, r, u, l, i)' => u \in pending'[<<m, r>>]
             /\ \A l, p \in Shards, i, j \in Positions :
                  At(m, r, u, l, i)' /\ At(m, r, u, p, j)' => l = p /\ i = j
    BY ZenonT(40) DEF QueueInv
  <2>5. CASE m = n /\ r = s /\ u = t
    <3>1. \A l \in Shards, i \in Positions : At(m, r, u, l, i)' <=> l = k /\ i = last
      BY <2>1, <2>3, <2>5, ZenonT(40)
    <3>2. u \in pending'[<<m, r>>]
      BY <2>2, <2>5, ZenonT(40)
    <3> QED BY <2>4, <3>1, <3>2, ZenonT(40)
  <2>6. CASE ~(m = n /\ r = s /\ u = t)
    <3>1. /\ u \in pending'[<<m, r>>] <=> u \in pending[<<m, r>>]
          /\ \A l \in Shards, i \in Positions : At(m, r, u, l, i)' <=> At(m, r, u, l, i)
      BY <2>1, <2>2, <2>6, ZenonT(40)
    <3> QED BY <3>1 DEF QueueInv
  <2> QED BY <2>5, <2>6, ZenonT(40)
<1> QED BY <1>1, <1>2, ZenonT(40) DEF EnqueueWithRoute

\* Done takes the item at the head out of its only place and moves up the others.
LEMMA DoneKeepsQueue ==
  ASSUME QueueOK, QueueInv, NEW w \in Workers, chan[w] # << >>, Done(w)
  PROVE  QueueInv'
<1> DEFINE n == w[1]
           s == w[2]
           k == w[3]
           t == Head(chan[w])
<1>0. /\ n \in Nodes /\ s \in Stages /\ k \in Shards /\ w = <<n, s, k>>
      /\ chan[w] \in Seq(Txns) /\ Len(chan[w]) \in Nat /\ Len(chan[w]) > 0
      /\ t \in Txns /\ t = chan[w][1]
  BY WorkerParts DEF QueueOK
<1>1. /\ chan' = [chan EXCEPT ![w] = Tail(@)]
      /\ pending' = [pending EXCEPT ![<<n, s>>] = @ \ {t}]
  BY DEF Done
<1> HIDE DEF n, s, k, t
<1>2. /\ Len(Tail(chan[w])) = Len(chan[w]) - 1
      /\ \A i \in 1 .. Len(chan[w]) - 1 : Tail(chan[w])[i] = chan[w][i + 1]
  BY <1>0
<1>3. ASSUME NEW m \in Nodes, NEW r \in Stages, NEW u \in Txns, NEW l \in Shards,
             NEW i \in Positions
      PROVE  At(m, r, u, l, i)' <=>
               IF <<m, r, l>> = w THEN At(m, r, u, l, i + 1) ELSE At(m, r, u, l, i)
  <2>1. CASE <<m, r, l>> = w
    <3>1. chan'[<<m, r, l>>] = Tail(chan[w])
      BY <1>1, <2>1, ZenonT(40) DEF QueueOK
    <3> QED BY <1>0, <1>2, <2>1, <3>1 DEF At, Positions
  <2>2. CASE <<m, r, l>> # w
    <3>1. <<m, r, l>> \in Workers
      BY DEF Workers
    <3>2. chan'[<<m, r, l>>] = chan[<<m, r, l>>]
      BY <1>1, <2>2, <3>1, ZenonT(40) DEF QueueOK
    <3> QED BY <2>2, <3>2, ZenonT(40) DEF At
  <2> QED BY <2>1, <2>2, ZenonT(40)
<1>4. ASSUME NEW m \in Nodes, NEW r \in Stages, NEW u \in Txns
      PROVE  u \in pending'[<<m, r>>] <=>
               u \in pending[<<m, r>>] /\ ~(m = n /\ r = s /\ u = t)
  <2>1. <<m, r>> \in Nodes \X Stages /\ <<n, s>> \in Nodes \X Stages
    BY <1>0, ZenonT(40)
  <2> QED BY <1>1, <2>1, ZenonT(40) DEF QueueOK
<1>a. 1 \in Positions /\ \A i \in Positions : i + 1 \in Positions /\ i + 1 # 1
  BY DEF Positions
<1>5. At(n, s, t, k, 1)
  BY <1>0 DEF At
<1>6. \A l \in Shards, i \in Positions : At(n, s, t, l, i) => l = k /\ i = 1
  <2>1. \A l, p \in Shards, i, j \in Positions :
          At(n, s, t, l, i) /\ At(n, s, t, p, j) => l = p /\ i = j
    BY <1>0, ZenonT(40) DEF QueueInv
  <2> QED BY <1>0, <1>5, <1>a, <2>1, ZenonT(40)
<1> SUFFICES ASSUME NEW m \in Nodes, NEW r \in Stages, NEW u \in Txns
    PROVE  /\ u \in pending'[<<m, r>>] => \E l \in Shards, i \in Positions : At(m, r, u, l, i)'
           /\ \A l \in Shards, i \in Positions : At(m, r, u, l, i)' => u \in pending'[<<m, r>>]
           /\ \A l, p \in Shards, i, j \in Positions :
                At(m, r, u, l, i)' /\ At(m, r, u, p, j)' => l = p /\ i = j
  BY ZenonT(40) DEF QueueInv
<1>7. /\ u \in pending[<<m, r>>] => \E l \in Shards, i \in Positions : At(m, r, u, l, i)
      /\ \A l \in Shards, i \in Positions : At(m, r, u, l, i) => u \in pending[<<m, r>>]
      /\ \A l, p \in Shards, i, j \in Positions :
           At(m, r, u, l, i) /\ At(m, r, u, p, j) => l = p /\ i = j
  BY ZenonT(40) DEF QueueInv
<1>8. ASSUME u \in pending'[<<m, r>>]
      PROVE  \E l \in Shards, i \in Positions : At(m, r, u, l, i)'
  <2>1. u \in pending[<<m, r>>] /\ ~(m = n /\ r = s /\ u = t)
    BY <1>4, <1>8, ZenonT(40)
  <2>2. PICK l \in Shards, i \in Positions : At(m, r, u, l, i)
    BY <1>7, <2>1, ZenonT(40)
  <2>3. CASE <<m, r, l>> = w
    <3>1. m = n /\ r = s /\ l = k /\ u # t
      BY <1>0, <2>1, <2>3
    <3>2. chan[w][i] = u
      BY <2>2, <2>3, ZenonT(40) DEF At
    <3>3. i # 1
      BY <1>0, <3>1, <3>2, ZenonT(40)
    <3>4. i - 1 \in Positions /\ (i - 1) + 1 = i
      BY <3>3 DEF Positions
    <3>5. At(m, r, u, l, (i - 1) + 1)
      BY <2>2, <3>4, ZenonT(40)
    <3>6. At(m, r, u, l, i - 1)'
      BY <1>3, <2>3, <3>4, <3>5, ZenonT(40)
    <3> QED BY <3>4, <3>6, ZenonT(40)
  <2>4. CASE <<m, r, l>> # w
    BY <1>3, <2>2, <2>4, ZenonT(40)
  <2> QED BY <2>3, <2>4, ZenonT(40)
<1>9. ASSUME NEW l \in Shards, NEW i \in Positions, At(m, r, u, l, i)'
      PROVE  u \in pending'[<<m, r>>]
  <2>1. CASE <<m, r, l>> = w
    <3>1. At(m, r, u, l, i + 1)
      BY <1>3, <1>9, <2>1, ZenonT(40)
    <3>3. ~(m = n /\ r = s /\ u = t)
      BY <1>6, <1>a, <3>1, ZenonT(40)
    <3> QED BY <1>4, <1>7, <1>a, <3>1, <3>3, ZenonT(40)
  <2>2. CASE <<m, r, l>> # w
    <3>1. At(m, r, u, l, i)
      BY <1>3, <1>9, <2>2, ZenonT(40)
    <3>2. ~(m = n /\ r = s /\ u = t)
      BY <1>0, <1>6, <2>2, <3>1, ZenonT(40)
    <3> QED BY <1>4, <1>7, <3>1, <3>2, ZenonT(40)
  <2> QED BY <2>1, <2>2, ZenonT(40)
<1>10. ASSUME NEW l \in Shards, NEW i \in Positions, NEW p \in Shards, NEW j \in Positions,
              At(m, r, u, l, i)', At(m, r, u, p, j)'
       PROVE  l = p /\ i = j
  <2>1. CASE <<m, r, l>> = w /\ <<m, r, p>> = w
    <3>1. At(m, r, u, l, i + 1) /\ At(m, r, u, p, j + 1)
      BY <1>3, <1>10, <2>1, ZenonT(40)
    <3>2. l = p /\ i + 1 = j + 1
      BY <1>7, <1>a, <3>1, ZenonT(40)
    <3> QED BY <3>2 DEF Positions
  <2>2. CASE <<m, r, l>> = w /\ <<m, r, p>> # w
    <3>1. At(m, r, u, l, i + 1) /\ At(m, r, u, p, j)
      BY <1>3, <1>10, <2>2, ZenonT(40)
    <3>2. l = p
      BY <1>7, <1>a, <3>1, ZenonT(40)
    <3> QED BY <2>2, <3>2, ZenonT(40)
  <2>3. CASE <<m, r, l>> # w /\ <<m, r, p>> = w
    <3>1. At(m, r, u, l, i) /\ At(m, r, u, p, j + 1)
      BY <1>3, <1>10, <2>3, ZenonT(40)
    <3>2. l = p
      BY <1>7, <1>a, <3>1, ZenonT(40)
    <3> QED BY <2>3, <3>2, ZenonT(40)
  <2>4. CASE <<m, r, l>> # w /\ <<m, r, p>> # w
    <3>1. At(m, r, u, l, i) /\ At(m, r, u, p, j)
      BY <1>3, <1>10, <2>4, ZenonT(40)
    <3> QED BY <1>7, <3>1, ZenonT(40)
  <2> QED BY <2>1, <2>2, <2>3, <2>4, ZenonT(40)
<1> QED BY <1>8, <1>9, <1>10, ZenonT(40)

\* A crash empties all queues of its instance and no other.
LEMMA CrashKeepsQueue ==
  ASSUME QueueOK, QueueInv, NEW n \in Nodes, Crash(n)
  PROVE  QueueInv'
<1>1. ASSUME NEW m \in Nodes, NEW r \in Stages, NEW u \in Txns, NEW l \in Shards,
             NEW i \in Positions
      PROVE  At(m, r, u, l, i)' <=> m # n /\ At(m, r, u, l, i)
  <2>1. <<m, r, l>> \in Workers
    BY ZenonT(40) DEF Workers
  <2>2. chan'[<<m, r, l>>] = IF m = n THEN << >> ELSE chan[<<m, r, l>>]
    BY <2>1 DEF Crash
  <2>3. Len(<< >>) = 0 /\ ~(i <= 0)
    BY DEF Positions
  <2> QED BY <2>2, <2>3, ZenonT(40) DEF At
<1>2. ASSUME NEW m \in Nodes, NEW r \in Stages
      PROVE  pending'[<<m, r>>] = IF m = n THEN {} ELSE pending[<<m, r>>]
  <2>1. <<m, r>> \in Nodes \X Stages
    OBVIOUS
  <2> QED BY <2>1, ZenonT(40) DEF Crash
<1> SUFFICES ASSUME NEW m \in Nodes, NEW r \in Stages, NEW u \in Txns
    PROVE  /\ u \in pending'[<<m, r>>] => \E l \in Shards, i \in Positions : At(m, r, u, l, i)'
           /\ \A l \in Shards, i \in Positions : At(m, r, u, l, i)' => u \in pending'[<<m, r>>]
           /\ \A l, p \in Shards, i, j \in Positions :
                At(m, r, u, l, i)' /\ At(m, r, u, p, j)' => l = p /\ i = j
  BY ZenonT(40) DEF QueueInv
<1>3. CASE m = n
  BY <1>1, <1>2, <1>3, ZenonT(40)
<1>4. CASE m # n
  <2>1. /\ pending'[<<m, r>>] = pending[<<m, r>>]
        /\ \A l \in Shards, i \in Positions : At(m, r, u, l, i)' <=> At(m, r, u, l, i)
    BY <1>1, <1>2, <1>4, ZenonT(40)
  <2> QED BY <2>1 DEF QueueInv
<1> QED BY <1>3, <1>4, ZenonT(40)

\* A txn that the queue counts as pending is in the channel of one worker, once, and no
\* other is in any: after any number of enqueues, drops, refusals by Redis and crashes no
\* entry is left behind that would swallow the recovery worker's enqueue.
THEOREM PendingIsInOneChannel == Spec => []PendingIsQueued
<1>1. Init => QueueInv
  <2> SUFFICES ASSUME Init PROVE QueueInv
    OBVIOUS
  <2>1. \A n \in Nodes, s \in Stages : pending[<<n, s>>] = {}
    BY ZenonT(40) DEF Init
  <2>2. ASSUME NEW n \in Nodes, NEW s \in Stages, NEW t \in Txns, NEW k \in Shards,
               NEW i \in Positions
        PROVE  ~At(n, s, t, k, i)
    <3>1. chan[<<n, s, k>>] = << >>
      BY DEF Init, Workers
    <3>2. Len(<< >>) = 0 /\ ~(i <= 0)
      BY DEF Positions
    <3> QED BY <3>1, <3>2, ZenonT(40) DEF At
  <2> SUFFICES ASSUME NEW n \in Nodes, NEW s \in Stages, NEW t \in Txns
      PROVE  /\ t \in pending[<<n, s>>] => \E k \in Shards, i \in Positions : At(n, s, t, k, i)
             /\ \A k \in Shards, i \in Positions : At(n, s, t, k, i) => t \in pending[<<n, s>>]
             /\ \A k, l \in Shards, i, j \in Positions :
                  At(n, s, t, k, i) /\ At(n, s, t, l, j) => k = l /\ i = j
    BY ZenonT(40) DEF QueueInv
  <2> QED BY <2>1, <2>2, ZenonT(40)
<1>2. PipelineInv /\ QueueInv /\ [Next]_vars => QueueInv'
  <2> SUFFICES ASSUME PipelineInv, QueueInv, [Next]_vars PROVE QueueInv'
    BY ZenonT(40)
  <2>1. QueueOK
    BY DEF PipelineInv, TypeOK, QueueOK
  <2> QED BY <2>1, SameQueue, QueueMoves, EnqueueKeepsQueue, DoneKeepsQueue, CrashKeepsQueue,
             ZenonT(40)
          DEF QueueStep
<1>3. PipelineInv /\ QueueInv => PendingIsQueued
  <2> SUFFICES ASSUME PipelineInv, QueueInv, NEW n \in Nodes, NEW s \in Stages, NEW t \in Txns
               PROVE  IF t \in pending[<<n, s>>]
                      THEN \E x \in Places(n, s, t) : Places(n, s, t) = {x}
                      ELSE Places(n, s, t) = {}
    BY ZenonT(40) DEF PendingIsQueued
  <2>1. \A k \in Shards : DOMAIN chan[<<n, s, k>>] = 1 .. Len(chan[<<n, s, k>>])
                            /\ Len(chan[<<n, s, k>>]) \in Nat
    <3>1. \A k \in Shards : <<n, s, k>> \in Workers
      BY ZenonT(40) DEF Workers
    <3>2. \A k \in Shards : chan[<<n, s, k>>] \in Seq(Txns)
      BY <3>1 DEF PipelineInv, TypeOK
    <3> QED BY <3>2
  <2>2. ASSUME NEW k \in Shards, NEW i \in Positions
        PROVE  At(n, s, t, k, i) <=> <<k, i>> \in Places(n, s, t)
    <3>1. <<k, i>> \in UNION {{l} \X DOMAIN chan[<<n, s, l>>] : l \in Shards}
            <=> i \in DOMAIN chan[<<n, s, k>>]
      <4>1. ASSUME i \in DOMAIN chan[<<n, s, k>>]
            PROVE  <<k, i>> \in {k} \X DOMAIN chan[<<n, s, k>>]
        BY <4>1
      <4>2. ASSUME NEW l \in Shards, <<k, i>> \in {l} \X DOMAIN chan[<<n, s, l>>]
            PROVE  i \in DOMAIN chan[<<n, s, k>>]
        BY <4>2, ZenonT(40)
      <4> QED BY <4>1, <4>2, ZenonT(40)
    <3>2. i \in DOMAIN chan[<<n, s, k>>] <=> i <= Len(chan[<<n, s, k>>])
      BY <2>1 DEF Positions
    <3>3. <<k, i>>[1] = k /\ <<k, i>>[2] = i
      OBVIOUS
    <3> QED BY <3>1, <3>2, <3>3, ZenonT(40) DEF At, Places
  <2>3. ASSUME NEW x \in Places(n, s, t)
        PROVE  x = <<x[1], x[2]>> /\ x[1] \in Shards /\ x[2] \in Positions
    <3>1. PICK k \in Shards : x \in {k} \X DOMAIN chan[<<n, s, k>>]
      BY ZenonT(40) DEF Places
    <3>2. x = <<x[1], x[2]>> /\ x[1] = k /\ x[2] \in DOMAIN chan[<<n, s, k>>]
      BY <3>1
    <3> QED BY <2>1, <3>2 DEF Positions
  <2>4. /\ t \in pending[<<n, s>>] => \E k \in Shards, i \in Positions : At(n, s, t, k, i)
        /\ \A k \in Shards, i \in Positions : At(n, s, t, k, i) => t \in pending[<<n, s>>]
        /\ \A k, l \in Shards, i, j \in Positions :
             At(n, s, t, k, i) /\ At(n, s, t, l, j) => k = l /\ i = j
    BY DEF QueueInv
  <2>5. CASE t \in pending[<<n, s>>]
    <3>1. PICK k \in Shards, i \in Positions : At(n, s, t, k, i)
      BY <2>4, <2>5, ZenonT(40)
    <3>2. \A x \in Places(n, s, t) : x = <<k, i>>
      BY <2>2, <2>3, <2>4, <3>1
    <3>3. <<k, i>> \in Places(n, s, t)
      BY <2>2, <3>1
    <3>4. Places(n, s, t) = {<<k, i>>}
      BY <3>2, <3>3, ZenonT(40)
    <3> QED BY <2>5, <3>3, <3>4, ZenonT(40)
  <2>6. CASE t \notin pending[<<n, s>>]
    <3>1. \A x \in Places(n, s, t) : FALSE
      BY <2>2, <2>3, <2>4, <2>6
    <3> QED BY <2>6, <3>1, ZenonT(40)
  <2> QED BY <2>5, <2>6, ZenonT(40)
<1> QED BY <1>1, <1>2, <1>3, PipelineInvariant, PTL DEF Spec

-----------------------------------------------------------------------------
(* Money: no step makes or loses any, the balance and refundable_amount columns *)
(* are the sums of the change log, and the pipeline implements LedgerContract   *)

\* The contract sums as the pipeline does.
LEMMA ContractSum ==
  ASSUME NEW f, NEW S
  PROVE  Contract!SumOver(f, S) = SumOver(f, S)
BY DEF SumOver, MapThenSumSet, MapThenFoldSet,
       Contract!SumOver, Contract!MapThenSumSet, Contract!MapThenFoldSet

\* Amounts are positive numbers, and every set of txns is finite.
LEMMA AmountsOK ==
  /\ \A t \in Txns : Amounts[t] = Amount(t) /\ Amounts[t] \in Nat /\ Amounts[t] \in Int
  /\ \A S \in SUBSET Txns : IsFiniteSet(S) /\ SumOver(Amounts, S) \in Int
<1>1. \A t \in Txns : Amounts[t] = Amount(t) /\ Amounts[t] \in Nat /\ Amounts[t] \in Int
  BY ReqParts DEF Amounts
<1>2. ASSUME NEW S \in SUBSET Txns PROVE IsFiniteSet(S)
  BY FS_Subset, FiniteAssumption, ZenonT(40)
<1>3. ASSUME NEW S \in SUBSET Txns PROVE SumOver(Amounts, S) \in Int
  <2>1. \A x \in S : Amounts[x] \in Int
    BY <1>1
  <2> QED BY <1>2, <2>1, SumType, ZenonT(40)
<1> QED BY <1>1, <1>2, <1>3, ZenonT(40)

-----------------------------------------------------------------------------
(* The journal, read off the statuses *)

Paid == {"PAY_SUCCESS", "RECV_SUCCESS"}

\* the txns that have taken from an account, those that have reached it, and the
\* refunds that have taken from a transfer
PaidFrom(a) == {t \in Txns : status[t] \in Paid /\ DebitAccount(t) = a}
PaidTo(a) == {t \in Txns : status[t] = "RECV_SUCCESS" /\ CreditAccount(t) = a}
RefundedFrom(o) == {t \in Txns : status[t] \in Paid /\ IsRefund(t) /\ Origin(t) = o}

\* A txn has its debit and its credit entry as its status says.
LEMMA JournalIsStatus ==
  ASSUME PipelineInv, NEW t \in Txns
  PROVE  /\ Contract!Debited(t) <=> status[t] \in Paid
         /\ Contract!Settled(t) <=> status[t] = "RECV_SUCCESS"
<1>1. /\ debits[t] = IF status[t] \in {"PAY_SUCCESS", "RECV_SUCCESS"} THEN 1 ELSE 0
      /\ credits[t] = IF status[t] = "RECV_SUCCESS" THEN 1 ELSE 0
  BY DEF PipelineInv, ExactlyOnce
<1>2. Contract!Debited(t) <=> debits[t] > 0
  BY DEF Contract!Debited
<1>3. Contract!Settled(t) <=> credits[t] > 0
  BY ZenonT(40) DEF Contract!Settled
<1> QED BY <1>1, <1>2, <1>3 DEF Paid

\* What an account holds and what is left to refund, as sums over txns.
LEMMA JournalSums ==
  ASSUME PipelineInv
  PROVE  /\ \A a \in Accounts :
              Contract!Holds(a) = InitBalance[a] + SumOver(Amounts, PaidTo(a))
                                                 - SumOver(Amounts, PaidFrom(a))
         /\ \A o \in Txns :
              Contract!LeftToRefund(o) = Amounts[o] - SumOver(Amounts, RefundedFrom(o))
<1>1. ASSUME NEW a \in Accounts
      PROVE  Contract!Holds(a) = InitBalance[a] + SumOver(Amounts, PaidTo(a))
                                                - SumOver(Amounts, PaidFrom(a))
  <2>1. {t \in Txns : Contract!Settled(t) /\ [u \in Txns |-> CreditAccount(u)][t] = a}
          = PaidTo(a)
    BY JournalIsStatus DEF PaidTo
  <2>2. {t \in Txns : Contract!Debited(t) /\ [u \in Txns |-> DebitAccount(u)][t] = a}
          = PaidFrom(a)
    BY JournalIsStatus DEF PaidFrom
  <2> QED BY <2>1, <2>2, ContractSum, ZenonT(40) DEF Contract!Holds
<1>2. ASSUME NEW o \in Txns
      PROVE  Contract!LeftToRefund(o) = Amounts[o] - SumOver(Amounts, RefundedFrom(o))
  <2>1. {t \in Txns : /\ Contract!Debited(t)
                      /\ o \in [u \in Txns |-> IF IsRefund(u) THEN {Origin(u)} ELSE {}][t]}
          = RefundedFrom(o)
    BY JournalIsStatus DEF RefundedFrom
  <2> QED BY <2>1, ContractSum, ZenonT(40) DEF Contract!LeftToRefund
<1> QED BY <1>1, <1>2

-----------------------------------------------------------------------------
(* The inductive invariant *)

\* A refund is debited only from a transfer that has settled, so a transfer that is
\* just being inserted has not been refunded.
RefundsFollow ==
  \A t \in Txns : status[t] \in Paid /\ IsRefund(t) =>
    status[Origin(t)] = "RECV_SUCCESS" /\ ~IsRefund(Origin(t))

MoneyInv ==
  PipelineInv /\ Conservation /\ BalanceIsJournal /\ RefundsFollow /\ RefundableIsJournal

\* the columns in terms of the sums
BalanceSums ==
  \A a \in Accounts : balance[a] = InitBalance[a] + SumOver(Amounts, PaidTo(a))
                                                  - SumOver(Amounts, PaidFrom(a))
RefundSums ==
  \A o \in Txns : status[o] # "NONE" /\ ~IsRefund(o) =>
    refundable[o] = Amounts[o] - SumOver(Amounts, RefundedFrom(o))

\* The two invariants on the journal say the same of the statuses.
LEMMA JournalForms ==
  PipelineInv => /\ BalanceIsJournal <=> BalanceSums
                 /\ RefundableIsJournal <=> RefundSums
<1> SUFFICES ASSUME PipelineInv
             PROVE  /\ BalanceIsJournal <=> BalanceSums
                    /\ RefundableIsJournal <=> RefundSums
  BY ZenonT(40)
<1>1. BalanceIsJournal <=> BalanceSums
  BY JournalSums, ZenonT(40) DEF BalanceIsJournal, BalanceSums
<1>2. RefundableIsJournal <=> RefundSums
  BY JournalSums DEF RefundableIsJournal, RefundSums
<1> QED BY <1>1, <1>2

\* ... after a step, too.
LEMMA JournalFormsNext ==
  PipelineInv' => /\ BalanceIsJournal' <=> BalanceSums'
                  /\ RefundableIsJournal' <=> RefundSums'
BY JournalForms, PTL

\* In a fresh database nothing has moved.
LEMMA MoneyInit == Init => MoneyInv
<1> SUFFICES ASSUME Init PROVE MoneyInv
  OBVIOUS
<1>1. PipelineInv
  BY InitInv, ZenonT(40)
<1>2. \A t \in Txns : status[t] = "NONE"
  BY DEF Init
<1>3. InFlight = {} /\ RefundsFollow /\ \A a \in Accounts : PaidFrom(a) = {} /\ PaidTo(a) = {}
  BY <1>2 DEF InFlight, RefundsFollow, PaidFrom, PaidTo, Paid
<1>4. SumOver(Amounts, {}) = 0
  BY SumEmpty, ZenonT(40)
<1>5. balance = InitBalance /\ \A a \in Accounts : InitBalance[a] \in Int
  BY AccountAssumption, ZenonT(40) DEF Init
<1>6. SumOver(InitBalance, Accounts) \in Int
  BY <1>5, FiniteAssumption, SumType, ZenonT(40)
<1>7. Conservation
  BY <1>3, <1>4, <1>5, <1>6 DEF Conservation
<1>8. BalanceSums /\ RefundSums
  <2>1. ASSUME NEW a \in Accounts
        PROVE  balance[a] = InitBalance[a] + SumOver(Amounts, PaidTo(a))
                                           - SumOver(Amounts, PaidFrom(a))
    <3>1. SumOver(Amounts, PaidTo(a)) = 0 /\ SumOver(Amounts, PaidFrom(a)) = 0
      BY <1>3, <1>4, ZenonT(40)
    <3> QED BY <1>5, <3>1
  <2> QED BY <1>2, <2>1, ZenonT(40) DEF BalanceSums, RefundSums
<1> QED BY <1>1, <1>3, <1>7, <1>8, JournalForms, ZenonT(40) DEF MoneyInv

-----------------------------------------------------------------------------
(* One lemma for each kind of step, and for each sum that the step can change *)

\* A txn whose status stays on one side of Paid leaves the sums alone.
LEMMA SumsStay ==
  ASSUME PipelineInv, PipelineInv', MoneyInv, UNCHANGED balance,
         \A t \in Txns : /\ status'[t] \in Paid <=> status[t] \in Paid
                         /\ status'[t] = "PAY_SUCCESS" <=> status[t] = "PAY_SUCCESS"
                         /\ status'[t] = "RECV_SUCCESS" <=> status[t] = "RECV_SUCCESS"
  PROVE  /\ InFlight' = InFlight
         /\ \A a \in Accounts : PaidFrom(a)' = PaidFrom(a) /\ PaidTo(a)' = PaidTo(a)
         /\ \A o \in Txns : RefundedFrom(o)' = RefundedFrom(o)
         /\ Conservation' /\ BalanceSums' /\ RefundsFollow'
<1>1. InFlight' = InFlight
  BY ZenonT(40) DEF InFlight
<1>2. \A a \in Accounts : PaidFrom(a)' = PaidFrom(a) /\ PaidTo(a)' = PaidTo(a)
  BY ZenonT(40) DEF PaidFrom, PaidTo
<1>3. \A o \in Txns : RefundedFrom(o)' = RefundedFrom(o)
  BY ZenonT(40) DEF RefundedFrom
<1>4. Conservation'
  BY <1>1 DEF MoneyInv, Conservation
<1>5. BalanceSums
  BY JournalForms, ZenonT(40) DEF MoneyInv
<1>6. BalanceSums'
  BY <1>2, <1>5, ZenonT(40) DEF BalanceSums
<1>7. RefundsFollow'
  BY ReqParts DEF MoneyInv, RefundsFollow
<1> QED BY <1>1, <1>2, <1>3, <1>4, <1>6, <1>7, ZenonT(40)

\* A debit moves its amount from the payer to what is in flight.
LEMMA DebitMoves ==
  ASSUME MoneyInv, PipelineInv', NEW t \in Txns,
         status[t] = "INIT", ~DebitRefused(t), DebitStage(t)
  PROVE  Conservation' /\ BalanceSums' /\ RefundsFollow' /\ RefundSums'
<1> DEFINE d == DebitAccount(t)
<1>0. /\ d \in Accounts /\ t \notin InFlight /\ Amounts[t] = Amount(t) /\ Amount(t) \in Nat
      /\ balance \in [Accounts -> Int] /\ status \in [Txns -> Statuses]
      /\ refundable \in [Txns -> Nat]
  BY ReqParts, AmountsOK, ZenonT(40) DEF MoneyInv, PipelineInv, TypeOK, InFlight
<1>1. /\ status' = [status EXCEPT ![t] = "PAY_SUCCESS"]
      /\ balance' = [balance EXCEPT ![d] = @ - Amount(t)]
  BY ZenonT(40) DEF DebitStage
<1> HIDE DEF d
<1>2. Conservation'
  <2>1. InFlight' = InFlight \cup {t}
    BY <1>0, <1>1, ZenonT(40) DEF InFlight
  <2>2. SumOver(Amounts, InFlight') = SumOver(Amounts, InFlight) + Amount(t)
    <3>1. InFlight \in SUBSET Txns /\ IsFiniteSet(InFlight)
      BY AmountsOK, ZenonT(40) DEF InFlight
    <3>2. \A x \in InFlight \cup {t} : Amounts[x] \in Int
      BY <3>1, AmountsOK, ZenonT(40)
    <3> QED BY <1>0, <2>1, <3>1, <3>2, SumAdd, ZenonT(40)
  <2>3. SumOver(balance', Accounts) = SumOver(balance, Accounts) - Amount(t)
    <3>1. /\ balance'[d] = balance[d] - Amount(t) /\ balance[d] \in Int
          /\ \A x \in Accounts \ {d} : balance'[x] = balance[x]
          /\ \A x \in Accounts : balance[x] \in Int
      BY <1>0, <1>1, ZenonT(40)
    <3>2. SumOver(balance', Accounts) = SumOver(balance, Accounts) - balance[d] + balance'[d]
      <4>1. balance'[d] \in Int
        BY <3>1, <1>0
      <4> QED BY <1>0, <3>1, <4>1, FiniteAssumption, SumChange
    <3>3. SumOver(balance, Accounts) \in Int
      BY <3>1, FiniteAssumption, SumType, ZenonT(40)
    <3> QED BY <1>0, <3>1, <3>2, <3>3
  <2>4. /\ SumOver(balance, Accounts) \in Int
        /\ SumOver(Amounts, InFlight) \in Int
    <3>1. \A x \in Accounts : balance[x] \in Int
      BY <1>0, ZenonT(40)
    <3>2. SumOver(balance, Accounts) \in Int
      BY <3>1, FiniteAssumption, SumType, ZenonT(40)
    <3> QED BY <3>2, AmountsOK, ZenonT(40) DEF InFlight
  <2>5. SumOver(balance, Accounts) + SumOver(Amounts, InFlight) = SumOver(InitBalance, Accounts)
    BY ZenonT(40) DEF MoneyInv, Conservation
  <2>6. SumOver(balance', Accounts) + SumOver(Amounts, InFlight') = SumOver(InitBalance, Accounts)
    BY <1>0, <2>2, <2>3, <2>4, <2>5
  <2> QED BY <2>6, ZenonT(40) DEF Conservation
<1>3. BalanceSums'
  <2> SUFFICES ASSUME NEW a \in Accounts
               PROVE  balance'[a] = InitBalance[a] + SumOver(Amounts, PaidTo(a)')
                                                   - SumOver(Amounts, PaidFrom(a)')
    BY ZenonT(40) DEF BalanceSums
  <2>1. balance[a] = InitBalance[a] + SumOver(Amounts, PaidTo(a))
                                    - SumOver(Amounts, PaidFrom(a))
    BY JournalForms, ZenonT(40) DEF MoneyInv, BalanceSums
  <2>2. PaidTo(a)' = PaidTo(a)
    BY <1>0, <1>1, ZenonT(40) DEF PaidTo
  <2>3. /\ PaidFrom(a) \in SUBSET Txns /\ PaidTo(a) \in SUBSET Txns /\ t \notin PaidFrom(a)
    BY <1>0, ZenonT(40) DEF PaidFrom, PaidTo, Paid
  <2>4. /\ SumOver(Amounts, PaidTo(a)) \in Int /\ SumOver(Amounts, PaidFrom(a)) \in Int
        /\ IsFiniteSet(PaidFrom(a)) /\ InitBalance[a] \in Int
    BY <2>3, AmountsOK, AccountAssumption, ZenonT(40)
  <2>5. CASE a = d
    <3>1. PaidFrom(a)' = PaidFrom(a) \cup {t}
      BY <1>0, <1>1, <2>5, ZenonT(40) DEF PaidFrom, Paid, d
    <3>2. SumOver(Amounts, PaidFrom(a)') = SumOver(Amounts, PaidFrom(a)) + Amount(t)
      <4>1. \A x \in PaidFrom(a) \cup {t} : Amounts[x] \in Int
        BY <2>3, AmountsOK, ZenonT(40)
      <4> QED BY <1>0, <2>3, <2>4, <3>1, <4>1, SumAdd, ZenonT(40)
    <3>3. balance'[a] = balance[a] - Amount(t)
      BY <1>0, <1>1, <2>5, ZenonT(40)
    <3> QED BY <1>0, <2>1, <2>2, <2>4, <3>2, <3>3
  <2>6. CASE a # d
    <3>1. PaidFrom(a)' = PaidFrom(a)
      BY <1>0, <1>1, <2>6, ZenonT(40) DEF PaidFrom, Paid, d
    <3>2. balance'[a] = balance[a]
      BY <1>0, <1>1, <2>6, ZenonT(40)
    <3> QED BY <2>1, <2>2, <3>1, <3>2, ZenonT(40)
  <2> QED BY <2>5, <2>6, ZenonT(40)
<1>4. RefundsFollow'
  <2>1. IsRefund(t) => status[Origin(t)] = "RECV_SUCCESS" /\ ~IsRefund(Origin(t))
    BY ZenonT(40) DEF DebitRefused, OriginRefundable
  <2> QED BY <1>0, <1>1, <2>1, ReqParts, ZenonT(40) DEF MoneyInv, RefundsFollow, Paid
<1>5. RefundSums'
  <2> SUFFICES ASSUME NEW o \in Txns, status'[o] # "NONE", ~IsRefund(o)
               PROVE  refundable'[o] = Amounts[o] - SumOver(Amounts, RefundedFrom(o)')
    BY ZenonT(40) DEF RefundSums
  <2>1. refundable[o] = Amounts[o] - SumOver(Amounts, RefundedFrom(o))
    <3>1. status[o] # "NONE"
      BY <1>0, <1>1, ZenonT(40)
    <3> QED BY <3>1, JournalForms, ZenonT(40) DEF MoneyInv, RefundSums
  <2>2. /\ RefundedFrom(o) \in SUBSET Txns /\ t \notin RefundedFrom(o)
    BY ZenonT(40) DEF RefundedFrom, Paid
  <2>3. SumOver(Amounts, RefundedFrom(o)) \in Int /\ IsFiniteSet(RefundedFrom(o))
          /\ Amounts[o] \in Int
    BY <2>2, AmountsOK, ZenonT(40)
  <2>4. CASE IsRefund(t) /\ Origin(t) = o
    <3>1. RefundedFrom(o)' = RefundedFrom(o) \cup {t}
      BY <1>0, <1>1, <2>4, ZenonT(40) DEF RefundedFrom, Paid
    <3>2. SumOver(Amounts, RefundedFrom(o)') = SumOver(Amounts, RefundedFrom(o)) + Amount(t)
      <4>1. \A x \in RefundedFrom(o) \cup {t} : Amounts[x] \in Int
        BY <2>2, AmountsOK, ZenonT(40)
      <4>2. SumOver(Amounts, RefundedFrom(o) \cup {t}) = SumOver(Amounts, RefundedFrom(o)) + Amounts[t]
        BY <2>2, <2>3, <4>1, SumAdd, ZenonT(40)
      <4> QED BY <1>0, <3>1, <4>2, ZenonT(40)
    <3>3. refundable'[o] = refundable[o] - Amount(t)
      BY <1>0, <2>4, ZenonT(40) DEF DebitStage
    <3> QED BY <1>0, <2>1, <2>3, <3>2, <3>3
  <2>5. CASE ~(IsRefund(t) /\ Origin(t) = o)
    <3>1. RefundedFrom(o)' = RefundedFrom(o)
      BY <1>0, <1>1, <2>5, ZenonT(40) DEF RefundedFrom, Paid
    <3>2. refundable'[o] = refundable[o]
      BY <1>0, <2>5, ReqParts DEF DebitStage
    <3> QED BY <2>1, <3>1, <3>2, ZenonT(40)
  <2> QED BY <2>4, <2>5, ZenonT(40)
<1> QED BY <1>2, <1>3, <1>4, <1>5, ZenonT(40)

\* A credit moves its amount from what is in flight to the payee.
LEMMA CreditMoves ==
  ASSUME MoneyInv, PipelineInv', NEW t \in Txns,
         status[t] = "PAY_SUCCESS", CreditStage(t)
  PROVE  Conservation' /\ BalanceSums' /\ RefundsFollow' /\ RefundSums'
<1> DEFINE c == CreditAccount(t)
<1>0. /\ c \in Accounts /\ t \in InFlight /\ Amounts[t] = Amount(t) /\ Amount(t) \in Nat
      /\ balance \in [Accounts -> Int] /\ status \in [Txns -> Statuses]
      /\ refundable \in [Txns -> Nat]
  BY ReqParts, AmountsOK, ZenonT(40) DEF MoneyInv, PipelineInv, TypeOK, InFlight
<1>1. /\ status' = [status EXCEPT ![t] = "RECV_SUCCESS"]
      /\ balance' = [balance EXCEPT ![c] = @ + Amount(t)]
      /\ refundable' = refundable
  BY DEF CreditStage
<1> HIDE DEF c
<1>2. Conservation'
  <2>1. InFlight' = InFlight \ {t}
    BY <1>0, <1>1, ZenonT(40) DEF InFlight
  <2>2. SumOver(Amounts, InFlight) = Amount(t) + SumOver(Amounts, InFlight')
    <3>1. InFlight \in SUBSET Txns /\ IsFiniteSet(InFlight)
      BY AmountsOK, ZenonT(40) DEF InFlight
    <3>2. \A x \in InFlight : Amounts[x] \in Int
      BY <3>1, AmountsOK, ZenonT(40)
    <3> QED BY <1>0, <2>1, <3>1, <3>2, SumRemove
  <2>3. SumOver(balance', Accounts) = SumOver(balance, Accounts) + Amount(t)
    <3>1. /\ balance'[c] = balance[c] + Amount(t) /\ balance[c] \in Int
          /\ \A x \in Accounts \ {c} : balance'[x] = balance[x]
          /\ \A x \in Accounts : balance[x] \in Int
      BY <1>0, <1>1, ZenonT(40)
    <3>2. SumOver(balance', Accounts) = SumOver(balance, Accounts) - balance[c] + balance'[c]
      <4>1. balance'[c] \in Int
        BY <3>1, <1>0
      <4> QED BY <1>0, <3>1, <4>1, FiniteAssumption, SumChange
    <3>3. SumOver(balance, Accounts) \in Int
      BY <3>1, FiniteAssumption, SumType, ZenonT(40)
    <3> QED BY <1>0, <3>1, <3>2, <3>3
  <2>4. /\ SumOver(balance, Accounts) \in Int
        /\ SumOver(Amounts, InFlight') \in Int
    <3>1. \A x \in Accounts : balance[x] \in Int
      BY <1>0, ZenonT(40)
    <3>2. SumOver(balance, Accounts) \in Int
      BY <3>1, FiniteAssumption, SumType, ZenonT(40)
    <3>3. InFlight' \in SUBSET Txns
      BY <2>1, ZenonT(40) DEF InFlight
    <3> QED BY <3>2, <3>3, AmountsOK, ZenonT(40)
  <2>5. SumOver(balance, Accounts) + SumOver(Amounts, InFlight) = SumOver(InitBalance, Accounts)
    BY ZenonT(40) DEF MoneyInv, Conservation
  <2>6. SumOver(balance', Accounts) + SumOver(Amounts, InFlight') = SumOver(InitBalance, Accounts)
    BY <1>0, <2>2, <2>3, <2>4, <2>5
  <2> QED BY <2>6, ZenonT(40) DEF Conservation
<1>3. BalanceSums'
  <2> SUFFICES ASSUME NEW a \in Accounts
               PROVE  balance'[a] = InitBalance[a] + SumOver(Amounts, PaidTo(a)')
                                                   - SumOver(Amounts, PaidFrom(a)')
    BY ZenonT(40) DEF BalanceSums
  <2>1. balance[a] = InitBalance[a] + SumOver(Amounts, PaidTo(a))
                                    - SumOver(Amounts, PaidFrom(a))
    BY JournalForms, ZenonT(40) DEF MoneyInv, BalanceSums
  <2>2. PaidFrom(a)' = PaidFrom(a)
    BY <1>0, <1>1, ZenonT(40) DEF PaidFrom, Paid
  <2>3. /\ PaidFrom(a) \in SUBSET Txns /\ PaidTo(a) \in SUBSET Txns /\ t \notin PaidTo(a)
    BY <1>0, ZenonT(40) DEF PaidFrom, PaidTo, Paid
  <2>4. /\ SumOver(Amounts, PaidTo(a)) \in Int /\ SumOver(Amounts, PaidFrom(a)) \in Int
        /\ IsFiniteSet(PaidTo(a)) /\ InitBalance[a] \in Int
    BY <2>3, AmountsOK, AccountAssumption, ZenonT(40)
  <2>5. CASE a = c
    <3>1. PaidTo(a)' = PaidTo(a) \cup {t}
      BY <1>0, <1>1, <2>5, ZenonT(40) DEF PaidTo, c
    <3>2. SumOver(Amounts, PaidTo(a)') = SumOver(Amounts, PaidTo(a)) + Amount(t)
      <4>1. \A x \in PaidTo(a) \cup {t} : Amounts[x] \in Int
        BY <2>3, AmountsOK, ZenonT(40)
      <4> QED BY <1>0, <2>3, <2>4, <3>1, <4>1, SumAdd, ZenonT(40)
    <3>3. balance'[a] = balance[a] + Amount(t)
      BY <1>0, <1>1, <2>5, ZenonT(40)
    <3> QED BY <1>0, <2>1, <2>2, <2>4, <3>2, <3>3
  <2>6. CASE a # c
    <3>1. PaidTo(a)' = PaidTo(a)
      BY <1>0, <1>1, <2>6, ZenonT(40) DEF PaidTo, c
    <3>2. balance'[a] = balance[a]
      BY <1>0, <1>1, <2>6, ZenonT(40)
    <3> QED BY <2>1, <2>2, <3>1, <3>2, ZenonT(40)
  <2> QED BY <2>5, <2>6, ZenonT(40)
<1>4. RefundsFollow'
  BY <1>0, <1>1, ReqParts, ZenonT(40) DEF MoneyInv, RefundsFollow, Paid
<1>5. RefundSums'
  <2>1. \A o \in Txns : RefundedFrom(o)' = RefundedFrom(o)
    BY <1>0, <1>1, ZenonT(40) DEF RefundedFrom, Paid
  <2>2. \A o \in Txns : status'[o] # "NONE" => status[o] # "NONE"
    BY <1>0, <1>1, ZenonT(40)
  <2>3. RefundSums
    BY JournalForms DEF MoneyInv
  <2> QED BY <1>1, <2>1, <2>2, <2>3, ZenonT(40) DEF RefundSums
<1> QED BY <1>2, <1>3, <1>4, <1>5, ZenonT(40)

\* A new row is refundable in full: no refund has been debited from it.
LEMMA InsertMoves ==
  ASSUME MoneyInv, PipelineInv', NEW t \in Txns, InsertTxn(t), UNCHANGED ledgerVars
  PROVE  Conservation' /\ BalanceSums' /\ RefundsFollow' /\ RefundSums'
<1>0. /\ status \in [Txns -> Statuses] /\ refundable \in [Txns -> Nat] /\ PipelineInv
  BY ZenonT(40) DEF MoneyInv, PipelineInv, TypeOK
<1>1. status[t] = "NONE" /\ status' = [status EXCEPT ![t] = "INIT"]
  BY DEF InsertTxn
<1>2. \A u \in Txns : /\ status'[u] \in Paid <=> status[u] \in Paid
                      /\ status'[u] = "PAY_SUCCESS" <=> status[u] = "PAY_SUCCESS"
                      /\ status'[u] = "RECV_SUCCESS" <=> status[u] = "RECV_SUCCESS"
  BY <1>0, <1>1, ZenonT(40) DEF Paid
<1>3. /\ Conservation' /\ BalanceSums' /\ RefundsFollow'
      /\ \A o \in Txns : RefundedFrom(o)' = RefundedFrom(o)
  <2>1. UNCHANGED balance
    BY ZenonT(40) DEF ledgerVars
  <2> QED BY <1>0, <1>2, <2>1, SumsStay, ZenonT(40)
<1>4. RefundSums'
  <2> SUFFICES ASSUME NEW o \in Txns, status'[o] # "NONE", ~IsRefund(o)
               PROVE  refundable'[o] = Amounts[o] - SumOver(Amounts, RefundedFrom(o)')
    BY ZenonT(40) DEF RefundSums
  <2>1. CASE o = t
    <3>1. RefundedFrom(o) = {}
      BY <1>1, <2>1, ZenonT(40) DEF MoneyInv, RefundsFollow, RefundedFrom
    <3>2. refundable'[o] = Amounts[o] /\ Amounts[o] \in Int
      BY <1>0, <2>1, AmountsOK DEF InsertTxn
    <3>3. SumOver(Amounts, RefundedFrom(o)') = 0
      BY <1>3, <3>1, SumEmpty, ZenonT(40)
    <3> QED BY <3>2, <3>3
  <2>2. CASE o # t
    <3>1. refundable'[o] = refundable[o] /\ status[o] # "NONE"
      BY <1>0, <1>1, <2>2, ZenonT(40) DEF InsertTxn
    <3>2. RefundSums
      BY <1>0, JournalForms, ZenonT(40) DEF MoneyInv
    <3> QED BY <1>3, <3>1, <3>2, ZenonT(40) DEF RefundSums
  <2> QED BY <2>1, <2>2, ZenonT(40)
<1> QED BY <1>3, <1>4

\* A txn that fails, and a step that touches no row of the ledger, move nothing.
LEMMA NothingMoves ==
  ASSUME MoneyInv, PipelineInv', UNCHANGED <<refundable, ledgerVars>>,
         \/ UNCHANGED status
         \/ \E t \in Txns : status[t] = "INIT" /\ status' = [status EXCEPT ![t] = "FAILED"]
  PROVE  Conservation' /\ BalanceSums' /\ RefundsFollow' /\ RefundSums'
<1>0. status \in [Txns -> Statuses] /\ PipelineInv
  BY ZenonT(40) DEF MoneyInv, PipelineInv, TypeOK
<1>1. \A u \in Txns : /\ status'[u] \in Paid <=> status[u] \in Paid
                      /\ status'[u] = "PAY_SUCCESS" <=> status[u] = "PAY_SUCCESS"
                      /\ status'[u] = "RECV_SUCCESS" <=> status[u] = "RECV_SUCCESS"
                      /\ status'[u] # "NONE" => status[u] # "NONE"
  <2>1. CASE UNCHANGED status
    BY <2>1, ZenonT(40)
  <2>2. ASSUME NEW t \in Txns, status[t] = "INIT", status' = [status EXCEPT ![t] = "FAILED"],
               NEW u \in Txns
        PROVE  /\ status'[u] \in Paid <=> status[u] \in Paid
               /\ status'[u] = "PAY_SUCCESS" <=> status[u] = "PAY_SUCCESS"
               /\ status'[u] = "RECV_SUCCESS" <=> status[u] = "RECV_SUCCESS"
               /\ status'[u] # "NONE" => status[u] # "NONE"
    BY <1>0, <2>2, ZenonT(40) DEF Paid
  <2> QED BY <2>1, <2>2
<1>2. /\ Conservation' /\ BalanceSums' /\ RefundsFollow'
      /\ \A o \in Txns : RefundedFrom(o)' = RefundedFrom(o)
  <2>1. UNCHANGED balance
    BY ZenonT(40) DEF ledgerVars
  <2> QED BY <1>0, <1>1, <2>1, SumsStay, ZenonT(40)
<1>3. RefundSums'
  <2>1. RefundSums
    BY <1>0, JournalForms, ZenonT(40) DEF MoneyInv
  <2> QED BY <1>1, <1>2, <2>1, ZenonT(40) DEF RefundSums
<1> QED BY <1>2, <1>3, ZenonT(40)

\* The invariant is inductive.
LEMMA MoneyNext == MoneyInv /\ [Next]_vars => MoneyInv'
<1> SUFFICES ASSUME MoneyInv, [Next]_vars PROVE MoneyInv'
  OBVIOUS
<1>1. PipelineInv /\ PipelineInv'
  BY NextInv DEF MoneyInv
<1>2. LedgerStep
  BY <1>1, LedgerMoves, ZenonT(40)
<1>3. Conservation' /\ BalanceSums' /\ RefundsFollow' /\ RefundSums'
  <2>1. CASE UNCHANGED <<status, refundable, ledgerVars>>
    BY <1>1, <2>1, NothingMoves, ZenonT(40)
  <2>2. ASSUME NEW t \in Txns, InsertTxn(t), UNCHANGED ledgerVars
        PROVE  Conservation' /\ BalanceSums' /\ RefundsFollow' /\ RefundSums'
    BY <1>1, <2>2, InsertMoves, ZenonT(40)
  <2>3. ASSUME NEW t \in Txns, NEW s \in Stages, CommitStage(t, s)
        PROVE  Conservation' /\ BalanceSums' /\ RefundsFollow' /\ RefundSums'
    <3>1. CASE status[t] = "INIT" /\ ~DebitRefused(t) /\ DebitStage(t)
      BY <1>1, <3>1, DebitMoves, ZenonT(40)
    <3>2. CASE status[t] = "PAY_SUCCESS" /\ CreditStage(t)
      BY <1>1, <3>2, CreditMoves, ZenonT(40)
    <3> QED BY <2>3, <3>1, <3>2, ZenonT(40) DEF CommitStage
  <2>4. ASSUME NEW t \in Txns, status[t] = "INIT",
               status' = [status EXCEPT ![t] = "FAILED"],
               UNCHANGED <<refundable, ledgerVars>>
        PROVE  Conservation' /\ BalanceSums' /\ RefundsFollow' /\ RefundSums'
    BY <1>1, <2>4, NothingMoves, ZenonT(40)
  <2> QED BY <1>2, <2>1, <2>2, <2>3, <2>4, ZenonT(40) DEF LedgerStep
<1> QED BY <1>1, <1>3, JournalFormsNext, ZenonT(40) DEF MoneyInv

-----------------------------------------------------------------------------
(* The theorems *)

\* The conjunction of the invariants holds in every state.
THEOREM MoneyInvariant == Spec => []MoneyInv
BY MoneyInit, MoneyNext, PTL DEF Spec

\* Money is neither made nor lost, whatever is retried, crashes, expires or is refused.
THEOREM MoneyIsConserved == Spec => []Conservation
<1>1. MoneyInv => Conservation
  BY ZenonT(40) DEF MoneyInv
<1> QED BY <1>1, MoneyInvariant, PTL

\* The balance column of every account is its opening balance plus its entries in the
\* change log.
THEOREM BalancesAreJournal == Spec => []BalanceIsJournal
<1>1. MoneyInv => BalanceIsJournal
  BY ZenonT(40) DEF MoneyInv
<1> QED BY <1>1, MoneyInvariant, PTL

\* What a transfer can still be refunded is its amount less the debited refunds.
THEOREM RefundsAreJournal == Spec => []RefundableIsJournal
<1>1. MoneyInv => RefundableIsJournal
  BY ZenonT(40) DEF MoneyInv
<1> QED BY <1>1, MoneyInvariant, PTL

-----------------------------------------------------------------------------
(* The pipeline implements the contract *)

\* the state of the contract in a state of the pipeline
AcceptedTxns == {t \in Txns : status[t] # "NONE"}
RejectedTxns == {t \in Txns : status[t] = "FAILED"}
Journal == {e \in Txns \X {"debit", "credit"} :
              (IF e[2] = "debit" THEN debits ELSE credits)[e[1]] > 0}

\* No txn is accepted in a fresh database.
LEMMA InitIsContractInit == Init => Contract!ContractInit
<1> SUFFICES ASSUME Init PROVE Contract!ContractInit
  OBVIOUS
<1>1. AcceptedTxns = {} /\ RejectedTxns = {} /\ Journal = {}
  BY DEF Init, AcceptedTxns, RejectedTxns, Journal
<1> QED BY <1>1, ZenonT(40) DEF Contract!ContractInit, AcceptedTxns, RejectedTxns, Journal

\* The insert of a row accepts the request.
LEMMA InsertIsAccept ==
  ASSUME MoneyInv, NEW t \in Txns, InsertTxn(t), UNCHANGED ledgerVars
  PROVE  Contract!Accept(t)
<1>0. status \in [Txns -> Statuses]
  BY DEF MoneyInv, PipelineInv, TypeOK
<1>1. status[t] = "NONE" /\ status' = [status EXCEPT ![t] = "INIT"] /\ UNCHANGED <<debits, credits>>
  BY DEF InsertTxn, ledgerVars
<1>2. t \notin AcceptedTxns /\ AcceptedTxns' = AcceptedTxns \cup {t}
  BY <1>0, <1>1, ZenonT(40) DEF AcceptedTxns
<1>3. RejectedTxns' = RejectedTxns /\ Journal' = Journal
  BY <1>0, <1>1, ZenonT(40) DEF RejectedTxns, Journal
<1> QED BY <1>2, <1>3, ZenonT(40) DEF Contract!Accept, AcceptedTxns, RejectedTxns, Journal

\* The debit stage, with what it reads of the balance and of the origin, is the
\* contract's debit, which reads the journal.
LEMMA DebitIsDebit ==
  ASSUME MoneyInv, NEW t \in Txns, status[t] = "INIT", ~DebitRefused(t), DebitStage(t)
  PROVE  Contract!Debit(t)
<1> DEFINE a == DebitAccount(t)
<1>0. /\ status \in [Txns -> Statuses] /\ PipelineInv /\ a \in Accounts /\ Amount(t) \in Nat
      /\ debits \in [Txns -> Nat] /\ balance \in [Accounts -> Int]
      /\ Amounts[t] = Amount(t)
  BY ReqParts, AmountsOK, ZenonT(40) DEF MoneyInv, PipelineInv, TypeOK
<1>1. /\ status' = [status EXCEPT ![t] = "PAY_SUCCESS"]
      /\ debits' = [debits EXCEPT ![t] = @ + 1]
      /\ credits' = credits
  BY ZenonT(40) DEF DebitStage
<1>2. t \in AcceptedTxns \ RejectedTxns /\ AcceptedTxns' = AcceptedTxns
        /\ RejectedTxns' = RejectedTxns
  BY <1>0, <1>1, ZenonT(40) DEF AcceptedTxns, RejectedTxns
<1>3. ~Contract!Debited(t)
  BY <1>0, JournalIsStatus, ZenonT(40) DEF Paid
<1>4. Journal' = Journal \cup {<<t, "debit">>}
  <2>1. \A e \in Txns \X {"debit", "credit"} :
          (IF e[2] = "debit" THEN debits' ELSE credits')[e[1]] > 0
            <=> (IF e[2] = "debit" THEN debits ELSE credits)[e[1]] > 0 \/ e = <<t, "debit">>
    BY <1>0, <1>1
  <2> QED BY <2>1 DEF Journal
<1>5. a \in Unlimited \/ Contract!Holds(a) - Amounts[t] >= [b \in Accounts |-> Floor(b)][a]
  <2>1. CanDebit(a, Amount(t))
    BY ZenonT(40) DEF DebitRefused
  <2>2. Contract!Holds(a) = balance[a]
    BY <1>0, ZenonT(40) DEF MoneyInv, BalanceIsJournal
  <2>3. a \in Unlimited \/ balance[a] - Amount(t) >= Floor(a)
    BY <1>0, <2>1, AccountAssumption DEF CanDebit, Unlimited, Floor
  <2> QED BY <1>0, <2>2, <2>3, ZenonT(40)
<1>6. \A o \in [u \in Txns |-> IF IsRefund(u) THEN {Origin(u)} ELSE {}][t] :
        Contract!Settled(o) /\ Contract!LeftToRefund(o) >= Amounts[t]
  <2>1. SUFFICES ASSUME IsRefund(t)
                 PROVE  /\ Contract!Settled(Origin(t))
                        /\ Contract!LeftToRefund(Origin(t)) >= Amounts[t]
    BY ZenonT(40)
  <2>2. /\ ~IsRefund(Origin(t)) /\ status[Origin(t)] = "RECV_SUCCESS"
        /\ refundable[Origin(t)] >= Amount(t) /\ Origin(t) \in Txns
    BY <2>1, ReqParts, ZenonT(40) DEF DebitRefused, OriginRefundable
  <2>3. Contract!Settled(Origin(t))
    BY <1>0, <2>2, JournalIsStatus, ZenonT(40)
  <2>4. refundable[Origin(t)] = Contract!LeftToRefund(Origin(t))
    BY <2>2, ZenonT(40) DEF MoneyInv, RefundableIsJournal
  <2> QED BY <1>0, <2>2, <2>3, <2>4, ZenonT(40)
<1>7. [u \in Txns |-> DebitAccount(u)][t] = a
  BY ZenonT(40)
<1> HIDE DEF a
<1> QED BY <1>2, <1>3, <1>4, <1>5, <1>6, <1>7, ZenonT(40)
        DEF Contract!Debit, AcceptedTxns, RejectedTxns, Journal

\* The credit stage settles.
LEMMA CreditIsSettle ==
  ASSUME MoneyInv, NEW t \in Txns, status[t] = "PAY_SUCCESS", CreditStage(t)
  PROVE  Contract!Settle(t)
<1>0. status \in [Txns -> Statuses] /\ PipelineInv /\ credits \in [Txns -> Nat]
  BY ZenonT(40) DEF MoneyInv, PipelineInv, TypeOK
<1>1. /\ status' = [status EXCEPT ![t] = "RECV_SUCCESS"]
      /\ credits' = [credits EXCEPT ![t] = @ + 1]
      /\ debits' = debits
  BY ZenonT(40) DEF CreditStage
<1>2. AcceptedTxns' = AcceptedTxns /\ RejectedTxns' = RejectedTxns
  BY <1>0, <1>1, ZenonT(40) DEF AcceptedTxns, RejectedTxns
<1>3. Contract!Debited(t) /\ ~Contract!Settled(t)
  BY <1>0, JournalIsStatus, ZenonT(40) DEF Paid
<1>4. Journal' = Journal \cup {<<t, "credit">>}
  <2>1. \A e \in Txns \X {"debit", "credit"} :
          (IF e[2] = "debit" THEN debits' ELSE credits')[e[1]] > 0
            <=> (IF e[2] = "debit" THEN debits ELSE credits)[e[1]] > 0 \/ e = <<t, "credit">>
    BY <1>0, <1>1
  <2> QED BY <2>1 DEF Journal
<1> QED BY <1>2, <1>3, <1>4, ZenonT(40) DEF Contract!Settle, AcceptedTxns, RejectedTxns, Journal

\* The failing of a txn that is still INIT rejects it.
LEMMA FailIsReject ==
  ASSUME MoneyInv, NEW t \in Txns, status[t] = "INIT",
         status' = [status EXCEPT ![t] = "FAILED"], UNCHANGED ledgerVars
  PROVE  Contract!Reject(t)
<1>0. status \in [Txns -> Statuses] /\ PipelineInv /\ UNCHANGED <<debits, credits>>
  BY ZenonT(40) DEF MoneyInv, PipelineInv, TypeOK, ledgerVars
<1>1. t \in AcceptedTxns \ RejectedTxns /\ AcceptedTxns' = AcceptedTxns
        /\ RejectedTxns' = RejectedTxns \cup {t} /\ Journal' = Journal
  BY <1>0, ZenonT(40) DEF AcceptedTxns, RejectedTxns, Journal
<1>2. ~Contract!Debited(t)
  BY <1>0, JournalIsStatus, ZenonT(40) DEF Paid
<1> QED BY <1>1, <1>2, ZenonT(40) DEF Contract!Reject, AcceptedTxns, RejectedTxns, Journal

\* Every step of the pipeline is a step of the contract or leaves its state alone.
LEMMA StepIsContractStep ==
  MoneyInv /\ [Next]_vars => [Contract!ContractNext]_(Contract!contractVars)
<1> SUFFICES ASSUME MoneyInv, [Next]_vars
             PROVE  Contract!ContractNext \/ UNCHANGED Contract!contractVars
  OBVIOUS
<1>1. LedgerStep
  BY LedgerMoves, ZenonT(40) DEF MoneyInv
<1>2. CASE UNCHANGED <<status, refundable, ledgerVars>>
  <2>1. UNCHANGED <<AcceptedTxns, RejectedTxns, Journal>>
    BY <1>2, ZenonT(40) DEF ledgerVars, AcceptedTxns, RejectedTxns, Journal
  <2> QED BY <2>1, ZenonT(40) DEF Contract!contractVars, AcceptedTxns, RejectedTxns, Journal
<1>3. ASSUME NEW t \in Txns, InsertTxn(t), UNCHANGED ledgerVars PROVE Contract!ContractNext
  BY <1>3, InsertIsAccept, ZenonT(40) DEF Contract!ContractNext
<1>4. ASSUME NEW t \in Txns, NEW s \in Stages, CommitStage(t, s)
      PROVE  Contract!ContractNext
  <2>1. CASE status[t] = "INIT" /\ ~DebitRefused(t) /\ DebitStage(t)
    BY <2>1, DebitIsDebit, ZenonT(40) DEF Contract!ContractNext
  <2>2. CASE status[t] = "PAY_SUCCESS" /\ CreditStage(t)
    BY <2>2, CreditIsSettle, ZenonT(40) DEF Contract!ContractNext
  <2> QED BY <1>4, <2>1, <2>2, ZenonT(40) DEF CommitStage
<1>5. ASSUME NEW t \in Txns, status[t] = "INIT",
             status' = [status EXCEPT ![t] = "FAILED"], UNCHANGED ledgerVars
      PROVE  Contract!ContractNext
  BY <1>5, FailIsReject, ZenonT(40) DEF Contract!ContractNext
<1> QED BY <1>1, <1>2, <1>3, <1>4, <1>5, ZenonT(40) DEF LedgerStep

\* Whatever the workers, the recovery worker, crashes and expired keys do, the txn rows
\* and the change log of the pipeline only ever take the steps of the contract.
THEOREM PipelineImplementsContract == Spec => ImplementsContract
BY InitIsContractInit, StepIsContractStep, MoneyInvariant, PTL
DEF Spec, ImplementsContract, Contract!ContractSpec
=============================================================================
