------------------------ MODULE WebhookOutboxProofs ------------------------
(* Proofs of what WebhookOutbox promises, for any number of events, merchants,
   instances and goroutines, any limits and any number of faults.             *)
EXTENDS WebhookOutbox, SumTheorems

\* the time that the provers have for a step
USE SMTT(40), ZenonT(40)

\* A goroutine is idle exactly when its batch is done.
Working == \A w \in Workers : pc[w] = "idle" <=> held[w] = {}

\* An event with attempts left is below the limit, and so is what a claim returned.
Counted ==
  /\ \A e \in Events : status[e] \in {"NONE", "PENDING", "PROCESSING"} => retry[e] < MaxRetries
  /\ \A w \in Workers : \A e \in held[w] : seen[w][e] < MaxRetries

\* As long as its lease lasts, a held event is as the claim left it.
Leased ==
  \A w \in Workers : \A e \in held[w] \ Overrun :
    status[e] = "PROCESSING" /\ e \notin stale /\ retry[e] = seen[w][e]

\* A goroutine that is about to write SUCCESS has a reason.
Earned == \A w \in Workers : pc[w] = "success" => Current(w) \in acked \cup unwanted

\* What a goroutine that holds an event may still cost: the POST that it has not made yet,
\* and the attempts that are left after the count that it read, for it may write that count.
Budget(e) ==
  [w \in Workers |->
     IF e \notin held[w] THEN 0
     ELSE MaxRetries - seen[w][e]
          - (IF e = Current(w) /\ pc[w] \in {"success", "retry"} THEN 1 ELSE 0)]
Share(e) == SumOver(Budget(e), Workers)

\* What the row allows to whoever claims the event next.
Rest(e) == IF status[e] \in {"SUCCESS", "DEAD"} THEN 0 ELSE MaxRetries - retry[e]

\* The attempts of the row are in the hands of a goroutine whose lease lasts.
Lent(e) ==
  \E o \in Workers : /\ e \in held[o] /\ retry[e] = seen[o][e]
                     /\ status[e] = "PROCESSING" /\ e \notin stale

Allowed(e) == MaxRetries * (1 + overruns[e]) + lost[e]

\* The POSTs made, those that the goroutines may cost and, unless one of them has them,
\* those that the row allows stay within what is allowed.
Within(e) ==
  /\ posts[e] + Share(e) <= Allowed(e)
  /\ Lent(e) \/ posts[e] + Share(e) + Rest(e) <= Allowed(e)

Attempts == \A e \in Events : Within(e)

OutboxInv == TypeOK /\ Working /\ Counted /\ Leased /\ OneHolder /\ Earned /\ SuccessIsEarned /\ Attempts

-----------------------------------------------------------------------------
\* A nonempty set of events has a first one.
LEMMA FirstExists ==
  ASSUME NEW S \in SUBSET Events, S # {}
  PROVE  Min(S) \in S
<1>1. S \subseteq Nat
  BY EventAssumption
<1>2. PICK x \in S : \A y \in S : ~(<<y, x>> \in OpToRel(<, Nat))
  BY <1>1, WFMin, NatLessThanWellFounded, ZenonT(40)
<1>3. \A a, b \in Nat : <<a, b>> \in OpToRel(<, Nat) <=> a < b
  BY DEF OpToRel
<1>4. \A y \in S : ~(y < x)
  BY <1>1, <1>2, <1>3, ZenonT(40)
<1>5. \A y \in S : x <= y
  BY <1>1, <1>4
<1> QED  BY <1>5 DEF Min

\* The event that a goroutine handles is one of its batch.
LEMMA CurrentIsHeld ==
  ASSUME TypeOK, Working, NEW w \in Workers, pc[w] # "idle"
  PROVE  Current(w) \in held[w] /\ Current(w) \in Events
<1>1. held[w] \in SUBSET Events /\ held[w] # {}
  BY DEF TypeOK, Working
<1> QED  BY <1>1, FirstExists DEF Current

\* Both claims take events that are due; the other steps named here touch no event
\* that is held and no history.
Claims(w) ==
  /\ pc[w] = "idle"
  /\ \E S \in SUBSET Due : Claim(w, S)
  /\ UNCHANGED <<retry, history>>
Aside == UNCHANGED <<status, retry, stale, work, history>>
Ticks(e) == Settle(e) \/ RetryDue(e) \/ LeaseExpire(e) \/ LeaseOverrun(e)

\* Polls and hints are claims.
LEMMA ClaimSteps ==
  ASSUME NEW w \in Workers, RunOnce(w) \/ DeliverTxn(w)
  PROVE  Claims(w)
<1>1. FirstDue \in SUBSET Due /\ \A e : DueOfTxn(e) \in SUBSET Due
  BY DEF FirstDue, DueOfTxn
<1>2. CASE RunOnce(w)
  BY <1>1, <1>2 DEF RunOnce, Claims
<1>3. CASE DeliverTxn(w)
  BY <1>1, <1>3 DEF DeliverTxn, Claims
<1> QED  BY <1>2, <1>3

\* Hints, caches and the merchant's own changes leave the outbox alone.
LEMMA AsideSteps ==
  ASSUME \/ \E i \in Instances, e \in Events : Enqueue(i, e)
         \/ \E e \in Events : RetryDue(e)
         \/ \E m \in Merchants : RotateSecret(m)
         \/ \E m \in Merchants, u \in {On, Off} : UpsertWebhookConfig(m, u)
         \/ \E i \in Instances, m \in Merchants : CacheExpire(i, m)
         \/ UNCHANGED vars
  PROVE  Aside
BY ZenonT(40)
DEF Aside, Enqueue, RetryDue, RotateSecret, UpsertWebhookConfig, CacheExpire, vars, row

\* An expired entry of the cache of secrets is dropped.
LEMMA ExpiredSecret ==
  ASSUME TypeOK, NEW i \in Instances, NEW m \in Merchants, CacheExpire(i, m)
  PROVE  secretCache' \in [Instances \X Merchants -> 0..MaxVersion]
<1>1. secretCache \in [Instances \X Merchants -> 0..MaxVersion]
  BY DEF TypeOK
<1>2. secretCache' = secretCache \/ secretCache' = [secretCache EXCEPT ![<<i, m>>] = 0]
  BY ZenonT(40) DEF CacheExpire
<1> QED  BY <1>1, <1>2, LimitAssumption

\* What a claim writes has its type.
LEMMA ClaimTypes ==
  ASSUME TypeOK, NEW w \in Workers, NEW S \in SUBSET Events, Claim(w, S)
  PROVE  /\ status' \in [Events -> {"NONE", "PENDING", "PROCESSING", "SUCCESS", "DEAD"}]
         /\ stale' \in SUBSET Events
         /\ held' \in [Workers -> SUBSET Events]
         /\ seen' \in [Workers -> [Events -> Nat]]
         /\ pc' \in [Workers -> Labels]
<1> DEFINE n == [e \in Events |-> IF e \in S THEN retry[e] ELSE 0]
<1>2. n \in [Events -> Nat]
  <2>1. \A e \in Events : retry[e] \in Nat
    BY LimitAssumption DEF TypeOK
  <2> QED BY <2>1
<1>3. seen' = [seen EXCEPT ![w] = n]
  BY ZenonT(40) DEF Claim
<1> HIDE DEF n
<1>4. seen' \in [Workers -> [Events -> Nat]]
  BY <1>2, <1>3, ZenonT(40) DEF TypeOK
<1>5. held' \in [Workers -> SUBSET Events] /\ stale' \in SUBSET Events
  BY ZenonT(40) DEF Claim, TypeOK
<1>6. pc' \in [Workers -> Labels]
  BY ZenonT(40) DEF Claim, TypeOK, Labels
<1>7. status' \in [Events -> {"NONE", "PENDING", "PROCESSING", "SUCCESS", "DEAD"}]
  BY ZenonT(40) DEF Claim, TypeOK
<1> QED BY <1>4, <1>5, <1>6, <1>7, ZenonT(40)

\* One step keeps the types; a count never passes the limit, for it was below it when claimed.
LEMMA TypeStep ==
  ASSUME TypeOK, Working, Counted, [Next]_vars
  PROVE  TypeOK'
<1> USE MerchantAssumption, WorkerAssumption, LimitAssumption DEF TypeOK, Counted, Labels, On, Off
<1> USE DEF row, cache, merchant, work, history, vars
<1>1. ASSUME NEW w \in Workers, RunOnce(w) PROVE TypeOK'
  <2>1. FirstDue \in SUBSET Events /\ Claim(w, FirstDue)
    BY <1>1, ZenonT(40) DEF RunOnce, FirstDue, Due
  <2> QED BY <1>1, <2>1, ClaimTypes, ZenonT(40) DEF RunOnce
<1>2. ASSUME NEW w \in Workers, DeliverTxn(w) PROVE TypeOK'
  <2>1. \A q \in Seq(Events) : q # << >> => Tail(q) \in Seq(Events)
    OBVIOUS
  <2>2. queue' \in [Instances -> Seq(Events)]
    BY <1>2, <2>1 DEF DeliverTxn
  <2>3. /\ DueOfTxn(Head(queue[InstanceOf[w]])) \in SUBSET Events
        /\ Claim(w, DueOfTxn(Head(queue[InstanceOf[w]])))
    BY <1>2, ZenonT(40) DEF DeliverTxn, DueOfTxn, Due
  <2> QED BY <1>2, <2>2, <2>3, ClaimTypes, ZenonT(40) DEF DeliverTxn
<1>3. ASSUME NEW w \in Workers, GetWebhookConfig(w) PROVE TypeOK'
  <2>1. pc[w] # "idle"
    BY <1>3 DEF GetWebhookConfig
  <2>2. Current(w) \in held[w] /\ Current(w) \in Events
    BY <2>1, CurrentIsHeld, ZenonT(40)
  <2> QED  BY <1>3, <2>2, ZenonT(40) DEF GetWebhookConfig, Goto, Cached, Merchant
<1>4. ASSUME NEW w \in Workers, GetActiveSecret(w) PROVE TypeOK'
  <2>1. pc[w] # "idle"
    BY <1>4, ZenonT(40) DEF GetActiveSecret
  <2>2. Current(w) \in held[w] /\ Current(w) \in Events
    BY <2>1, CurrentIsHeld, ZenonT(40)
  <2> QED  BY <1>4, <2>2, ZenonT(40) DEF GetActiveSecret, Goto, Cached, Merchant
<1>5. ASSUME NEW w \in Workers, DeliverAcked(w) PROVE TypeOK'
  <2>1. pc[w] # "idle"
    BY <1>5 DEF DeliverAcked
  <2>2. Current(w) \in held[w] /\ Current(w) \in Events
    BY <2>1, CurrentIsHeld, ZenonT(40)
  <2>3. posts' \in [Events -> Nat]
    <3>1. posts[Current(w)] + 1 \in Nat
      BY <2>2
    <3> QED BY <1>5, <2>2, <3>1, ZenonT(40) DEF DeliverAcked
  <2> QED  BY <1>5, <2>2, <2>3, ZenonT(40) DEF DeliverAcked, Goto
<1>6. ASSUME NEW w \in Workers, DeliverFailed(w) PROVE TypeOK'
  <2>1. pc[w] # "idle"
    BY <1>6 DEF DeliverFailed
  <2>2. Current(w) \in held[w] /\ Current(w) \in Events
    BY <2>1, CurrentIsHeld, ZenonT(40)
  <2>3. posts' \in [Events -> Nat]
    <3>1. posts[Current(w)] + 1 \in Nat
      BY <2>2
    <3> QED BY <1>6, <2>2, <3>1, ZenonT(40) DEF DeliverFailed
  <2> QED  BY <1>6, <2>2, <2>3, ZenonT(40) DEF DeliverFailed, Goto
<1>7. ASSUME NEW w \in Workers, MarkSuccess(w) PROVE TypeOK'
  <2>1. pc[w] # "idle"
    BY <1>7, ZenonT(40) DEF MarkSuccess
  <2>2. Current(w) \in held[w] /\ Current(w) \in Events
    BY <2>1, CurrentIsHeld, ZenonT(40)
  <2> QED  BY <1>7, <2>2, ZenonT(40) DEF MarkSuccess, Finish, Goto
<1>8. ASSUME NEW w \in Workers, MarkRetry(w) PROVE TypeOK'
  <2>1. pc[w] # "idle"
    BY <1>8, ZenonT(40) DEF MarkRetry
  <2>2. Current(w) \in held[w] /\ Current(w) \in Events
    BY <2>1, CurrentIsHeld, ZenonT(40)
  <2>3. held' \in [Workers -> SUBSET Events] /\ pc' \in [Workers -> Labels]
    BY <1>8, <2>2, ZenonT(40) DEF MarkRetry, Finish, Goto
  <2>4. seen' \in [Workers -> [Events -> Nat]]
    BY <1>8, <2>2, ZenonT(40) DEF MarkRetry, Finish, Goto
  <2>5. retry' \in [Events -> 0..MaxRetries] /\ status' \in [Events -> {"NONE", "PENDING", "PROCESSING", "SUCCESS", "DEAD"}]
    BY <1>8, <2>2 DEF MarkRetry, Fault, Dead
  <2> QED  BY <1>8, <2>3, <2>4, <2>5, ZenonT(40) DEF MarkRetry
<1>9. ASSUME NEW w \in Workers, ClaimLost(w) PROVE TypeOK'
  BY <1>9 DEF ClaimLost, Fault, FirstDue, Due
<1>10. ASSUME NEW w \in Workers, ReadFails(w) PROVE TypeOK'
  <2>1. pc[w] # "idle"
    BY <1>10 DEF ReadFails
  <2>2. Current(w) \in held[w] /\ Current(w) \in Events
    BY <2>1, CurrentIsHeld, ZenonT(40)
  <2> QED  BY <1>10, <2>2 DEF ReadFails, Fault, Goto
<1>11. ASSUME NEW w \in Workers, MarkFails(w) PROVE TypeOK'
  <2>1. pc[w] # "idle"
    BY <1>11, ZenonT(40) DEF MarkFails
  <2>2. Current(w) \in held[w] /\ Current(w) \in Events
    BY <2>1, CurrentIsHeld, ZenonT(40)
  <2>3. held' \in [Workers -> SUBSET Events] /\ pc' \in [Workers -> Labels]
    BY <1>11, <2>2, ZenonT(40) DEF MarkFails, Fault, Finish, Goto
  <2>4. seen' \in [Workers -> [Events -> Nat]]
    BY <1>11, <2>2, ZenonT(40) DEF MarkFails, Fault, Finish, Goto
  <2>5. lost' \in [Events -> Nat] /\ faults' \in 0..MaxFaults
    BY <1>11, <2>2 DEF MarkFails, Fault, Dead
  <2> QED  BY <1>11, <2>3, <2>4, <2>5, ZenonT(40) DEF MarkFails
<1>12. ASSUME NEW e \in Events, Settle(e) PROVE TypeOK'
  BY <1>12, ZenonT(40) DEF Settle
<1>13. ASSUME NEW e \in Events, RetryDue(e) PROVE TypeOK'
  BY <1>13, ZenonT(40) DEF RetryDue
<1>14. ASSUME NEW e \in Events, LeaseExpire(e) PROVE TypeOK'
  BY <1>14, ZenonT(40) DEF LeaseExpire
<1>15. ASSUME NEW e \in Events, LeaseOverrun(e) PROVE TypeOK'
  <2>1. faults' \in 0..MaxFaults
    BY <1>15 DEF LeaseOverrun, Fault
  <2>2. overruns' \in [Events -> Nat]
    BY <1>15 DEF LeaseOverrun
  <2> QED  BY <1>15, <2>1, <2>2, ZenonT(40) DEF LeaseOverrun
<1>16. ASSUME NEW i \in Instances, NEW e \in Events, Enqueue(i, e) PROVE TypeOK'
  <2>1. queue' \in [Instances -> Seq(Events)]
    <3>1. Append(queue[i], e) \in Seq(Events)
      OBVIOUS
    <3> QED  BY <1>16, <3>1, ZenonT(40) DEF Enqueue
  <2> QED  BY <1>16, <2>1, ZenonT(40) DEF Enqueue
<1>17. ASSUME NEW m \in Merchants, RotateSecret(m) PROVE TypeOK'
  BY <1>17 DEF RotateSecret
<1>18. ASSUME NEW m \in Merchants, NEW u \in {On, Off}, UpsertWebhookConfig(m, u) PROVE TypeOK'
  BY <1>18 DEF UpsertWebhookConfig
<1>19. ASSUME NEW i \in Instances, NEW m \in Merchants, CacheExpire(i, m) PROVE TypeOK'
  <2>1. <<i, m>> \in Instances \X Merchants
    BY <1>19
  <2>2. configCache' \in [Instances \X Merchants -> {On, Off}]
    BY <1>19, <2>1, ZenonT(40) DEF CacheExpire
  <2>4. secretCache' \in [Instances \X Merchants -> 0..MaxVersion]
    BY <1>19, ExpiredSecret, ZenonT(40)
  <2> QED  BY <1>19, <2>2, <2>4, ZenonT(40) DEF CacheExpire
<1>20. ASSUME NEW i \in Instances, Crash(i) PROVE TypeOK'
  BY <1>20, SMTT(120) DEF Crash, Fault
<1>21. CASE UNCHANGED vars
  BY <1>21
<1> HIDE DEF TypeOK, Counted, Labels, On, Off
<1> HIDE DEF row, cache, merchant, work, history, vars
<1> QED
  BY <1>1, <1>2, <1>3, <1>4, <1>5, <1>6, <1>7, <1>8, <1>9, <1>10, <1>11, <1>12, <1>13, <1>14,
     <1>15, <1>16, <1>17, <1>18, <1>19, <1>20, <1>21, ZenonT(40)
  DEF Next, Handle, WorkerFault

\* A goroutine leaves its batch exactly when it goes idle.
LEMMA WorkingStep ==
  ASSUME TypeOK, Working, [Next]_vars
  PROVE  Working'
<1> USE LimitAssumption DEF TypeOK, Working, Labels
<1> USE DEF row, cache, merchant, work, history, vars
<1>1. ASSUME NEW w \in Workers, Claims(w) PROVE Working'
  BY <1>1 DEF Claims, Claim, Due
<1>2. ASSUME NEW w \in Workers, GetWebhookConfig(w) PROVE Working'
  <2>1. pc[w] # "idle"
    BY <1>2 DEF GetWebhookConfig
  <2>2. Current(w) \in held[w] /\ Current(w) \in Events
    BY <2>1, CurrentIsHeld, ZenonT(40)
  <2> QED  BY <1>2, <2>2, ZenonT(40) DEF GetWebhookConfig, Goto
<1>3. ASSUME NEW w \in Workers, GetActiveSecret(w) PROVE Working'
  <2>1. pc[w] # "idle"
    BY <1>3, ZenonT(40) DEF GetActiveSecret
  <2>2. Current(w) \in held[w] /\ Current(w) \in Events
    BY <2>1, CurrentIsHeld, ZenonT(40)
  <2> QED  BY <1>3, <2>2, ZenonT(40) DEF GetActiveSecret, Goto
<1>4. ASSUME NEW w \in Workers, DeliverAcked(w) PROVE Working'
  <2>1. pc[w] # "idle"
    BY <1>4 DEF DeliverAcked
  <2>2. Current(w) \in held[w] /\ Current(w) \in Events
    BY <2>1, CurrentIsHeld, ZenonT(40)
  <2> QED  BY <1>4, <2>2, ZenonT(40) DEF DeliverAcked, Goto
<1>5. ASSUME NEW w \in Workers, DeliverFailed(w) PROVE Working'
  <2>1. pc[w] # "idle"
    BY <1>5 DEF DeliverFailed
  <2>2. Current(w) \in held[w] /\ Current(w) \in Events
    BY <2>1, CurrentIsHeld, ZenonT(40)
  <2> QED  BY <1>5, <2>2, ZenonT(40) DEF DeliverFailed, Goto
<1>6. ASSUME NEW w \in Workers, MarkSuccess(w) PROVE Working'
  <2>1. pc[w] # "idle"
    BY <1>6 DEF MarkSuccess
  <2>2. Current(w) \in held[w] /\ Current(w) \in Events
    BY <2>1, CurrentIsHeld, ZenonT(40)
  <2> QED  BY <1>6, <2>2 DEF MarkSuccess, Finish, Goto
<1>7. ASSUME NEW w \in Workers, MarkRetry(w) PROVE Working'
  <2>1. pc[w] # "idle"
    BY <1>7 DEF MarkRetry
  <2>2. Current(w) \in held[w] /\ Current(w) \in Events
    BY <2>1, CurrentIsHeld, ZenonT(40)
  <2> QED  BY <1>7, <2>2 DEF MarkRetry, Finish, Goto, Dead
<1>8. ASSUME NEW w \in Workers, ClaimLost(w) PROVE Working'
  BY <1>8, ZenonT(40) DEF ClaimLost, Fault, FirstDue, Due
<1>9. ASSUME NEW w \in Workers, ReadFails(w) PROVE Working'
  <2>1. pc[w] # "idle"
    BY <1>9, ZenonT(40) DEF ReadFails
  <2>2. Current(w) \in held[w] /\ Current(w) \in Events
    BY <2>1, CurrentIsHeld, ZenonT(40)
  <2> QED  BY <1>9, <2>2, ZenonT(40) DEF ReadFails, Fault, Goto
<1>10. ASSUME NEW w \in Workers, MarkFails(w) PROVE Working'
  <2>1. pc[w] # "idle"
    BY <1>10 DEF MarkFails
  <2>2. Current(w) \in held[w] /\ Current(w) \in Events
    BY <2>1, CurrentIsHeld, ZenonT(40)
  <2> QED  BY <1>10, <2>2 DEF MarkFails, Fault, Finish, Goto
<1>11. ASSUME NEW e \in Events, Settle(e) PROVE Working'
  BY <1>11 DEF Settle
<1>12. ASSUME NEW e \in Events, LeaseExpire(e) PROVE Working'
  BY <1>12, ZenonT(40) DEF LeaseExpire, Holders
<1>13. ASSUME NEW e \in Events, LeaseOverrun(e) PROVE Working'
  BY <1>13, ZenonT(40) DEF LeaseOverrun, Fault, Holders
<1>14. ASSUME NEW i \in Instances, Crash(i) PROVE Working'
  BY <1>14 DEF Crash, Fault, Holders
<1>15. ASSUME Aside PROVE Working'
  BY <1>15, ZenonT(40) DEF Aside
<1> HIDE DEF TypeOK, Working, Labels
<1> HIDE DEF row, cache, merchant, work, history, vars
<1> QED
  BY <1>1, <1>2, <1>3, <1>4, <1>5, <1>6, <1>7, <1>8, <1>9, <1>10, <1>11, <1>12, <1>13, <1>14, <1>15,
     ClaimSteps, AsideSteps, ZenonT(40)
  DEF Next, Handle, WorkerFault

\* An event that has used its attempts is dead, in the same statement.
LEMMA CountedStep ==
  ASSUME TypeOK, Working, Counted, [Next]_vars
  PROVE  Counted'
<1> USE LimitAssumption DEF TypeOK, Working, Counted, Labels
<1> USE DEF row, cache, merchant, work, history, vars
<1>1. ASSUME NEW w \in Workers, Claims(w) PROVE Counted'
  BY <1>1 DEF Claims, Claim, Due
<1>2. ASSUME NEW w \in Workers, GetWebhookConfig(w) PROVE Counted'
  <2>1. pc[w] # "idle"
    BY <1>2, ZenonT(40) DEF GetWebhookConfig
  <2>2. Current(w) \in held[w] /\ Current(w) \in Events
    BY <2>1, CurrentIsHeld, ZenonT(40)
  <2> QED  BY <1>2, <2>2, ZenonT(40) DEF GetWebhookConfig, Goto
<1>3. ASSUME NEW w \in Workers, GetActiveSecret(w) PROVE Counted'
  <2>1. pc[w] # "idle"
    BY <1>3, ZenonT(40) DEF GetActiveSecret
  <2>2. Current(w) \in held[w] /\ Current(w) \in Events
    BY <2>1, CurrentIsHeld, ZenonT(40)
  <2> QED  BY <1>3, <2>2, ZenonT(40) DEF GetActiveSecret, Goto
<1>4. ASSUME NEW w \in Workers, DeliverAcked(w) PROVE Counted'
  <2>1. pc[w] # "idle"
    BY <1>4, ZenonT(40) DEF DeliverAcked
  <2>2. Current(w) \in held[w] /\ Current(w) \in Events
    BY <2>1, CurrentIsHeld, ZenonT(40)
  <2> QED  BY <1>4, <2>2, ZenonT(40) DEF DeliverAcked, Goto
<1>5. ASSUME NEW w \in Workers, DeliverFailed(w) PROVE Counted'
  <2>1. pc[w] # "idle"
    BY <1>5, ZenonT(40) DEF DeliverFailed
  <2>2. Current(w) \in held[w] /\ Current(w) \in Events
    BY <2>1, CurrentIsHeld, ZenonT(40)
  <2> QED  BY <1>5, <2>2, ZenonT(40) DEF DeliverFailed, Goto
<1>6. ASSUME NEW w \in Workers, MarkSuccess(w) PROVE Counted'
  <2>1. pc[w] # "idle"
    BY <1>6, ZenonT(40) DEF MarkSuccess
  <2>2. Current(w) \in held[w] /\ Current(w) \in Events
    BY <2>1, CurrentIsHeld, ZenonT(40)
  <2> QED  BY <1>6, <2>2, SMTT(120) DEF MarkSuccess, Finish, Goto
<1>7. ASSUME NEW w \in Workers, MarkRetry(w) PROVE Counted'
  <2>1. pc[w] # "idle"
    BY <1>7 DEF MarkRetry
  <2>2. Current(w) \in held[w] /\ Current(w) \in Events
    BY <2>1, CurrentIsHeld, ZenonT(40)
  <2> QED  BY <1>7, <2>2, SMTT(120) DEF MarkRetry, Finish, Goto, Dead
<1>8. ASSUME NEW w \in Workers, ClaimLost(w) PROVE Counted'
  BY <1>8, ZenonT(40) DEF ClaimLost, Fault, FirstDue, Due
<1>9. ASSUME NEW w \in Workers, ReadFails(w) PROVE Counted'
  <2>1. pc[w] # "idle"
    BY <1>9, ZenonT(40) DEF ReadFails
  <2>2. Current(w) \in held[w] /\ Current(w) \in Events
    BY <2>1, CurrentIsHeld, ZenonT(40)
  <2> QED  BY <1>9, <2>2, ZenonT(40) DEF ReadFails, Fault, Goto
<1>10. ASSUME NEW w \in Workers, MarkFails(w) PROVE Counted'
  <2>1. pc[w] # "idle"
    BY <1>10, ZenonT(40) DEF MarkFails
  <2>2. Current(w) \in held[w] /\ Current(w) \in Events
    BY <2>1, CurrentIsHeld, ZenonT(40)
  <2> QED  BY <1>10, <2>2 DEF MarkFails, Fault, Finish, Goto
<1>11. ASSUME NEW e \in Events, Settle(e) PROVE Counted'
  BY <1>11 DEF Settle
<1>12. ASSUME NEW e \in Events, LeaseExpire(e) PROVE Counted'
  BY <1>12, ZenonT(40) DEF LeaseExpire, Holders
<1>13. ASSUME NEW e \in Events, LeaseOverrun(e) PROVE Counted'
  BY <1>13, ZenonT(40) DEF LeaseOverrun, Fault, Holders
<1>14. ASSUME NEW i \in Instances, Crash(i) PROVE Counted'
  BY <1>14, ZenonT(40) DEF Crash, Fault, Holders
<1>15. ASSUME Aside PROVE Counted'
  BY <1>15, ZenonT(40) DEF Aside
<1> HIDE DEF TypeOK, Working, Counted, Labels
<1> HIDE DEF row, cache, merchant, work, history, vars
<1> QED
  BY <1>1, <1>2, <1>3, <1>4, <1>5, <1>6, <1>7, <1>8, <1>9, <1>10, <1>11, <1>12, <1>13, <1>14, <1>15,
     ClaimSteps, AsideSteps, ZenonT(40)
  DEF Next, Handle, WorkerFault

\* Only a lease that runs out under a goroutine adds to the events that are excepted.
LEMMA OverrunKept ==
  ASSUME UNCHANGED overruns
  PROVE  UNCHANGED Overrun
BY DEF Overrun

LEMMA OverrunGrows ==
  ASSUME TypeOK, NEW e \in Events, LeaseOverrun(e)
  PROVE  Overrun' = Overrun \cup {e}
<1>1. overruns \in [Events -> Nat] /\ overruns' = [overruns EXCEPT ![e] = @ + 1]
  BY DEF TypeOK, LeaseOverrun
<1> QED  BY <1>1 DEF Overrun

\* A claim takes no event whose lease lasts, so what it takes nobody else writes.
LEMMA LeasedStep ==
  ASSUME TypeOK, Working, Leased, OneHolder, [Next]_vars
  PROVE  Leased'
<1> USE LimitAssumption, OverrunKept DEF TypeOK, Working, Leased, OneHolder, Labels
<1> USE DEF row, cache, merchant, work, history, vars
<1>1. ASSUME NEW w \in Workers, Claims(w) PROVE Leased'
  BY <1>1 DEF Claims, Claim, Due
<1>2. ASSUME NEW w \in Workers, GetWebhookConfig(w) PROVE Leased'
  <2>1. pc[w] # "idle"
    BY <1>2, ZenonT(40) DEF GetWebhookConfig
  <2>2. Current(w) \in held[w] /\ Current(w) \in Events
    BY <2>1, CurrentIsHeld, ZenonT(40)
  <2> QED  BY <1>2, <2>2 DEF GetWebhookConfig, Goto
<1>3. ASSUME NEW w \in Workers, GetActiveSecret(w) PROVE Leased'
  <2>1. pc[w] # "idle"
    BY <1>3, ZenonT(40) DEF GetActiveSecret
  <2>2. Current(w) \in held[w] /\ Current(w) \in Events
    BY <2>1, CurrentIsHeld, ZenonT(40)
  <2> QED  BY <1>3, <2>2 DEF GetActiveSecret, Goto
<1>4. ASSUME NEW w \in Workers, DeliverAcked(w) PROVE Leased'
  <2>1. pc[w] # "idle"
    BY <1>4 DEF DeliverAcked
  <2>2. Current(w) \in held[w] /\ Current(w) \in Events
    BY <2>1, CurrentIsHeld, ZenonT(40)
  <2> QED  BY <1>4, <2>2 DEF DeliverAcked, Goto
<1>5. ASSUME NEW w \in Workers, DeliverFailed(w) PROVE Leased'
  <2>1. pc[w] # "idle"
    BY <1>5, ZenonT(40) DEF DeliverFailed
  <2>2. Current(w) \in held[w] /\ Current(w) \in Events
    BY <2>1, CurrentIsHeld, ZenonT(40)
  <2> QED  BY <1>5, <2>2 DEF DeliverFailed, Goto
<1>6. ASSUME NEW w \in Workers, MarkSuccess(w) PROVE Leased'
  <2>1. pc[w] # "idle"
    BY <1>6 DEF MarkSuccess
  <2>2. Current(w) \in held[w] /\ Current(w) \in Events
    BY <2>1, CurrentIsHeld, ZenonT(40)
  <2>3. /\ UNCHANGED <<retry, Overrun>>
        /\ \A v \in Workers, e \in Events : e # Current(w) =>
             status'[e] = status[e] /\ (e \in stale' => e \in stale) /\ seen'[v][e] = seen[v][e]
    BY <1>6, <2>2 DEF MarkSuccess, Finish
  <2>4. \A v \in Workers : held'[v] \subseteq held[v] /\ (v = w => Current(w) \notin held'[v])
    BY <1>6, <2>2 DEF MarkSuccess, Finish
  <2>5. \A v \in Workers : held[v] \subseteq Events
    OBVIOUS
  <2> HIDE DEF TypeOK, Working
  <2> QED  BY <2>2, <2>3, <2>4, <2>5
<1>7. ASSUME NEW w \in Workers, MarkRetry(w) PROVE Leased'
  <2>1. pc[w] # "idle"
    BY <1>7 DEF MarkRetry
  <2>2. Current(w) \in held[w] /\ Current(w) \in Events
    BY <2>1, CurrentIsHeld, ZenonT(40)
  <2>3. /\ UNCHANGED Overrun
        /\ \A v \in Workers, e \in Events : e # Current(w) =>
             /\ status'[e] = status[e] /\ retry'[e] = retry[e]
             /\ (e \in stale' => e \in stale) /\ seen'[v][e] = seen[v][e]
    BY <1>7, <2>2 DEF MarkRetry, Finish
  <2>4. \A v \in Workers : held'[v] \subseteq held[v] /\ (v = w => Current(w) \notin held'[v])
    BY <1>7, <2>2 DEF MarkRetry, Finish
  <2>5. \A v \in Workers : held[v] \subseteq Events
    OBVIOUS
  <2> HIDE DEF TypeOK, Working
  <2> QED  BY <2>2, <2>3, <2>4, <2>5
<1>8. ASSUME NEW w \in Workers, ClaimLost(w) PROVE Leased'
  BY <1>8 DEF ClaimLost, Fault, FirstDue, Due
<1>9. ASSUME NEW w \in Workers, ReadFails(w) PROVE Leased'
  <2>1. pc[w] # "idle"
    BY <1>9, ZenonT(40) DEF ReadFails
  <2>2. Current(w) \in held[w] /\ Current(w) \in Events
    BY <2>1, CurrentIsHeld, ZenonT(40)
  <2> QED  BY <1>9, <2>2 DEF ReadFails, Fault, Goto
<1>10. ASSUME NEW w \in Workers, MarkFails(w) PROVE Leased'
  <2>1. pc[w] # "idle"
    BY <1>10, ZenonT(40) DEF MarkFails
  <2>2. Current(w) \in held[w] /\ Current(w) \in Events
    BY <2>1, CurrentIsHeld, ZenonT(40)
  <2> QED  BY <1>10, <2>2 DEF MarkFails, Fault, Finish, Goto
<1>11. ASSUME NEW e \in Events, Settle(e) PROVE Leased'
  BY <1>11 DEF Settle
<1>12. ASSUME NEW e \in Events, LeaseExpire(e) PROVE Leased'
  BY <1>12 DEF LeaseExpire, Holders
<1>13. ASSUME NEW e \in Events, LeaseOverrun(e) PROVE Leased'
  <2>1. Overrun' = Overrun \cup {e}
    BY <1>13, OverrunGrows, ZenonT(40)
  <2>2. stale' = stale \cup {e} /\ UNCHANGED <<status, retry, held, seen>>
    BY <1>13, ZenonT(40) DEF LeaseOverrun
  <2> HIDE DEF TypeOK, Working, OneHolder, Labels
  <2> QED  BY <2>1, <2>2, ZenonT(40)
<1>14. ASSUME NEW i \in Instances, Crash(i) PROVE Leased'
  BY <1>14 DEF Crash, Fault, Holders
<1>15. ASSUME Aside PROVE Leased'
  BY <1>15 DEF Aside
<1> HIDE DEF TypeOK, Working, Leased, OneHolder, Labels
<1> HIDE DEF row, cache, merchant, work, history, vars
<1> QED
  BY <1>1, <1>2, <1>3, <1>4, <1>5, <1>6, <1>7, <1>8, <1>9, <1>10, <1>11, <1>12, <1>13, <1>14, <1>15,
     ClaimSteps, AsideSteps, ZenonT(40)
  DEF Next, Handle, WorkerFault

\* Two goroutines never hold an event whose lease lasts.
LEMMA OneHolderStep ==
  ASSUME TypeOK, Working, Leased, OneHolder, [Next]_vars
  PROVE  OneHolder'
<1> USE LimitAssumption, OverrunKept DEF TypeOK, Working, Leased, OneHolder, Labels
<1> USE DEF row, cache, merchant, work, history, vars
<1>1. ASSUME NEW w \in Workers, Claims(w) PROVE OneHolder'
  BY <1>1 DEF Claims, Claim, Due
<1>2. ASSUME NEW w \in Workers, GetWebhookConfig(w) PROVE OneHolder'
  <2>1. pc[w] # "idle"
    BY <1>2 DEF GetWebhookConfig
  <2>2. Current(w) \in held[w] /\ Current(w) \in Events
    BY <2>1, CurrentIsHeld, ZenonT(40)
  <2> QED  BY <1>2, <2>2, ZenonT(40) DEF GetWebhookConfig, Goto
<1>3. ASSUME NEW w \in Workers, GetActiveSecret(w) PROVE OneHolder'
  <2>1. pc[w] # "idle"
    BY <1>3 DEF GetActiveSecret
  <2>2. Current(w) \in held[w] /\ Current(w) \in Events
    BY <2>1, CurrentIsHeld, ZenonT(40)
  <2> QED  BY <1>3, <2>2, ZenonT(40) DEF GetActiveSecret, Goto
<1>4. ASSUME NEW w \in Workers, DeliverAcked(w) PROVE OneHolder'
  <2>1. pc[w] # "idle"
    BY <1>4 DEF DeliverAcked
  <2>2. Current(w) \in held[w] /\ Current(w) \in Events
    BY <2>1, CurrentIsHeld, ZenonT(40)
  <2> QED  BY <1>4, <2>2, ZenonT(40) DEF DeliverAcked, Goto
<1>5. ASSUME NEW w \in Workers, DeliverFailed(w) PROVE OneHolder'
  <2>1. pc[w] # "idle"
    BY <1>5 DEF DeliverFailed
  <2>2. Current(w) \in held[w] /\ Current(w) \in Events
    BY <2>1, CurrentIsHeld, ZenonT(40)
  <2> QED  BY <1>5, <2>2, ZenonT(40) DEF DeliverFailed, Goto
<1>6. ASSUME NEW w \in Workers, MarkSuccess(w) PROVE OneHolder'
  <2>1. pc[w] # "idle"
    BY <1>6 DEF MarkSuccess
  <2>2. Current(w) \in held[w] /\ Current(w) \in Events
    BY <2>1, CurrentIsHeld, ZenonT(40)
  <2>3. (\A v \in Workers : held'[v] \subseteq held[v]) /\ UNCHANGED Overrun
    BY <1>6 DEF MarkSuccess, Finish
  <2> HIDE DEF TypeOK, Working, Leased, Labels
  <2> QED  BY <2>3, ZenonT(40)
<1>7. ASSUME NEW w \in Workers, MarkRetry(w) PROVE OneHolder'
  <2>1. pc[w] # "idle"
    BY <1>7 DEF MarkRetry
  <2>2. Current(w) \in held[w] /\ Current(w) \in Events
    BY <2>1, CurrentIsHeld, ZenonT(40)
  <2>3. (\A v \in Workers : held'[v] \subseteq held[v]) /\ UNCHANGED Overrun
    BY <1>7 DEF MarkRetry, Finish
  <2> HIDE DEF TypeOK, Working, Leased, Labels
  <2> QED  BY <2>3, ZenonT(40)
<1>8. ASSUME NEW w \in Workers, ClaimLost(w) PROVE OneHolder'
  BY <1>8 DEF ClaimLost, Fault, FirstDue, Due
<1>9. ASSUME NEW w \in Workers, ReadFails(w) PROVE OneHolder'
  <2>1. pc[w] # "idle"
    BY <1>9 DEF ReadFails
  <2>2. Current(w) \in held[w] /\ Current(w) \in Events
    BY <2>1, CurrentIsHeld, ZenonT(40)
  <2> QED  BY <1>9, <2>2, ZenonT(40) DEF ReadFails, Fault, Goto
<1>10. ASSUME NEW w \in Workers, MarkFails(w) PROVE OneHolder'
  <2>1. pc[w] # "idle"
    BY <1>10, ZenonT(40) DEF MarkFails
  <2>2. Current(w) \in held[w] /\ Current(w) \in Events
    BY <2>1, CurrentIsHeld, ZenonT(40)
  <2>3. (\A v \in Workers : held'[v] \subseteq held[v]) /\ UNCHANGED Overrun
    BY <1>10 DEF MarkFails, Finish
  <2> HIDE DEF TypeOK, Working, Leased, Labels
  <2> QED  BY <2>3, ZenonT(40)
<1>11. ASSUME NEW e \in Events, Settle(e) PROVE OneHolder'
  BY <1>11, ZenonT(40) DEF Settle
<1>12. ASSUME NEW e \in Events, LeaseExpire(e) PROVE OneHolder'
  BY <1>12 DEF LeaseExpire, Holders
<1>13. ASSUME NEW e \in Events, LeaseOverrun(e) PROVE OneHolder'
  <2>1. Overrun' = Overrun \cup {e} /\ held' = held
    BY <1>13, OverrunGrows, ZenonT(40) DEF LeaseOverrun
  <2> HIDE DEF TypeOK, Working, Leased, Labels
  <2> QED  BY <2>1, ZenonT(40)
<1>14. ASSUME NEW i \in Instances, Crash(i) PROVE OneHolder'
  BY <1>14, ZenonT(40) DEF Crash, Fault, Holders
<1>15. ASSUME Aside PROVE OneHolder'
  BY <1>15, ZenonT(40) DEF Aside
<1> HIDE DEF TypeOK, Working, Leased, OneHolder, Labels
<1> HIDE DEF row, cache, merchant, work, history, vars
<1> QED
  BY <1>1, <1>2, <1>3, <1>4, <1>5, <1>6, <1>7, <1>8, <1>9, <1>10, <1>11, <1>12, <1>13, <1>14, <1>15,
     ClaimSteps, AsideSteps, ZenonT(40)
  DEF Next, Handle, WorkerFault

\* SUCCESS is written after an answer of 2xx or for a webhook that is off.
LEMMA EarnedStep ==
  ASSUME TypeOK, Working, Earned, [Next]_vars
  PROVE  Earned'
<1> USE LimitAssumption DEF TypeOK, Working, Earned, Labels, Current
<1> USE DEF row, cache, merchant, work, history, vars
<1>1. ASSUME NEW w \in Workers, Claims(w) PROVE Earned'
  BY <1>1, ZenonT(40) DEF Claims, Claim, Due
<1>2. ASSUME NEW w \in Workers, GetWebhookConfig(w) PROVE Earned'
  <2>1. pc[w] # "idle"
    BY <1>2, ZenonT(40) DEF GetWebhookConfig
  <2>2. Current(w) \in held[w] /\ Current(w) \in Events
    BY <2>1, CurrentIsHeld, ZenonT(40)
  <2> QED  BY <1>2, <2>2, ZenonT(40) DEF GetWebhookConfig, Goto
<1>3. ASSUME NEW w \in Workers, GetActiveSecret(w) PROVE Earned'
  <2>1. pc[w] # "idle"
    BY <1>3, ZenonT(40) DEF GetActiveSecret
  <2>2. Current(w) \in held[w] /\ Current(w) \in Events
    BY <2>1, CurrentIsHeld, ZenonT(40)
  <2> QED  BY <1>3, <2>2, ZenonT(40) DEF GetActiveSecret, Goto
<1>4. ASSUME NEW w \in Workers, DeliverAcked(w) PROVE Earned'
  <2>1. pc[w] # "idle"
    BY <1>4, ZenonT(40) DEF DeliverAcked
  <2>2. Current(w) \in held[w] /\ Current(w) \in Events
    BY <2>1, CurrentIsHeld, ZenonT(40)
  <2> QED  BY <1>4, <2>2, ZenonT(40) DEF DeliverAcked, Goto
<1>5. ASSUME NEW w \in Workers, DeliverFailed(w) PROVE Earned'
  <2>1. pc[w] # "idle"
    BY <1>5, ZenonT(40) DEF DeliverFailed
  <2>2. Current(w) \in held[w] /\ Current(w) \in Events
    BY <2>1, CurrentIsHeld, ZenonT(40)
  <2> QED  BY <1>5, <2>2, ZenonT(40) DEF DeliverFailed, Goto
<1>6. ASSUME NEW w \in Workers, MarkSuccess(w) PROVE Earned'
  <2>1. pc[w] # "idle"
    BY <1>6, ZenonT(40) DEF MarkSuccess
  <2>2. Current(w) \in held[w] /\ Current(w) \in Events
    BY <2>1, CurrentIsHeld, ZenonT(40)
  <2> QED  BY <1>6, <2>2, ZenonT(40) DEF MarkSuccess, Finish, Goto
<1>7. ASSUME NEW w \in Workers, MarkRetry(w) PROVE Earned'
  <2>1. pc[w] # "idle"
    BY <1>7, ZenonT(40) DEF MarkRetry
  <2>2. Current(w) \in held[w] /\ Current(w) \in Events
    BY <2>1, CurrentIsHeld, ZenonT(40)
  <2> QED  BY <1>7, <2>2, ZenonT(40) DEF MarkRetry, Finish, Goto, Dead
<1>8. ASSUME NEW w \in Workers, ClaimLost(w) PROVE Earned'
  BY <1>8, ZenonT(40) DEF ClaimLost, Fault, FirstDue, Due
<1>9. ASSUME NEW w \in Workers, ReadFails(w) PROVE Earned'
  <2>1. pc[w] # "idle"
    BY <1>9, ZenonT(40) DEF ReadFails
  <2>2. Current(w) \in held[w] /\ Current(w) \in Events
    BY <2>1, CurrentIsHeld, ZenonT(40)
  <2> QED  BY <1>9, <2>2, ZenonT(40) DEF ReadFails, Fault, Goto
<1>10. ASSUME NEW w \in Workers, MarkFails(w) PROVE Earned'
  <2>1. pc[w] # "idle"
    BY <1>10, ZenonT(40) DEF MarkFails
  <2>2. Current(w) \in held[w] /\ Current(w) \in Events
    BY <2>1, CurrentIsHeld, ZenonT(40)
  <2> QED  BY <1>10, <2>2, ZenonT(40) DEF MarkFails, Fault, Finish, Goto
<1>11. ASSUME NEW e \in Events, Settle(e) PROVE Earned'
  BY <1>11, ZenonT(40) DEF Settle
<1>12. ASSUME NEW e \in Events, LeaseExpire(e) PROVE Earned'
  BY <1>12, ZenonT(40) DEF LeaseExpire, Holders
<1>13. ASSUME NEW e \in Events, LeaseOverrun(e) PROVE Earned'
  BY <1>13, ZenonT(40) DEF LeaseOverrun, Fault, Holders
<1>14. ASSUME NEW i \in Instances, Crash(i) PROVE Earned'
  BY <1>14, ZenonT(40) DEF Crash, Fault, Holders
<1>15. ASSUME Aside PROVE Earned'
  BY <1>15, ZenonT(40) DEF Aside
<1> HIDE DEF TypeOK, Working, Earned, Labels, Current
<1> HIDE DEF row, cache, merchant, work, history, vars
<1> QED
  BY <1>1, <1>2, <1>3, <1>4, <1>5, <1>6, <1>7, <1>8, <1>9, <1>10, <1>11, <1>12, <1>13, <1>14, <1>15,
     ClaimSteps, AsideSteps, ZenonT(40)
  DEF Next, Handle, WorkerFault

\* No other statement writes SUCCESS.
LEMMA SuccessStep ==
  ASSUME TypeOK, Working, Earned, SuccessIsEarned, [Next]_vars
  PROVE  SuccessIsEarned'
<1> USE LimitAssumption DEF TypeOK, Working, Earned, SuccessIsEarned, Labels
<1> USE DEF row, cache, merchant, work, history, vars
<1>1. ASSUME NEW w \in Workers, Claims(w) PROVE SuccessIsEarned'
  BY <1>1 DEF Claims, Claim, Due
<1>2. ASSUME NEW w \in Workers, GetWebhookConfig(w) PROVE SuccessIsEarned'
  <2>1. pc[w] # "idle"
    BY <1>2, ZenonT(40) DEF GetWebhookConfig
  <2>2. Current(w) \in held[w] /\ Current(w) \in Events
    BY <2>1, CurrentIsHeld, ZenonT(40)
  <2> QED  BY <1>2, <2>2, ZenonT(40) DEF GetWebhookConfig, Goto
<1>3. ASSUME NEW w \in Workers, GetActiveSecret(w) PROVE SuccessIsEarned'
  <2>1. pc[w] # "idle"
    BY <1>3, ZenonT(40) DEF GetActiveSecret
  <2>2. Current(w) \in held[w] /\ Current(w) \in Events
    BY <2>1, CurrentIsHeld, ZenonT(40)
  <2> QED  BY <1>3, <2>2, ZenonT(40) DEF GetActiveSecret, Goto
<1>4. ASSUME NEW w \in Workers, DeliverAcked(w) PROVE SuccessIsEarned'
  <2>1. pc[w] # "idle"
    BY <1>4, ZenonT(40) DEF DeliverAcked
  <2>2. Current(w) \in held[w] /\ Current(w) \in Events
    BY <2>1, CurrentIsHeld, ZenonT(40)
  <2> QED  BY <1>4, <2>2 DEF DeliverAcked, Goto
<1>5. ASSUME NEW w \in Workers, DeliverFailed(w) PROVE SuccessIsEarned'
  <2>1. pc[w] # "idle"
    BY <1>5, ZenonT(40) DEF DeliverFailed
  <2>2. Current(w) \in held[w] /\ Current(w) \in Events
    BY <2>1, CurrentIsHeld, ZenonT(40)
  <2> QED  BY <1>5, <2>2, ZenonT(40) DEF DeliverFailed, Goto
<1>6. ASSUME NEW w \in Workers, MarkSuccess(w) PROVE SuccessIsEarned'
  <2>1. pc[w] # "idle"
    BY <1>6, ZenonT(40) DEF MarkSuccess
  <2>2. Current(w) \in held[w] /\ Current(w) \in Events
    BY <2>1, CurrentIsHeld, ZenonT(40)
  <2> QED  BY <1>6, <2>2, ZenonT(40) DEF MarkSuccess, Finish, Goto
<1>7. ASSUME NEW w \in Workers, MarkRetry(w) PROVE SuccessIsEarned'
  <2>1. pc[w] # "idle"
    BY <1>7, ZenonT(40) DEF MarkRetry
  <2>2. Current(w) \in held[w] /\ Current(w) \in Events
    BY <2>1, CurrentIsHeld, ZenonT(40)
  <2> QED  BY <1>7, <2>2, ZenonT(40) DEF MarkRetry, Finish, Goto, Dead
<1>8. ASSUME NEW w \in Workers, ClaimLost(w) PROVE SuccessIsEarned'
  BY <1>8, ZenonT(40) DEF ClaimLost, Fault, FirstDue, Due
<1>9. ASSUME NEW w \in Workers, ReadFails(w) PROVE SuccessIsEarned'
  <2>1. pc[w] # "idle"
    BY <1>9, ZenonT(40) DEF ReadFails
  <2>2. Current(w) \in held[w] /\ Current(w) \in Events
    BY <2>1, CurrentIsHeld, ZenonT(40)
  <2> QED  BY <1>9, <2>2, ZenonT(40) DEF ReadFails, Fault, Goto
<1>10. ASSUME NEW w \in Workers, MarkFails(w) PROVE SuccessIsEarned'
  <2>1. pc[w] # "idle"
    BY <1>10, ZenonT(40) DEF MarkFails
  <2>2. Current(w) \in held[w] /\ Current(w) \in Events
    BY <2>1, CurrentIsHeld, ZenonT(40)
  <2> QED  BY <1>10, <2>2, ZenonT(40) DEF MarkFails, Fault, Finish, Goto
<1>11. ASSUME NEW e \in Events, Settle(e) PROVE SuccessIsEarned'
  BY <1>11, ZenonT(40) DEF Settle
<1>12. ASSUME NEW e \in Events, LeaseExpire(e) PROVE SuccessIsEarned'
  BY <1>12, ZenonT(40) DEF LeaseExpire, Holders
<1>13. ASSUME NEW e \in Events, LeaseOverrun(e) PROVE SuccessIsEarned'
  BY <1>13, ZenonT(40) DEF LeaseOverrun, Fault, Holders
<1>14. ASSUME NEW i \in Instances, Crash(i) PROVE SuccessIsEarned'
  BY <1>14, ZenonT(40) DEF Crash, Fault, Holders
<1>15. ASSUME Aside PROVE SuccessIsEarned'
  BY <1>15, ZenonT(40) DEF Aside
<1> HIDE DEF TypeOK, Working, Earned, SuccessIsEarned, Labels
<1> HIDE DEF row, cache, merchant, work, history, vars
<1> QED
  BY <1>1, <1>2, <1>3, <1>4, <1>5, <1>6, <1>7, <1>8, <1>9, <1>10, <1>11, <1>12, <1>13, <1>14, <1>15,
     ClaimSteps, AsideSteps, ZenonT(40)
  DEF Next, Handle, WorkerFault

\* A goroutine that holds an event has an attempt left or has just made it.
LEMMA BudgetIs ==
  ASSUME TypeOK, Counted, NEW e \in Events, NEW w \in Workers
  PROVE  /\ Budget(e)[w] \in Nat
         /\ e \notin held[w] => Budget(e)[w] = 0
         /\ e \in held[w] => /\ seen[w][e] \in Nat /\ seen[w][e] < MaxRetries
                             /\ Budget(e)[w] >= MaxRetries - seen[w][e] - 1
                             /\ Budget(e)[w] =
                                  IF e = Current(w) /\ pc[w] \in {"success", "retry"}
                                  THEN MaxRetries - seen[w][e] - 1 ELSE MaxRetries - seen[w][e]
<1>1. seen[w][e] \in Nat /\ (e \in held[w] => seen[w][e] < MaxRetries)
  BY DEF TypeOK, Counted
<1> QED  BY <1>1, LimitAssumption DEF Budget

\* All that is counted are natural numbers.
LEMMA Numbers ==
  ASSUME TypeOK, Counted, NEW e \in Events
  PROVE  /\ posts[e] \in Nat /\ Share(e) \in Nat /\ Allowed(e) \in Nat /\ Rest(e) \in Nat
         /\ retry[e] \in Nat /\ retry[e] <= MaxRetries
<1>1. /\ posts[e] \in Nat /\ lost[e] \in Nat /\ overruns[e] \in Nat
      /\ retry[e] \in Nat /\ retry[e] <= MaxRetries
  BY LimitAssumption DEF TypeOK
<1>2. Share(e) \in Nat
  <2>1. \A w \in Workers : Budget(e)[w] \in Nat
    BY BudgetIs, ZenonT(40)
  <2> QED  BY <2>1, SumNat, WorkerAssumption, ZenonT(40) DEF Share
<1>3. Allowed(e) \in Nat
  BY <1>1, LimitAssumption DEF Allowed
<1>4. Rest(e) \in Nat
  BY <1>1, LimitAssumption DEF Rest
<1> QED  BY <1>1, <1>2, <1>3, <1>4

LEMMA NumbersNext ==
  ASSUME TypeOK', Counted', NEW e \in Events
  PROVE  posts'[e] \in Nat /\ Share(e)' \in Nat /\ Allowed(e)' \in Nat /\ Rest(e)' \in Nat
<1>1. /\ posts'[e] \in Nat /\ lost'[e] \in Nat /\ overruns'[e] \in Nat
      /\ retry'[e] \in Nat /\ retry'[e] <= MaxRetries
  BY LimitAssumption DEF TypeOK
<1> DEFINE g == Budget(e)'
<1>2. \A w \in Workers : g[w] \in Nat
  <2> SUFFICES ASSUME NEW w \in Workers PROVE g[w] \in Nat
    OBVIOUS
  <2>1. seen'[w][e] \in Nat /\ (e \in held'[w] => seen'[w][e] < MaxRetries)
    BY DEF TypeOK, Counted
  <2> QED  BY <2>1, LimitAssumption DEF Budget
<1>3. Share(e)' = SumOver(g, Workers)
  BY ZenonT(40) DEF Share
<1> HIDE DEF g
<1>4. Share(e)' \in Nat
  BY <1>2, <1>3, SumNat, WorkerAssumption, ZenonT(40)
<1>5. Allowed(e)' \in Nat
  BY <1>1, LimitAssumption DEF Allowed
<1>6. Rest(e)' \in Nat
  BY <1>1, LimitAssumption DEF Rest
<1> QED  BY <1>1, <1>4, <1>5, <1>6

\* A step of one goroutine changes what the goroutines may cost by what it may cost.
LEMMA ShareChange ==
  ASSUME TypeOK, Counted, TypeOK', Counted', NEW e \in Events, NEW w \in Workers,
         \A v \in Workers \ {w} : held'[v] = held[v] /\ seen'[v] = seen[v] /\ pc'[v] = pc[v]
  PROVE  Share(e)' = Share(e) - Budget(e)[w] + Budget(e)'[w]
<1> DEFINE f == Budget(e)
           g == Budget(e)'
<1>1. \A v \in Workers : f[v] \in Int
  <2>1. \A v \in Workers : f[v] \in Nat
    BY BudgetIs, ZenonT(40)
  <2> HIDE DEF f
  <2> QED  BY <2>1
<1>2. g[w] \in Int
  <2>1. g[w] \in Nat
    <3>1. seen'[w][e] \in Nat /\ (e \in held'[w] => seen'[w][e] < MaxRetries)
      BY DEF TypeOK, Counted
    <3> QED  BY <3>1, LimitAssumption DEF Budget
  <2> HIDE DEF g
  <2> QED  BY <2>1
<1>3. \A v \in Workers \ {w} : g[v] = f[v]
  BY ZenonT(40) DEF Budget, Current
<1>4. Share(e) = SumOver(f, Workers) /\ Share(e)' = SumOver(g, Workers)
  BY ZenonT(40) DEF Share
<1> HIDE DEF f, g
<1>5. SumOver(g, Workers) = SumOver(f, Workers) - f[w] + g[w]
  <2>1. IsFiniteSet(Workers)
    BY WorkerAssumption
  <2> QED  BY <1>1, <1>2, <1>3, <2>1, SumChange
<1> QED  BY <1>4, <1>5, ZenonT(40) DEF f, g

\* A goroutine that goes on with its event spends the attempt when it comes to its outcome.
LEMMA GotoShare ==
  ASSUME TypeOK, Working, Counted, TypeOK', Counted', NEW w \in Workers, NEW l \in Labels,
         pc[w] \in {"config", "secret", "post"}, Goto(w, l), UNCHANGED <<held, seen>>,
         NEW e \in Events
  PROVE  /\ e # Current(w) => Share(e)' = Share(e)
         /\ e = Current(w) => Share(e)' = IF l \in {"success", "retry"} THEN Share(e) - 1 ELSE Share(e)
<1>1. Current(w) \in held[w]
  BY CurrentIsHeld
<1>2. Current(w)' = Current(w)
  BY ZenonT(40) DEF Current
<1>3. pc'[w] = l /\ \A v \in Workers \ {w} : held'[v] = held[v] /\ seen'[v] = seen[v] /\ pc'[v] = pc[v]
  BY DEF Goto, TypeOK
<1>4. Share(e)' = Share(e) - Budget(e)[w] + Budget(e)'[w]
  BY <1>3, ShareChange, ZenonT(40)
<1>5. Share(e) \in Nat /\ Budget(e)[w] \in Nat
  BY Numbers, BudgetIs, ZenonT(40)
<1>6. ASSUME e # Current(w) PROVE Share(e)' = Share(e)
  <2>1. Budget(e)'[w] = Budget(e)[w]
    BY <1>2, <1>6, ZenonT(40) DEF Budget
  <2>2. Share(e)' = Share(e) - Budget(e)[w] + Budget(e)[w]
    BY <1>4, <2>1, ZenonT(40)
  <2> QED  BY <1>5, <2>2
<1>7. ASSUME e = Current(w)
      PROVE  Share(e)' = IF l \in {"success", "retry"} THEN Share(e) - 1 ELSE Share(e)
  <2>1. seen[w][e] \in Nat /\ seen'[w] = seen[w] /\ e \in held'[w] /\ e \in held[w]
    BY <1>1, <1>7 DEF TypeOK
  <2>2. Budget(e)[w] = MaxRetries - seen[w][e]
    BY <1>7, <2>1, LimitAssumption DEF Budget
  <2>3. Budget(e)'[w] = MaxRetries - seen[w][e] - (IF l \in {"success", "retry"} THEN 1 ELSE 0)
    BY <1>2, <1>3, <1>7, <2>1 DEF Budget
  <2> QED  BY <1>4, <1>5, <2>1, <2>2, <2>3, LimitAssumption
<1> QED  BY <1>6, <1>7, ZenonT(40)

\* What a goroutine leaves alone when it is done with an event.
LEMMA FinishKeeps ==
  ASSUME TypeOK, Working, NEW w \in Workers, pc[w] # "idle", Finish(w)
  PROVE  /\ held'[w] = held[w] \ {Current(w)} /\ pc'[w] \in {"idle", "config"}
         /\ \A e \in Events : e # Current(w) => seen'[w][e] = seen[w][e]
         /\ \A v \in Workers \ {w} : held'[v] = held[v] /\ seen'[v] = seen[v] /\ pc'[v] = pc[v]
<1>1. Current(w) \in held[w] /\ Current(w) \in Events
  BY CurrentIsHeld
<1>2. held'[w] = held[w] \ {Current(w)} /\ \A v \in Workers \ {w} : held'[v] = held[v]
  BY DEF TypeOK, Finish
<1>3. pc'[w] \in {"idle", "config"} /\ \A v \in Workers \ {w} : pc'[v] = pc[v]
  BY DEF TypeOK, Finish, Goto
<1>4. /\ \A v \in Workers \ {w} : seen'[v] = seen[v]
      /\ \A e \in Events : e # Current(w) => seen'[w][e] = seen[w][e]
  <2>1. seen \in [Workers -> [Events -> Nat]] /\ seen' = [seen EXCEPT ![w][Current(w)] = 0]
    BY ZenonT(40) DEF TypeOK, Finish
  <2> QED  BY <1>1, <2>1
<1> QED  BY <1>2, <1>3, <1>4, ZenonT(40)

\* When it is done with the event it gives back the attempts it had not made.
LEMMA FinishShare ==
  ASSUME TypeOK, Working, Counted, TypeOK', Counted', NEW w \in Workers,
         pc[w] \in {"success", "retry"}, Finish(w), NEW e \in Events
  PROVE  /\ e # Current(w) =>
              /\ Share(e)' = Share(e)
              /\ \A o \in Workers : e \in held[o] => e \in held'[o] /\ seen'[o][e] = seen[o][e]
         /\ e = Current(w) => Share(e)' = Share(e) - (MaxRetries - seen[w][e] - 1)
<1>1. Current(w) \in held[w] /\ pc[w] # "idle"
  BY CurrentIsHeld
<1>2. /\ held'[w] = held[w] \ {Current(w)} /\ pc'[w] \in {"idle", "config"}
      /\ (e # Current(w) => seen'[w][e] = seen[w][e])
      /\ \A v \in Workers \ {w} : held'[v] = held[v] /\ seen'[v] = seen[v] /\ pc'[v] = pc[v]
  BY <1>1, FinishKeeps, ZenonT(40)
<1>3. Share(e)' = Share(e) - Budget(e)[w] + Budget(e)'[w]
  BY <1>2, ShareChange, ZenonT(40)
<1>4. Share(e) \in Nat /\ Budget(e)[w] \in Nat
  BY Numbers, BudgetIs, ZenonT(40)
<1>5. ASSUME e # Current(w)
      PROVE  /\ Share(e)' = Share(e)
             /\ \A o \in Workers : e \in held[o] => e \in held'[o] /\ seen'[o][e] = seen[o][e]
  <2>1. /\ seen'[w][e] = seen[w][e] /\ (e \in held'[w] <=> e \in held[w])
        /\ pc'[w] \notin {"success", "retry"}
    BY <1>2, <1>5
  <2>2. Budget(e)'[w] = Budget(e)[w]
    BY <1>5, <2>1, ZenonT(40) DEF Budget
  <2>3. Share(e)' = Share(e) - Budget(e)[w] + Budget(e)[w]
    BY <1>3, <2>2, ZenonT(40)
  <2> QED  BY <1>2, <1>4, <2>1, <2>3
<1>6. ASSUME e = Current(w) PROVE Share(e)' = Share(e) - (MaxRetries - seen[w][e] - 1)
  <2>1. Budget(e)[w] = MaxRetries - seen[w][e] - 1 /\ seen[w][e] \in Nat
    BY <1>1, <1>6, BudgetIs
  <2>2. e \notin held'[w]
    BY <1>2, <1>6
  <2>3. Budget(e)'[w] = 0
    BY <2>2, ZenonT(40) DEF Budget
  <2> QED  BY <1>3, <1>4, <2>1, <2>3, LimitAssumption
<1> QED  BY <1>5, <1>6, ZenonT(40)

\* A claim takes over the attempts of the rows it returns.
LEMMA ClaimShare ==
  ASSUME TypeOK, Working, Counted, TypeOK', Counted', NEW w \in Workers, pc[w] = "idle",
         NEW S \in SUBSET Events, Claim(w, S), NEW e \in Events
  PROVE  /\ \A v \in Workers \ {w} : held'[v] = held[v] /\ seen'[v] = seen[v]
         /\ held[w] = {} /\ held'[w] = S
         /\ e \in S => Share(e)' = Share(e) + (MaxRetries - retry[e]) /\ seen'[w][e] = retry[e]
         /\ e \notin S => Share(e)' = Share(e)
<1>1. held[w] = {} /\ held'[w] = S /\ (S # {} => pc'[w] = "config")
  BY ZenonT(40) DEF Claim, TypeOK, Working
<1>2. e \in S => seen'[w][e] = retry[e]
  <2>1. seen' = [seen EXCEPT ![w] = [f \in Events |-> IF f \in S THEN retry[f] ELSE 0]]
    BY ZenonT(40) DEF Claim
  <2>2. seen \in [Workers -> [Events -> Nat]]
    BY DEF TypeOK
  <2> QED  BY <2>1, <2>2
<1>3. \A v \in Workers \ {w} : held'[v] = held[v] /\ seen'[v] = seen[v] /\ pc'[v] = pc[v]
  BY ZenonT(40) DEF Claim, TypeOK
<1>4. Share(e)' = Share(e) - Budget(e)[w] + Budget(e)'[w]
  BY <1>3, ShareChange, ZenonT(40)
<1>5. Share(e) \in Nat /\ Budget(e)[w] = 0 /\ retry[e] \in Nat
  BY <1>1, Numbers, BudgetIs, ZenonT(40)
<1>6. ASSUME e \in S PROVE Budget(e)'[w] = MaxRetries - retry[e]
  <2>1. e \in held'[w] /\ pc'[w] = "config" /\ seen'[w][e] = retry[e]
    BY <1>1, <1>2, <1>6, ZenonT(40)
  <2>2. pc'[w] \notin {"success", "retry"}
    BY <2>1
  <2>3. Budget(e)'[w] = MaxRetries - retry[e] - 0
    BY <2>1, <2>2, ZenonT(40) DEF Budget
  <2> QED  BY <1>5, <2>3, LimitAssumption
<1>7. e \notin S => Budget(e)'[w] = 0
  BY <1>1, ZenonT(40) DEF Budget
<1>8. /\ e \in S => Share(e)' = Share(e) + (MaxRetries - retry[e])
      /\ e \notin S => Share(e)' = Share(e)
  BY <1>4, <1>5, <1>6, <1>7, LimitAssumption
<1> QED  BY <1>1, <1>2, <1>3, <1>8, ZenonT(40)

\* With an instance go the attempts of its goroutines.
LEMMA CrashShare ==
  ASSUME TypeOK, Counted, TypeOK', Counted', NEW i \in Instances, Crash(i), NEW e \in Events
  PROVE  /\ Share(e)' <= Share(e)
         /\ \A o \in Workers : InstanceOf[o] = i => Share(e)' <= Share(e) - Budget(e)[o]
         /\ \A o \in Workers : InstanceOf[o] # i => held'[o] = held[o] /\ seen'[o] = seen[o]
<1>1. \A v \in Workers : /\ InstanceOf[v] = i => held'[v] = {}
                         /\ InstanceOf[v] # i => held'[v] = held[v] /\ seen'[v] = seen[v] /\ pc'[v] = pc[v]
  BY ZenonT(40) DEF Crash
<1> DEFINE f == Budget(e)
           g == Budget(e)'
           h == [v \in Workers |-> f[v] - g[v]]
<1>2. \A v \in Workers : /\ InstanceOf[v] = i => g[v] = 0
                         /\ InstanceOf[v] # i => g[v] = f[v]
  BY <1>1, ZenonT(40) DEF Budget, Current
<1>3. \A v \in Workers : f[v] \in Nat
  BY BudgetIs, ZenonT(40)
<1>4. Share(e) = SumOver(f, Workers) /\ Share(e)' = SumOver(g, Workers)
  BY ZenonT(40) DEF Share
<1> HIDE DEF f, g
<1>5. \A v \in Workers : /\ f[v] \in Int /\ g[v] \in Int /\ h[v] = f[v] - g[v] /\ h[v] \in Nat
                         /\ InstanceOf[v] = i => h[v] = f[v]
  BY <1>2, <1>3
<1> HIDE DEF h
<1>6. SumOver(h, Workers) = SumOver(f, Workers) - SumOver(g, Workers)
  <2>1. IsFiniteSet(Workers)
    BY WorkerAssumption
  <2> QED  BY <1>5, <2>1, SumMinus
<1>7. SumOver(h, Workers) \in Nat /\ \A v \in Workers : h[v] <= SumOver(h, Workers)
  BY <1>5, SumNat, WorkerAssumption, ZenonT(40)
<1>8. SumOver(f, Workers) \in Int /\ SumOver(g, Workers) \in Int
  BY <1>5, SumType, WorkerAssumption, ZenonT(40)
<1>9. /\ SumOver(g, Workers) <= SumOver(f, Workers)
      /\ \A o \in Workers : InstanceOf[o] = i => SumOver(g, Workers) <= SumOver(f, Workers) - f[o]
  BY <1>5, <1>6, <1>7, <1>8
<1>10. /\ Share(e)' <= Share(e)
       /\ \A o \in Workers : InstanceOf[o] = i => Share(e)' <= Share(e) - f[o]
  BY <1>4, <1>9, ZenonT(40)
<1> QED  BY <1>1, <1>10, ZenonT(40) DEF f

\* What keeps the row, its holders and the limit may only cost less.
LEMMA AttemptsCarry ==
  ASSUME TypeOK, Counted, TypeOK', Counted', Attempts, NEW e \in Events,
         posts'[e] + Share(e)' <= posts[e] + Share(e),
         status'[e] = status[e], retry'[e] = retry[e], e \in stale' <=> e \in stale,
         lost'[e] = lost[e], overruns'[e] = overruns[e],
         \A o \in Workers : e \in held[o] => e \in held'[o] /\ seen'[o][e] = seen[o][e]
  PROVE  Within(e)'
<1>1. Allowed(e)' = Allowed(e) /\ Rest(e)' = Rest(e)
  BY ZenonT(40) DEF Allowed, Rest
<1>2. Lent(e) => Lent(e)'
  BY ZenonT(40) DEF Lent
<1>3. /\ posts[e] + Share(e) <= Allowed(e)
      /\ Lent(e) \/ posts[e] + Share(e) + Rest(e) <= Allowed(e)
  BY ZenonT(40) DEF Attempts, Within
<1>4. /\ posts[e] \in Nat /\ Share(e) \in Nat /\ Allowed(e) \in Nat /\ Rest(e) \in Nat
      /\ posts'[e] \in Nat /\ Share(e)' \in Nat
  BY Numbers, NumbersNext, ZenonT(40)
<1>5. /\ posts'[e] + Share(e)' <= Allowed(e)
      /\ Lent(e) \/ posts'[e] + Share(e)' + Rest(e) <= Allowed(e)
  BY <1>3, <1>4
<1> QED  BY <1>1, <1>2, <1>5, ZenonT(40) DEF Within

\* The attempts of an event that can be claimed are with its row.
LEMMA DueIsCovered ==
  ASSUME Attempts, NEW e \in Due
  PROVE  e \in Events /\ posts[e] + Share(e) + Rest(e) <= Allowed(e) /\ Rest(e) = MaxRetries - retry[e]
<1>1. e \in Events /\ (status[e] = "PENDING" \/ (status[e] = "PROCESSING" /\ e \in stale))
  BY ZenonT(40) DEF Due
<1>2. ~Lent(e)
  BY <1>1 DEF Lent
<1>3. Rest(e) = MaxRetries - retry[e]
  BY <1>1 DEF Rest
<1> QED  BY <1>1, <1>2, <1>3, ZenonT(40) DEF Attempts, Within

\* Arithmetic of the attempts: a sum bounds itself, a lost attempt allows one more, a lease
\* overrun n more.
LEMMA SumKept ==
  ASSUME NEW p \in Nat, NEW s \in Nat
  PROVE  p + s <= p + s
  OBVIOUS

LEMMA SumFalls ==
  ASSUME NEW p \in Nat, NEW s \in Nat, NEW t \in Nat, t <= s
  PROVE  p + t <= p + s
  OBVIOUS

LEMMA OneMore ==
  ASSUME NEW p \in Nat, NEW s \in Nat, NEW t \in Nat, NEW a \in Nat, NEW r \in Nat, t <= s
  PROVE  /\ p + s <= a => p + t <= a + 1
         /\ p + t <= a => p + t <= a + 1
         /\ p + s + r <= a => p + t + r <= a + 1
  OBVIOUS

LEMMA AllowedGrows ==
  ASSUME NEW n \in Nat, NEW o \in Nat, NEW l \in Nat
  PROVE  /\ n * (1 + o) + (l + 1) = n * (1 + o) + l + 1
         /\ n * (1 + (o + 1)) + l = n * (1 + o) + l + n
<1> DEFINE k == n * (1 + o)
<1>1. k \in Nat /\ n * (1 + (o + 1)) = k + n
  OBVIOUS
<1> HIDE DEF k
<1>2. k + (l + 1) = k + l + 1 /\ k + n + l = k + l + n
  BY <1>1
<1> QED  BY <1>1, <1>2, ZenonT(40) DEF k

\* A claim.
LEMMA AttemptsClaim ==
  ASSUME TypeOK, Working, Counted, TypeOK', Counted', Attempts,
         NEW w \in Workers, Claims(w), NEW e \in Events
  PROVE  Within(e)'
<1>1. PICK S \in SUBSET Due : Claim(w, S)
  BY ZenonT(40) DEF Claims
<1>2. pc[w] = "idle" /\ S \in SUBSET Events /\ UNCHANGED <<retry, posts, lost, overruns>>
  BY ZenonT(40) DEF Claims, Due, history
<1>3. /\ \A v \in Workers \ {w} : held'[v] = held[v] /\ seen'[v] = seen[v]
      /\ held[w] = {} /\ held'[w] = S
      /\ e \in S => Share(e)' = Share(e) + (MaxRetries - retry[e]) /\ seen'[w][e] = retry[e]
      /\ e \notin S => Share(e)' = Share(e)
  BY <1>1, <1>2, ClaimShare, ZenonT(40)
<1>4. /\ posts[e] \in Nat /\ Share(e) \in Nat /\ Allowed(e) \in Nat /\ Rest(e) \in Nat
      /\ retry[e] \in Nat
  BY Numbers, ZenonT(40)
<1>5. CASE e \in S
  <2>1. posts[e] + Share(e) + Rest(e) <= Allowed(e) /\ Rest(e) = MaxRetries - retry[e]
    BY <1>5, DueIsCovered
  <2>2. Share(e)' = Share(e) + Rest(e)
    BY <1>3, <1>5, <2>1, ZenonT(40)
  <2>3. posts[e] + Share(e)' <= Allowed(e)
    BY <1>4, <2>1, <2>2
  <2>4. Allowed(e)' = Allowed(e) /\ posts'[e] = posts[e]
    BY <1>2, ZenonT(40) DEF Allowed
  <2>5. Lent(e)'
    <3>1. status'[e] = "PROCESSING" /\ e \notin stale'
      BY <1>1, <1>5, ZenonT(40) DEF Claim
    <3>2. e \in held'[w] /\ retry'[e] = seen'[w][e]
      BY <1>2, <1>3, <1>5, ZenonT(40)
    <3> QED  BY <3>1, <3>2, ZenonT(40) DEF Lent
  <2> QED  BY <2>3, <2>4, <2>5, ZenonT(40) DEF Within
<1>6. CASE e \notin S
  <2>1. status'[e] = status[e] /\ (e \in stale' <=> e \in stale)
    BY <1>1, <1>6, ZenonT(40) DEF Claim
  <2>2. \A o \in Workers : e \in held[o] => e \in held'[o] /\ seen'[o][e] = seen[o][e]
    BY <1>3, ZenonT(40)
  <2>3. posts'[e] + Share(e)' <= posts[e] + Share(e)
    BY <1>2, <1>3, <1>4, <1>6, SumKept, ZenonT(40)
  <2> QED  BY <1>2, <2>1, <2>2, <2>3, AttemptsCarry, ZenonT(40)
<1> QED  BY <1>5, <1>6

\* A step of handleEvent before the outcome is written: a POST is one of the attempts that
\* the goroutine has.
LEMMA AttemptsGoto ==
  ASSUME TypeOK, Working, Counted, TypeOK', Counted', Attempts,
         NEW w \in Workers, NEW l \in Labels, pc[w] \in {"config", "secret", "post"}, Goto(w, l),
         UNCHANGED <<row, held, seen, lost, overruns>>,
         \/ UNCHANGED posts
         \/ l \in {"success", "retry"} /\ posts' = [posts EXCEPT ![Current(w)] = @ + 1],
         NEW e \in Events
  PROVE  Within(e)'
<1>1. /\ e # Current(w) => Share(e)' = Share(e)
      /\ e = Current(w) => Share(e)' = IF l \in {"success", "retry"} THEN Share(e) - 1 ELSE Share(e)
  BY GotoShare, ZenonT(40)
<1>2. posts[e] \in Nat /\ Share(e) \in Nat
  BY Numbers, ZenonT(40)
<1>3. \/ posts'[e] = posts[e]
      \/ l \in {"success", "retry"} /\ e = Current(w) /\ posts'[e] = posts[e] + 1
  BY DEF TypeOK
<1>4. posts'[e] + Share(e)' <= posts[e] + Share(e)
  BY <1>1, <1>2, <1>3
<1>5. /\ status'[e] = status[e] /\ retry'[e] = retry[e] /\ (e \in stale' <=> e \in stale)
      /\ lost'[e] = lost[e] /\ overruns'[e] = overruns[e]
      /\ \A o \in Workers : e \in held[o] => e \in held'[o] /\ seen'[o][e] = seen[o][e]
  BY ZenonT(40) DEF row
<1> QED  BY <1>4, <1>5, AttemptsCarry, ZenonT(40)

\* A goroutine that gives up the n - k - 1 attempts it had left returns them to the row.
LEMMA OneSpent ==
  ASSUME NEW p \in Nat, NEW s \in Nat, NEW t \in Nat, NEW a \in Nat, NEW k \in Nat, NEW n \in Nat,
         k < n, t = s - (n - k - 1), p + s <= a
  PROVE  p + t <= a /\ p + t + (n - (k + 1)) <= a
  OBVIOUS

\* The outcome is written, or the statement fails.
LEMMA AttemptsOutcome ==
  ASSUME TypeOK, Working, Counted, TypeOK', Counted', Attempts,
         NEW w \in Workers, MarkSuccess(w) \/ MarkRetry(w) \/ MarkFails(w), NEW e \in Events
  PROVE  Within(e)'
<1>1. pc[w] \in {"success", "retry"} /\ Finish(w) /\ UNCHANGED <<posts, overruns>>
  BY ZenonT(40) DEF MarkSuccess, MarkRetry, MarkFails, history
<1>2. /\ e # Current(w) =>
           /\ Share(e)' = Share(e)
           /\ \A o \in Workers : e \in held[o] => e \in held'[o] /\ seen'[o][e] = seen[o][e]
      /\ e = Current(w) => Share(e)' = Share(e) - (MaxRetries - seen[w][e] - 1)
  BY <1>1, FinishShare, ZenonT(40)
<1>3. /\ posts[e] \in Nat /\ Share(e) \in Nat /\ Allowed(e) \in Nat /\ Rest(e) \in Nat
      /\ retry[e] \in Nat /\ Share(e)' \in Nat
  BY Numbers, NumbersNext, ZenonT(40)
<1>4. Current(w) \in held[w] /\ pc[w] # "idle"
  BY <1>1, CurrentIsHeld, ZenonT(40)
<1>5. CASE e # Current(w)
  <2>1. /\ status'[e] = status[e] /\ retry'[e] = retry[e] /\ (e \in stale' <=> e \in stale)
        /\ lost'[e] = lost[e]
    BY <1>5, ZenonT(40) DEF MarkSuccess, MarkRetry, MarkFails, TypeOK, row, history
  <2>2. posts'[e] + Share(e)' <= posts[e] + Share(e)
    BY <1>1, <1>2, <1>3, <1>5, SumKept, ZenonT(40)
  <2> QED  BY <1>1, <1>2, <1>5, <2>1, <2>2, AttemptsCarry, ZenonT(40)
<1>6. CASE e = Current(w)
  <2>1. seen[w][e] \in Nat /\ seen[w][e] < MaxRetries
    BY <1>4, <1>6, BudgetIs, ZenonT(40)
  <2>2. Share(e)' = Share(e) - (MaxRetries - seen[w][e] - 1)
    BY <1>2, <1>6, ZenonT(40)
  <2>3. posts[e] + Share(e) <= Allowed(e) /\ (Lent(e) \/ posts[e] + Share(e) + Rest(e) <= Allowed(e))
    BY ZenonT(40) DEF Attempts, Within
  <2>7. posts[e] + Share(e)' <= Allowed(e) /\ Share(e)' <= Share(e)
    <3> DEFINE t == Share(e)'  k == seen[w][e]
    <3>1. t \in Nat /\ k \in Nat /\ k < MaxRetries /\ t = Share(e) - (MaxRetries - k - 1)
      BY <1>3, <2>1, <2>2, ZenonT(40)
    <3> HIDE DEF t, k
    <3>2. t <= Share(e)
      BY <1>3, <3>1, LimitAssumption
    <3>3. posts[e] + t <= Allowed(e)
      BY <1>3, <2>3, <3>1, <3>2
    <3> QED  BY <3>2, <3>3, ZenonT(40) DEF t
  <2>4. CASE MarkSuccess(w)
    <3>1. status'[e] = "SUCCESS" /\ lost' = lost
      BY <1>6, <2>4, ZenonT(40) DEF MarkSuccess, TypeOK, history
    <3>2. Rest(e)' = 0 /\ Allowed(e)' = Allowed(e) /\ posts'[e] = posts[e]
      BY <1>1, <3>1, ZenonT(40) DEF Rest, Allowed
    <3>3. posts[e] + Share(e)' + 0 <= Allowed(e)
      <4> DEFINE t == Share(e)'
      <4>1. t \in Nat /\ posts[e] + t <= Allowed(e)
        BY <1>3, <2>7, ZenonT(40)
      <4> HIDE DEF t
      <4>2. posts[e] + t + 0 <= Allowed(e)
        BY <1>3, <4>1
      <4> QED  BY <4>2, ZenonT(40) DEF t
    <3> QED  BY <2>7, <3>2, <3>3, ZenonT(40) DEF Within
  <2>5. CASE MarkRetry(w)
    <3>1. /\ retry'[e] = seen[w][e] + 1 /\ lost' = lost
          /\ status'[e] = IF Dead(seen[w][e] + 1) THEN "DEAD" ELSE "PENDING"
      BY <1>6, <2>5, ZenonT(40) DEF MarkRetry, TypeOK, history
    <3>2. Rest(e)' = MaxRetries - (seen[w][e] + 1)
      BY <2>1, <3>1, LimitAssumption DEF Rest, Dead
    <3>3. Allowed(e)' = Allowed(e) /\ posts'[e] = posts[e]
      BY <1>1, <3>1, ZenonT(40) DEF Allowed
    <3>4. posts[e] + Share(e)' <= Allowed(e) /\ posts[e] + Share(e)' + Rest(e)' <= Allowed(e)
      <4> DEFINE t == Share(e)'  k == seen[w][e]
      <4>1. MaxRetries \in Nat /\ posts[e] + Share(e) <= Allowed(e)
        BY <2>3, LimitAssumption, ZenonT(40)
      <4>2. t \in Nat /\ k \in Nat /\ k < MaxRetries /\ t = Share(e) - (MaxRetries - k - 1)
        BY <1>3, <2>1, <2>2, ZenonT(40)
      <4> HIDE DEF t, k
      <4>3. posts[e] + t <= Allowed(e) /\ posts[e] + t + (MaxRetries - (k + 1)) <= Allowed(e)
        BY <1>3, <4>1, <4>2, OneSpent, SMTT(40)
      <4> QED  BY <3>2, <4>3, ZenonT(40) DEF t, k
    <3> QED  BY <3>3, <3>4, ZenonT(40) DEF Within
  <2>6. CASE MarkFails(w)
    <3>1. UNCHANGED row /\ lost'[e] = lost[e] + 1
      BY <1>6, <2>6, ZenonT(40) DEF MarkFails, TypeOK
    <3>2. Allowed(e)' = Allowed(e) + 1
      <4>1. lost[e] \in Nat /\ overruns[e] \in Nat /\ overruns'[e] = overruns[e]
        BY <1>1 DEF TypeOK
      <4>2. MaxRetries \in Nat
        BY LimitAssumption
      <4>3. MaxRetries * (1 + overruns[e]) + (lost[e] + 1)
              = MaxRetries * (1 + overruns[e]) + lost[e] + 1
        BY <4>1, <4>2, AllowedGrows, ZenonT(40)
      <4> QED  BY <3>1, <4>1, <4>3, ZenonT(40) DEF Allowed
    <3>3. Rest(e)' = Rest(e) /\ posts'[e] = posts[e]
      BY <1>1, <3>1, ZenonT(40) DEF Rest, row
    <3>4. posts[e] + Share(e)' <= Allowed(e) + 1
      BY <1>3, <2>7, OneMore, ZenonT(40)
    <3>5. CASE posts[e] + Share(e) + Rest(e) <= Allowed(e)
      <4>1. posts[e] + Share(e)' + Rest(e) <= Allowed(e) + 1
        BY <1>3, <2>7, <3>5, OneMore, ZenonT(40)
      <4> QED  BY <3>2, <3>3, <3>4, <4>1, ZenonT(40) DEF Within
    <3>6. CASE Lent(e)
      <4>1. PICK o \in Workers : /\ e \in held[o] /\ retry[e] = seen[o][e]
                                 /\ status[e] = "PROCESSING" /\ e \notin stale
        BY <3>6, ZenonT(40) DEF Lent
      <4>2. CASE o = w
        <5>1. Rest(e) = MaxRetries - seen[w][e]
          BY <4>1, <4>2 DEF Rest
        <5>2. posts[e] + Share(e)' + Rest(e) <= Allowed(e) + 1
          BY <1>3, <2>1, <2>2, <2>3, <5>1, LimitAssumption
        <5> QED  BY <3>2, <3>3, <3>4, <5>2, ZenonT(40) DEF Within
      <4>3. CASE o # w
        <5>1. held'[o] = held[o] /\ seen'[o] = seen[o]
          BY <1>1, <1>4, <4>3, FinishKeeps, ZenonT(40)
        <5>2. Lent(e)'
          BY <3>1, <4>1, <5>1, ZenonT(40) DEF Lent, row
        <5> QED  BY <3>2, <3>3, <3>4, <5>2, ZenonT(40) DEF Within
      <4> QED  BY <4>2, <4>3
    <3> QED  BY <2>3, <3>5, <3>6
  <2> QED  BY <2>4, <2>5, <2>6
<1> QED  BY <1>5, <1>6

\* An instance dies: what its goroutines had done for an event counts as one lost attempt.
LEMMA AttemptsCrash ==
  ASSUME TypeOK, Working, Counted, TypeOK', Counted', Attempts,
         NEW i \in Instances, Crash(i), NEW e \in Events
  PROVE  Within(e)'
<1>1. /\ Share(e)' <= Share(e)
      /\ \A o \in Workers : InstanceOf[o] = i => Share(e)' <= Share(e) - Budget(e)[o]
      /\ \A o \in Workers : InstanceOf[o] # i => held'[o] = held[o] /\ seen'[o] = seen[o]
  BY CrashShare, ZenonT(40)
<1>2. /\ posts[e] \in Nat /\ Share(e) \in Nat /\ Allowed(e) \in Nat /\ Rest(e) \in Nat
      /\ retry[e] \in Nat /\ Share(e)' \in Nat
  BY Numbers, NumbersNext, ZenonT(40)
<1>3. UNCHANGED <<row, posts, overruns>>
  BY ZenonT(40) DEF Crash
<1>4. CASE \A o \in Holders(e) : InstanceOf[o] # i
  <2>1. lost'[e] = lost[e]
    BY <1>4, ZenonT(40) DEF Crash
  <2>2. \A o \in Workers : e \in held[o] => e \in held'[o] /\ seen'[o][e] = seen[o][e]
    BY <1>1, <1>4, ZenonT(40) DEF Holders
  <2>3. posts'[e] + Share(e)' <= posts[e] + Share(e)
    <3>1. posts'[e] = posts[e]
      BY <1>3, ZenonT(40)
    <3> QED  BY <1>1, <1>2, <3>1, SumFalls, ZenonT(40)
  <2>4. status'[e] = status[e] /\ retry'[e] = retry[e] /\ (e \in stale' <=> e \in stale)
    BY <1>3, ZenonT(40) DEF row
  <2> QED  BY <1>3, <2>1, <2>2, <2>3, <2>4, AttemptsCarry, ZenonT(40)
<1>5. CASE \E o \in Holders(e) : InstanceOf[o] = i
  <2>1. lost'[e] = lost[e] + 1
    BY <1>5, ZenonT(40) DEF Crash
  <2>2. Allowed(e)' = Allowed(e) + 1
    <3>1. lost[e] \in Nat /\ overruns[e] \in Nat /\ overruns'[e] = overruns[e]
      BY <1>3 DEF TypeOK
    <3>2. MaxRetries \in Nat
      BY LimitAssumption
    <3>3. MaxRetries * (1 + overruns[e]) + (lost[e] + 1)
            = MaxRetries * (1 + overruns[e]) + lost[e] + 1
      BY <3>1, <3>2, AllowedGrows, ZenonT(40)
    <3> QED  BY <2>1, <3>1, <3>3, ZenonT(40) DEF Allowed
  <2>3. Rest(e)' = Rest(e) /\ posts'[e] = posts[e]
    BY <1>3, ZenonT(40) DEF Rest, row
  <2>4. posts[e] + Share(e) <= Allowed(e) /\ (Lent(e) \/ posts[e] + Share(e) + Rest(e) <= Allowed(e))
    BY ZenonT(40) DEF Attempts, Within
  <2>5. posts[e] + Share(e)' <= Allowed(e) + 1
    BY <1>1, <1>2, <2>4, OneMore, ZenonT(40)
  <2>6. CASE posts[e] + Share(e) + Rest(e) <= Allowed(e)
    <3>1. posts[e] + Share(e)' + Rest(e) <= Allowed(e) + 1
      BY <1>1, <1>2, <2>6, OneMore, ZenonT(40)
    <3> QED  BY <2>2, <2>3, <2>5, <3>1, ZenonT(40) DEF Within
  <2>7. CASE Lent(e)
    <3>1. PICK o \in Workers : /\ e \in held[o] /\ retry[e] = seen[o][e]
                               /\ status[e] = "PROCESSING" /\ e \notin stale
      BY <2>7, ZenonT(40) DEF Lent
    <3>2. CASE InstanceOf[o] = i
      <4>1. Budget(e)[o] \in Nat /\ Budget(e)[o] >= MaxRetries - retry[e] - 1
        BY <3>1, BudgetIs
      <4>2. Rest(e) = MaxRetries - retry[e]
        BY <3>1 DEF Rest
      <4>3. Share(e)' <= Share(e) - Budget(e)[o]
        BY <1>1, <3>2, ZenonT(40)
      <4>4. posts[e] + Share(e)' + Rest(e) <= Allowed(e) + 1
        BY <1>2, <2>4, <4>1, <4>2, <4>3, LimitAssumption
      <4> QED  BY <2>2, <2>3, <2>5, <4>4, ZenonT(40) DEF Within
    <3>3. CASE InstanceOf[o] # i
      <4>1. Lent(e)'
        BY <1>1, <1>3, <3>1, <3>3, ZenonT(40) DEF Lent, row
      <4> QED  BY <2>2, <2>3, <2>5, <4>1, ZenonT(40) DEF Within
    <3> QED  BY <3>2, <3>3
  <2> QED  BY <2>4, <2>6, <2>7
<1> QED  BY <1>4, <1>5, ZenonT(40)

\* Settlements, leases that run out and claims whose answer is lost leave the goroutines
\* as they are.
LEMMA AttemptsRow ==
  ASSUME TypeOK, Working, Counted, TypeOK', Counted', Attempts, NEW e \in Events,
         \/ \E w \in Workers : ClaimLost(w)
         \/ \E f \in Events : Settle(f) \/ LeaseExpire(f) \/ LeaseOverrun(f)
         \/ Aside
  PROVE  Within(e)'
<1>1. UNCHANGED <<held, seen, pc, posts, retry, lost>>
  BY ZenonT(40) DEF ClaimLost, Settle, LeaseExpire, LeaseOverrun, Aside, work, history
<1>2. Share(e)' = Share(e) /\ posts'[e] = posts[e]
  BY <1>1, ZenonT(40) DEF Share, Budget, Current
<1>3. posts[e] \in Nat /\ Share(e) \in Nat /\ Allowed(e) \in Nat /\ Rest(e) \in Nat
  BY Numbers, ZenonT(40)
<1>4. posts[e] + Share(e) <= Allowed(e) /\ (Lent(e) \/ posts[e] + Share(e) + Rest(e) <= Allowed(e))
  BY ZenonT(40) DEF Attempts, Within
<1>5. CASE /\ status'[e] = status[e] /\ (e \in stale' <=> e \in stale) /\ overruns'[e] = overruns[e]
  <2>1. posts'[e] + Share(e)' <= posts[e] + Share(e)
    BY <1>2, <1>3, SumKept, ZenonT(40)
  <2> QED  BY <1>1, <1>5, <2>1, AttemptsCarry, ZenonT(40)
<1>6. ASSUME ~Lent(e), Rest(e)' = Rest(e), overruns'[e] = overruns[e] PROVE Within(e)'
  <2>1. Allowed(e)' = Allowed(e)
    BY <1>1, <1>6, ZenonT(40) DEF Allowed
  <2> QED  BY <1>2, <1>4, <1>6, <2>1, ZenonT(40) DEF Within
<1>7. ASSUME NEW w \in Workers, ClaimLost(w) PROVE Within(e)'
  <2>1. overruns' = overruns
    BY <1>7, ZenonT(40) DEF ClaimLost
  <2>2. CASE e \notin FirstDue
    <3>1. status'[e] = status[e] /\ (e \in stale' <=> e \in stale)
      BY <1>7, <2>2, ZenonT(40) DEF ClaimLost
    <3> QED  BY <1>5, <2>1, <3>1, ZenonT(40)
  <2>3. CASE e \in FirstDue
    <3>1. e \in Due /\ status'[e] = "PROCESSING"
      BY <1>7, <2>3, ZenonT(40) DEF ClaimLost, FirstDue
    <3>2. status[e] = "PENDING" \/ (status[e] = "PROCESSING" /\ e \in stale)
      BY <3>1, ZenonT(40) DEF Due
    <3>3. ~Lent(e) /\ Rest(e)' = Rest(e)
      BY <1>1, <3>1, <3>2 DEF Lent, Rest
    <3> QED  BY <1>6, <2>1, <3>3, ZenonT(40)
  <2> QED  BY <2>2, <2>3
<1>8. ASSUME NEW f \in Events, Settle(f) PROVE Within(e)'
  <2>1. overruns' = overruns /\ stale' = stale
    BY <1>8, ZenonT(40) DEF Settle, history
  <2>2. CASE e # f
    <3>1. status'[e] = status[e]
      BY <1>8, <2>2, ZenonT(40) DEF Settle, TypeOK
    <3> QED  BY <1>5, <2>1, <3>1, ZenonT(40)
  <2>3. CASE e = f
    <3>1. status[e] = "NONE" /\ status'[e] = "PENDING"
      BY <1>8, <2>3, ZenonT(40) DEF Settle, TypeOK
    <3>2. ~Lent(e) /\ Rest(e)' = Rest(e)
      BY <1>1, <3>1 DEF Lent, Rest
    <3> QED  BY <1>6, <2>1, <3>2, ZenonT(40)
  <2> QED  BY <2>2, <2>3
<1>9. ASSUME NEW f \in Events, LeaseExpire(f) PROVE Within(e)'
  <2>1. overruns' = overruns /\ status' = status
    BY <1>9, ZenonT(40) DEF LeaseExpire, history
  <2>2. CASE e # f
    <3>1. e \in stale' <=> e \in stale
      BY <1>9, <2>2, ZenonT(40) DEF LeaseExpire
    <3> QED  BY <1>5, <2>1, <3>1, ZenonT(40)
  <2>3. CASE e = f
    <3>1. ~Lent(e)
      BY <1>9, <2>3, ZenonT(40) DEF LeaseExpire, Holders, Lent
    <3>2. Rest(e)' = Rest(e)
      BY <1>1, <2>1, ZenonT(40) DEF Rest
    <3> QED  BY <1>6, <2>1, <3>1, <3>2, ZenonT(40)
  <2> QED  BY <2>2, <2>3
<1>10. ASSUME NEW f \in Events, LeaseOverrun(f) PROVE Within(e)'
  <2>1. status' = status /\ stale' = stale \cup {f} /\ overruns' = [overruns EXCEPT ![f] = @ + 1]
    BY <1>10, ZenonT(40) DEF LeaseOverrun
  <2>2. CASE e # f
    <3>1. (e \in stale' <=> e \in stale) /\ overruns'[e] = overruns[e]
      BY <2>1, <2>2, ZenonT(40) DEF TypeOK
    <3> QED  BY <1>5, <2>1, <3>1, ZenonT(40)
  <2>3. CASE e = f
    <3>1. overruns[e] \in Nat /\ lost[e] \in Nat /\ overruns'[e] = overruns[e] + 1
      BY <2>1, <2>3 DEF TypeOK
    <3>2. Allowed(e)' = Allowed(e) + MaxRetries
      <4>1. MaxRetries \in Nat /\ lost'[e] = lost[e]
        BY <1>1, LimitAssumption, ZenonT(40)
      <4>2. MaxRetries * (1 + (overruns[e] + 1)) + lost[e]
              = MaxRetries * (1 + overruns[e]) + lost[e] + MaxRetries
        BY <3>1, <4>1, AllowedGrows, ZenonT(40)
      <4> QED  BY <3>1, <4>1, <4>2, ZenonT(40) DEF Allowed
    <3>3. Rest(e)' = Rest(e) /\ Rest(e) <= MaxRetries
      <4>1. Rest(e)' = Rest(e)
        BY <1>1, <2>1, ZenonT(40) DEF Rest
      <4>2. retry[e] \in Nat
        BY Numbers, ZenonT(40)
      <4>3. MaxRetries - retry[e] <= MaxRetries /\ 0 <= MaxRetries
        BY <4>2, LimitAssumption
      <4>4. Rest(e) <= MaxRetries
        BY <4>3, ZenonT(40) DEF Rest
      <4> QED  BY <4>1, <4>4, ZenonT(40)
    <3>4. /\ posts[e] + Share(e) <= Allowed(e) + MaxRetries
          /\ posts[e] + Share(e) + Rest(e) <= Allowed(e) + MaxRetries
      BY <1>3, <1>4, <3>3, LimitAssumption
    <3> QED  BY <1>2, <3>2, <3>3, <3>4, ZenonT(40) DEF Within
  <2> QED  BY <2>2, <2>3
<1>11. ASSUME Aside PROVE Within(e)'
  <2>1. status' = status /\ stale' = stale /\ overruns' = overruns
    BY <1>11, ZenonT(40) DEF Aside, history
  <2> QED  BY <1>5, <2>1, ZenonT(40)
<1> QED  BY <1>7, <1>8, <1>9, <1>10, <1>11, ZenonT(40)

\* Every step keeps what is made and what may still be made within what is allowed.
LEMMA AttemptsStep ==
  ASSUME TypeOK, Working, Counted, Attempts, [Next]_vars
  PROVE  Attempts'
<1>0. TypeOK' /\ Counted'
  BY TypeStep, CountedStep, ZenonT(40)
<1> SUFFICES ASSUME NEW e \in Events PROVE Within(e)'
  BY ZenonT(40) DEF Attempts
<1>1. ASSUME NEW w \in Workers, Claims(w) PROVE Within(e)'
  BY <1>0, <1>1, AttemptsClaim, ZenonT(40)
<1>2. ASSUME NEW w \in Workers, GetWebhookConfig(w) \/ GetActiveSecret(w) \/ ReadFails(w)
      PROVE  Within(e)'
  <2>1. /\ pc[w] \in {"config", "secret", "post"}
        /\ UNCHANGED <<row, held, seen, lost, overruns, posts>>
    BY <1>2, ZenonT(40) DEF GetWebhookConfig, GetActiveSecret, ReadFails, history
  <2>2. \E l \in Labels : Goto(w, l)
    BY <1>2, ZenonT(40) DEF GetWebhookConfig, GetActiveSecret, ReadFails, Labels
  <2> QED  BY <1>0, <2>1, <2>2, AttemptsGoto, ZenonT(40)
<1>3. ASSUME NEW w \in Workers, DeliverAcked(w) \/ DeliverFailed(w) PROVE Within(e)'
  <2>1. /\ pc[w] \in {"config", "secret", "post"}
        /\ UNCHANGED <<row, held, seen, lost, overruns>>
        /\ posts' = [posts EXCEPT ![Current(w)] = @ + 1]
    BY <1>3, ZenonT(40) DEF DeliverAcked, DeliverFailed
  <2>2. \E l \in Labels : l \in {"success", "retry"} /\ Goto(w, l)
    BY <1>3, ZenonT(40) DEF DeliverAcked, DeliverFailed, Labels
  <2> QED  BY <1>0, <2>1, <2>2, AttemptsGoto, ZenonT(40)
<1>4. ASSUME NEW w \in Workers, MarkSuccess(w) \/ MarkRetry(w) \/ MarkFails(w) PROVE Within(e)'
  BY <1>0, <1>4, AttemptsOutcome, ZenonT(40)
<1>5. ASSUME NEW i \in Instances, Crash(i) PROVE Within(e)'
  BY <1>0, <1>5, AttemptsCrash, ZenonT(40)
<1>6. ASSUME \/ \E w \in Workers : ClaimLost(w)
             \/ \E f \in Events : Settle(f) \/ LeaseExpire(f) \/ LeaseOverrun(f)
             \/ Aside
      PROVE  Within(e)'
  BY <1>0, <1>6, AttemptsRow, ZenonT(40)
<1> QED
  BY <1>1, <1>2, <1>3, <1>4, <1>5, <1>6, ClaimSteps, AsideSteps, ZenonT(40)
  DEF Next, Handle, WorkerFault

\* No step changes a terminal status: claims skip it, and who writes an outcome holds the
\* event under its lease, so that it is PROCESSING.
LEMMA FinalStep ==
  ASSUME TypeOK, Working, Leased, [Next]_vars,
         NEW e \in Events \ Overrun, status[e] \in {"SUCCESS", "DEAD"}
  PROVE  status'[e] = status[e]
<1>1. ASSUME NEW w \in Workers, Claims(w) PROVE status'[e] = status[e]
  BY <1>1, ZenonT(40) DEF Claims, Claim, Due
<1>2. ASSUME NEW w \in Workers, MarkSuccess(w) \/ MarkRetry(w) PROVE status'[e] = status[e]
  <2>1. pc[w] # "idle"
    BY <1>2, ZenonT(40) DEF MarkSuccess, MarkRetry
  <2>2. Current(w) \in held[w] /\ Current(w) \in Events
    BY <2>1, CurrentIsHeld, ZenonT(40)
  <2>3. e # Current(w)
    BY <2>2, ZenonT(40) DEF Leased
  <2> QED  BY <1>2, <2>3, ZenonT(40) DEF MarkSuccess, MarkRetry, TypeOK
<1>3. ASSUME NEW w \in Workers, ClaimLost(w) PROVE status'[e] = status[e]
  BY <1>3, ZenonT(40) DEF ClaimLost, FirstDue, Due
<1>4. ASSUME NEW f \in Events, Settle(f) PROVE status'[e] = status[e]
  BY <1>4 DEF Settle, TypeOK
<1>5. ASSUME \/ \E w \in Workers : \/ GetWebhookConfig(w) \/ GetActiveSecret(w) \/ DeliverAcked(w)
                                  \/ DeliverFailed(w) \/ ReadFails(w) \/ MarkFails(w)
             \/ \E f \in Events : LeaseExpire(f) \/ LeaseOverrun(f)
             \/ \E i \in Instances : Crash(i)
             \/ Aside
      PROVE  status'[e] = status[e]
  BY <1>5, ZenonT(40)
  DEF GetWebhookConfig, GetActiveSecret, DeliverAcked, DeliverFailed, ReadFails, MarkFails,
              LeaseExpire, LeaseOverrun, Crash, Aside, row
<1> QED
  BY <1>1, <1>2, <1>3, <1>4, <1>5, ClaimSteps, AsideSteps, ZenonT(40) DEF Next, Handle, WorkerFault

-----------------------------------------------------------------------------
\* Every reachable state of the outbox and its workers.
THEOREM Invariance == Spec => []OutboxInv
<1>1. Init => OutboxInv
  <2> SUFFICES ASSUME Init PROVE OutboxInv
    BY ZenonT(40)
  <2> USE LimitAssumption DEF Init
  <2>1. TypeOK
    <3>1. queue \in [Instances -> Seq(Events)]
      OBVIOUS
    <3> QED  BY <3>1 DEF TypeOK, Labels, On, Off
  <2>2. Working /\ Counted /\ Leased /\ OneHolder /\ Earned /\ SuccessIsEarned
    BY DEF Working, Counted, Leased, OneHolder, Earned, SuccessIsEarned
  <2>3. Attempts
    <3> SUFFICES ASSUME NEW e \in Events
                 PROVE  /\ posts[e] + Share(e) <= Allowed(e)
                        /\ posts[e] + Share(e) + Rest(e) <= Allowed(e)
      BY ZenonT(40) DEF Attempts, Within
    <3>1. \A w \in Workers : Budget(e)[w] = 0
      BY DEF Budget
    <3>2. Share(e) = 0
      BY <3>1, SumZero, WorkerAssumption, ZenonT(40) DEF Share
    <3>3. posts[e] = 0 /\ Rest(e) = MaxRetries /\ Allowed(e) = MaxRetries
      BY DEF Rest, Allowed
    <3> QED  BY <3>2, <3>3
  <2> QED  BY <2>1, <2>2, <2>3 DEF OutboxInv
<1>2. OutboxInv /\ [Next]_vars => OutboxInv'
  BY TypeStep, WorkingStep, CountedStep, LeasedStep, OneHolderStep, EarnedStep, SuccessStep,
     AttemptsStep
  DEF OutboxInv
<1> QED  BY <1>1, <1>2, PTL DEF Spec

\* Every column and local has its type; retry_count stays within WEBHOOK_MAX_RETRIES.
THEOREM TypeCorrect == Spec => []TypeOK
BY Invariance, PTL DEF OutboxInv

\* The claims of ClaimDueOutboxEvents and ClaimDueOutboxEventsByTxnNo exclude each other
\* for as long as a lease lasts, for any number of instances and goroutines.
THEOREM HoldersExclude == Spec => []OneHolder
BY Invariance, PTL DEF OutboxInv

\* The worker writes SUCCESS for no event that the merchant has not acknowledged, unless
\* the webhook was off, whatever crashes, is lost or runs late.
THEOREM DeliveryIsEarned == Spec => []SuccessIsEarned
BY Invariance, PTL DEF OutboxInv

\* markRetry: an event is posted at most WEBHOOK_MAX_RETRIES times, once more for every
\* attempt whose outcome was lost, and as often again for every lease that a goroutine
\* outlived, whose late MarkOutboxEventRetry may set the count back.
THEOREM AttemptsAreBounded == Spec => []GivesUp
<1>1. OutboxInv => GivesUp
  <2> SUFFICES ASSUME OutboxInv, NEW e \in Events
               PROVE  posts[e] <= MaxRetries * (1 + overruns[e]) + lost[e]
    BY ZenonT(40) DEF GivesUp
  <2>1. posts[e] \in Nat /\ Share(e) \in Nat /\ Allowed(e) \in Nat
    BY Numbers, ZenonT(40) DEF OutboxInv
  <2>2. posts[e] + Share(e) <= Allowed(e)
    BY ZenonT(40) DEF OutboxInv, Attempts, Within
  <2>3. posts[e] <= Allowed(e)
    BY <2>1, <2>2
  <2> QED  BY <2>3, ZenonT(40) DEF Allowed
<1> QED  BY <1>1, Invariance, PTL

\* MarkOutboxEventSuccess and MarkOutboxEventRetry overwrite the status whatever it is; yet
\* SUCCESS and DEAD stay, unless a goroutine has outlived the lease of the event.
THEOREM OutcomeIsFinal == Spec => TerminalIsFinal
<1>1. OutboxInv /\ [Next]_vars =>
        [\A e \in Events \ Overrun :
           status[e] \in {"SUCCESS", "DEAD"} => status'[e] = status[e]]_vars
  BY FinalStep DEF OutboxInv
<1> QED  BY <1>1, Invariance, PTL DEF Spec, TerminalIsFinal
=============================================================================
