---------------------------- MODULE AuditProofs ----------------------------
(***************************************************************************)
(* What Delivery keeps a record of: every POST in delivery_logs, and every *)
(* failed notification in delivery_dlq, when no fault happens and Insert   *)
(* returns the id; and that it implements DeadLetters, whatever happens.   *)
(* All are inductive given IInv of DeliveryProofs, which ties the id that  *)
(* a row is stored under to the payment posted.                            *)
(***************************************************************************)
EXTENDS DeliveryProofs

LEMMA FaultCounts ==
  ASSUME faults = 0, faults' = 0
  PROVE  ~Fault
<1>1. faults + 1 = 1
  OBVIOUS
<1> QED
  BY <1>1 DEF Fault

(* A fault is remembered.                                                  *)
LEMMA FaultsRemembered ==
  ASSUME IInv, [Next]_vars, faults' = 0
  PROVE  faults = 0
<1>1. faults \in Nat
  BY SettingsAssumption DEF IInv, TypeOK
<1> QED
  BY <1>1, FaultsGrow

(* No row leaves the queue.                                                *)
LEMMA RowsStay ==
  ASSUME IInv, [Next]_vars
  PROVE  QueueEvolves
<1>1. CASE delivery_dlq' = delivery_dlq
  BY <1>1 DEF QueueEvolves
<1>2. ASSUME NEW w \in Workers, EnqueueDLQ(w) PROVE QueueEvolves
  <2> DEFINE row == [transaction_id |-> job[w].transaction_id,
                     merchant_id |-> job[w].merchant_id, status |-> "FAILED"]
  <2>1. delivery_dlq' = delivery_dlq \/ delivery_dlq' = Append(delivery_dlq, row)
    BY <1>2 DEF EnqueueDLQ, InsertRow, Write
  <2>2. delivery_dlq \in Seq(DLQRow)
    BY DEF IInv, TypeOK
  <2> HIDE DEF row
  <2> QED
    BY <1>1, <2>1, <2>2 DEF QueueEvolves
<1>3. ASSUME NEW r \in Slots, MarkDLQRequeued(r) \/ ResolveDLQ(r) PROVE QueueEvolves
  <2>1. delivery_dlq \in Seq(DLQRow)
    BY DEF IInv, TypeOK
  <2>2. PICK s \in {"REQUEUED", "RESOLVED"} :
          \/ delivery_dlq' = delivery_dlq
          \/ delivery_dlq' = [delivery_dlq EXCEPT ![item[r].id].status = s]
    BY <1>3 DEF MarkDLQRequeued, ResolveDLQ, Write
  <2>3. ASSUME NEW i \in DOMAIN delivery_dlq
        PROVE  /\ i \in DOMAIN delivery_dlq'
               /\ delivery_dlq'[i].transaction_id = delivery_dlq[i].transaction_id
               /\ delivery_dlq'[i].merchant_id = delivery_dlq[i].merchant_id
    <3>1. delivery_dlq[i] \in DLQRow /\ DOMAIN delivery_dlq' = DOMAIN delivery_dlq
      BY <2>1, <2>2
    <3>2. CASE delivery_dlq'[i] = delivery_dlq[i]
      BY <3>1, <3>2
    <3>3. CASE delivery_dlq'[i] = [delivery_dlq[i] EXCEPT !.status = s]
      BY <3>1, <3>3 DEF DLQRow
    <3> QED
      BY <2>1, <2>2, <3>2, <3>3
  <2> QED
    BY <2>3 DEF QueueEvolves
<1> QED
  BY <1>1, <1>2, <1>3 DEF Next, Run, Launch, Begin, Post, LogAttempt, GetDLQ,
     LoadMerchant, LoadTransaction, Request, UpdateMerchantWebhookURL,
     SetMerchantActive, Crash, tables, vars

----------------------------------------------------------------------------
(* The dead letter queue.                                                  *)

(* EnqueueDLQ is the step that ends a failed notification.                 *)
LEMMA EnqueueStores ==
  ASSUME IInv, NEW t \in Payments, EnqueueDLQ(t), faults = 0, faults' = 0,
         "returning id" \in build
  PROVE  RowsOf(t)' # {}
<1> DEFINE row == [transaction_id |-> job[t].transaction_id,
                   merchant_id |-> job[t].merchant_id, status |-> "FAILED"]
<1>1. job[t] \in Job /\ job[t].payment = t /\ job[t].transaction_id = t
  BY DEF IInv, WorkerInv, NotificationInv, JobOK, EnqueueDLQ, Workers
<1>2. ReferencesHold(row) /\ row.transaction_id = t /\ row \in DLQRow
  BY <1>1 DEF ReferencesHold, Job, DLQRow
<1>3. InsertRow(delivery_dlq, row)
  BY DEF EnqueueDLQ
<1> HIDE DEF row
<1>4. delivery_dlq' = Append(delivery_dlq, row) /\ delivery_dlq \in Seq(DLQRow)
  <2>1. ~Fault
    BY FaultCounts
  <2> QED
    BY <1>2, <1>3, <2>1 DEF InsertRow, Write, IInv, TypeOK
<1>5. /\ Len(delivery_dlq) + 1 \in DOMAIN delivery_dlq'
      /\ delivery_dlq'[Len(delivery_dlq) + 1] = row
  <2>1. /\ DOMAIN Append(delivery_dlq, row) = DOMAIN delivery_dlq \union {Len(delivery_dlq) + 1}
        /\ Append(delivery_dlq, row)[Len(delivery_dlq) + 1] = row
    <3>1. delivery_dlq \in Seq(DLQRow) /\ row \in DLQRow
      BY <1>2, <1>4
    <3> QED
      BY ONLY <3>1, AppendRow
  <2> QED
    BY <1>4, <2>1
<1> QED
  BY <1>2, <1>5 DEF RowsOf

(* A notification that a step does not move.                               *)
LEMMA QuarantineKept ==
  ASSUME FailedIsQuarantinedOnceRepaired, QueueEvolves,
         NEW t \in Payments, build' = build, faults = 0, "returning id" \in build,
         pc'[t] = pc[t], job'[t] = job[t], delivered'[t] = delivered[t]
  PROVE  Failed(t)' => RowsOf(t)' # {}
<1>1. Failed(t)' => Failed(t)
  BY DEF Failed, Notifiable
<1>2. RowsOf(t) \subseteq RowsOf(t)'
  BY DEF RowsOf, QueueEvolves
<1> QED
  BY <1>1, <1>2 DEF FailedIsQuarantinedOnceRepaired, FailedIsQuarantined

LEMMA QuarantineNext ==
  IInv /\ FailedIsQuarantinedOnceRepaired /\ [Next]_vars
    => FailedIsQuarantinedOnceRepaired'
<1> SUFFICES ASSUME IInv, FailedIsQuarantinedOnceRepaired, [Next]_vars,
                    "returning id" \in build', faults' = 0,
                    NEW t \in Payments, Failed(t)'
             PROVE  RowsOf(t)' # {}
  BY DEF FailedIsQuarantinedOnceRepaired, FailedIsQuarantined
<1>1. QueueEvolves /\ faults = 0
  BY RowsStay, FaultsRemembered
<1>2. build' = build
  BY DEF Next, Run, Launch, Begin, Post, LogAttempt, EnqueueDLQ, GetDLQ,
     MarkDLQRequeued, LoadMerchant, LoadTransaction, ResolveDLQ, Request,
     UpdateMerchantWebhookURL, SetMerchantActive, Crash, vars
<1>3. CASE pc'[t] = pc[t] /\ job'[t] = job[t] /\ delivered'[t] = delivered[t]
  BY <1>1, <1>2, <1>3, QuarantineKept
<1>4. pc \in [Workers -> Steps] /\ t \in Workers /\ t \notin Slots
  BY PaymentsAssumption DEF IInv, TypeOK, Workers
<1>5. ASSUME NEW u \in Payments, NEW url \in Urls, Launch(u, url)
      PROVE  RowsOf(t)' # {}
  <2>1. job \in [Workers -> Job \union {NoJob}]
    BY DEF IInv, TypeOK
  <2>2. CASE u = t
    BY <1>4, <1>5, <2>2 DEF Launch, Goto, Failed
  <2>3. CASE u # t
    BY <1>3, <1>4, <1>5, <2>1, <2>3 DEF Launch, Goto
  <2> QED
    BY <2>2, <2>3
<1>6. ASSUME NEW w \in Workers, w # t, Run(w)
      PROVE  RowsOf(t)' # {}
  <2>1. /\ job \in [Workers -> Job \union {NoJob}] /\ delivered \in [Workers -> BOOLEAN]
    BY DEF IInv, TypeOK
  <2>2. pc'[t] = pc[t] /\ job'[t] = job[t] /\ delivered'[t] = delivered[t]
    <3>1. CASE Begin(w)
      BY <1>4, <1>6, <2>1, <3>1 DEF Begin, Goto, Return, Free
    <3>2. CASE Post(w) \/ LogAttempt(w) \/ EnqueueDLQ(w)
      BY <1>4, <1>6, <2>1, <3>2 DEF Post, LogAttempt, NextAttempt, EnqueueDLQ, Goto,
         Return, Free
    <3>3. CASE w \in Slots /\ (\/ GetDLQ(w) \/ MarkDLQRequeued(w) \/ LoadMerchant(w)
                               \/ LoadTransaction(w) \/ ResolveDLQ(w))
      BY <1>4, <1>6, <2>1, <3>3 DEF GetDLQ, MarkDLQRequeued, LoadMerchant,
         LoadTransaction, ResolveDLQ, Goto, Free
    <3> QED
      BY <1>6, <3>1, <3>2, <3>3 DEF Run
  <2> QED
    BY <1>3, <2>2
<1>7. CASE Run(t)
  <2>1. CASE Begin(t)
    BY <1>4, <2>1 DEF Begin, Goto, Return, Failed, Notifiable
  <2>2. CASE Post(t)
    BY <1>4, <2>2 DEF Post, Goto, Failed
  <2>3. CASE LogAttempt(t)
    BY <1>4, <2>3 DEF LogAttempt, NextAttempt, Goto, Failed
  <2>4. CASE EnqueueDLQ(t)
    BY <1>1, <1>2, <2>4, EnqueueStores
  <2> QED
    BY <1>4, <1>7, <2>1, <2>2, <2>3, <2>4 DEF Run
<1>8. CASE \/ \E r \in Slots, m \in Merchants, id \in 1..(Len(delivery_dlq) + 1) :
                Request(r, m, id)
           \/ \E m \in Merchants, url \in Urls : UpdateMerchantWebhookURL(m, url)
           \/ \E m \in Merchants, a \in BOOLEAN : SetMerchantActive(m, a)
           \/ UNCHANGED vars
  BY <1>3, <1>4, <1>8 DEF Request, Goto, UpdateMerchantWebhookURL,
     SetMerchantActive, vars
<1>9. ~Crash
  <2>1. ~Fault
    BY <1>1, FaultCounts
  <2> QED
    BY <2>1 DEF Crash
<1> QED
  BY <1>5, <1>6, <1>7, <1>8, <1>9 DEF Next

(* README.md:71, "permanently failed deliveries quarantined", once Insert  *)
(* returns the id and while nothing else fails: EnqueueDLQ runs after the  *)
(* third attempt, whatever retries and merchants do meanwhile.             *)
THEOREM QuarantinedOnceRepaired == Spec => []FailedIsQuarantinedOnceRepaired
<1>1. Init => FailedIsQuarantinedOnceRepaired
  BY DEF Init, FailedIsQuarantinedOnceRepaired, FailedIsQuarantined, Failed, Workers
<1> QED
  BY <1>1, QuarantineNext, Invariance, PTL DEF Spec

----------------------------------------------------------------------------
(* The audit of the attempts.                                              *)

LogsOf(t) == {i \in DOMAIN delivery_logs : delivery_logs[i].transaction_id = t}

(* The workers whose POST is not logged yet.                               *)
Logging(t) == {w \in Workers : pc[w] = "log" /\ job[w].payment = t}

Balanced(t) == posts[t] = Cardinality(LogsOf(t)) + Cardinality(Logging(t))

LEMMA AuditedSets ==
  ASSUME IInv, NEW t \in Payments
  PROVE  /\ IsFiniteSet(LogsOf(t)) /\ IsFiniteSet(Logging(t))
         /\ Cardinality(LogsOf(t)) \in Nat /\ Cardinality(Logging(t)) \in Nat
<1>1. DOMAIN delivery_logs = 1..Len(delivery_logs) /\ Len(delivery_logs) \in Nat
  BY DEF IInv, TypeOK
<1>2. LogsOf(t) \subseteq 1..Len(delivery_logs) /\ IsFiniteSet(1..Len(delivery_logs))
  BY <1>1, FS_Interval DEF LogsOf
<1>3. Logging(t) \subseteq Slots \union {t}
  BY DEF Logging, IInv, WorkerInv, NotificationInv, Workers
<1>4. IsFiniteSet(Slots \union {t})
  BY PaymentsAssumption, FS_AddElement
<1> QED
  BY <1>2, <1>3, <1>4, FS_Subset, FS_CardinalityType

(* A POST is one more, and one more to log.                                *)
LEMMA PostBalanced ==
  ASSUME IInv, NEW w \in Workers, Post(w), NEW t \in Payments, Balanced(t)
  PROVE  Balanced(t)'
<1>1. /\ pc[w] = "post" /\ pc' = [pc EXCEPT ![w] = "log"] /\ job' = job
      /\ delivery_logs' = delivery_logs
      /\ posts' = [posts EXCEPT ![job[w].payment] = @ + 1]
  BY DEF Post, Goto, tables
<1>2. pc \in [Workers -> Steps] /\ posts \in [Payments -> Nat]
  BY DEF IInv, TypeOK
<1>3. LogsOf(t)' = LogsOf(t)
  BY <1>1 DEF LogsOf
<1>4. CASE job[w].payment = t
  <2>1. Logging(t)' = Logging(t) \union {w} /\ w \notin Logging(t)
    BY <1>1, <1>2, <1>4 DEF Logging
  <2>2. Cardinality(Logging(t)') = Cardinality(Logging(t)) + 1
    BY <2>1, AuditedSets, FS_AddElement
  <2>3. posts'[t] = posts[t] + 1
    BY <1>1, <1>2, <1>4
  <2> QED
    BY <1>2, <1>3, <2>2, <2>3, AuditedSets DEF Balanced
<1>5. CASE job[w].payment # t
  <2>1. Logging(t)' = Logging(t)
    BY <1>1, <1>2, <1>5 DEF Logging
  <2>2. posts'[t] = posts[t]
    BY <1>1, <1>2, <1>5
  <2> QED
    BY <1>3, <2>1, <2>2 DEF Balanced
<1> QED
  BY <1>4, <1>5

(* Its row is written under the payment's id.                              *)
LEMMA LogBalanced ==
  ASSUME IInv, NEW w \in Workers, LogAttempt(w), faults = 0, faults' = 0,
         {"returning id", "log merchant"} \subseteq build,
         NEW t \in Payments, Balanced(t)
  PROVE  Balanced(t)'
<1> DEFINE p == job[w].payment
           row == [transaction_id |-> job[w].transaction_id,
                   merchant_id |-> IF "log merchant" \in build
                                     THEN job[w].merchant_id ELSE 0,
                   attempt |-> attempt[w], status |-> LogStatus(w)]
           n == Len(delivery_logs) + 1
<1>1. pc[w] = "log" /\ posts' = posts
  BY DEF LogAttempt
<1>2. /\ job[w] \in Job /\ job[w].transaction_id = p
  BY <1>1 DEF IInv, WorkerInv, NotificationInv, RetryInv, JobOK, Workers, Delivering
<1>3. row \in LogRow /\ ReferencesHold(row) /\ row.transaction_id = p
  <2>1. attempt[w] \in 0..2
    BY DEF IInv, TypeOK
  <2> QED
    BY <1>2, <2>1 DEF Job, LogRow, LogStatus, ReferencesHold
<1>4. InsertRow(delivery_logs, row)
  BY DEF LogAttempt, InsertDeliveryLog
<1> HIDE DEF row
<1>5. delivery_logs' = Append(delivery_logs, row)
  BY <1>3, <1>4, FaultCounts DEF InsertRow, Write
<1>6. /\ DOMAIN delivery_logs' = DOMAIN delivery_logs \union {n}
      /\ \A i \in DOMAIN delivery_logs : delivery_logs'[i] = delivery_logs[i]
      /\ delivery_logs'[n] = row /\ n \notin DOMAIN delivery_logs
  <2>1. delivery_logs \in Seq(LogRow)
    BY DEF IInv, TypeOK
  <2>2. /\ DOMAIN Append(delivery_logs, row) = DOMAIN delivery_logs \union {n}
        /\ \A i \in DOMAIN delivery_logs :
             Append(delivery_logs, row)[i] = delivery_logs[i]
        /\ Append(delivery_logs, row)[n] = row /\ n \notin DOMAIN delivery_logs
    <3>1. row \in LogRow
      BY <1>3
    <3> QED
      BY ONLY <2>1, <3>1, AppendRow
  <2> QED
    BY <1>5, <2>2
<1>7. job' = job /\ pc'[w] # "log" /\ \A v \in Workers \ {w} : pc'[v] = pc[v]
  <2>1. pc \in [Workers -> Steps]
    BY DEF IInv, TypeOK
  <2>2. CASE delivered[w]
    BY <2>2, ReturnType DEF LogAttempt
  <2>3. CASE ~delivered[w]
    BY <2>1, <2>3 DEF LogAttempt, NextAttempt, Goto
  <2> QED
    BY <2>2, <2>3
<1> HIDE DEF n, p
<1>8. CASE p = t
  <2>1. LogsOf(t)' = LogsOf(t) \union {n} /\ n \notin LogsOf(t)
    BY <1>3, <1>6, <1>8 DEF LogsOf
  <2>2. Cardinality(LogsOf(t)') = Cardinality(LogsOf(t)) + 1
    BY <2>1, AuditedSets, FS_AddElement
  <2>3. Logging(t)' = Logging(t) \ {w} /\ w \in Logging(t)
    BY <1>1, <1>7, <1>8 DEF Logging, p
  <2>4. Cardinality(Logging(t)') = Cardinality(Logging(t)) - 1
    BY <2>3, AuditedSets, FS_RemoveElement
  <2>5. Cardinality(LogsOf(t)') + Cardinality(Logging(t)')
          = Cardinality(LogsOf(t)) + Cardinality(Logging(t))
    <3>1. Cardinality(LogsOf(t)) \in Nat /\ Cardinality(Logging(t)) \in Nat
      BY AuditedSets
    <3> QED
      BY ONLY <2>2, <2>4, <3>1
  <2> QED
    BY <1>1, <2>5 DEF Balanced
<1>9. CASE p # t
  <2>1. LogsOf(t)' = LogsOf(t)
    BY <1>3, <1>6, <1>9 DEF LogsOf
  <2>2. Logging(t)' = Logging(t)
    BY <1>1, <1>7, <1>9 DEF Logging, p
  <2> QED
    BY <1>1, <2>1, <2>2 DEF Balanced
<1> QED
  BY <1>8, <1>9

(* A step at which no POST is made and none is logged.                     *)
LEMMA BalanceKept ==
  ASSUME NEW t \in Payments, Balanced(t), UNCHANGED <<posts, delivery_logs>>,
         \A w \in Workers : pc[w] = "log" \/ pc'[w] = "log" =>
           pc'[w] = pc[w] /\ job'[w] = job[w]
  PROVE  Balanced(t)'
<1>1. Logging(t)' = Logging(t)
  BY DEF Logging
<1>2. LogsOf(t)' = LogsOf(t)
  BY DEF LogsOf
<1> QED
  BY <1>1, <1>2 DEF Balanced

LEMMA AuditNext == IInv /\ AttemptsAudited /\ [Next]_vars => AttemptsAudited'
<1> SUFFICES ASSUME IInv, AttemptsAudited, [Next]_vars, faults' = 0,
                    {"returning id", "log merchant"} \subseteq build',
                    NEW t \in Payments
             PROVE  Balanced(t)'
  BY DEF AttemptsAudited, Balanced, LogsOf, Logging
<1>1. faults = 0
  BY FaultsRemembered
<1>2. build' = build
  BY DEF Next, Run, Launch, Begin, Post, LogAttempt, EnqueueDLQ, GetDLQ,
     MarkDLQRequeued, LoadMerchant, LoadTransaction, ResolveDLQ, Request,
     UpdateMerchantWebhookURL, SetMerchantActive, Crash, vars
<1>3. Balanced(t)
  BY <1>1, <1>2 DEF AttemptsAudited, Balanced, LogsOf, Logging
<1>4. /\ pc \in [Workers -> Steps] /\ job \in [Workers -> Job \union {NoJob}]
      /\ Slots \subseteq Workers /\ Payments \subseteq Workers
  BY DEF IInv, TypeOK, Workers
<1>5. ASSUME NEW u \in Payments, NEW url \in Urls, Launch(u, url) PROVE Balanced(t)'
  BY <1>3, <1>4, <1>5, BalanceKept DEF Launch, Goto, tables
<1>6. ASSUME NEW w \in Workers, Post(w) PROVE Balanced(t)'
  BY <1>3, <1>6, PostBalanced
<1>7. ASSUME NEW w \in Workers, LogAttempt(w) PROVE Balanced(t)'
  BY <1>1, <1>2, <1>3, <1>7, LogBalanced
<1>8. ASSUME NEW w \in Workers, Begin(w) PROVE Balanced(t)'
  BY <1>3, <1>4, <1>8, BalanceKept DEF Begin, Goto, Return, Free, tables
<1>9. ASSUME NEW w \in Workers, EnqueueDLQ(w) PROVE Balanced(t)'
  BY <1>3, <1>4, <1>9, BalanceKept DEF EnqueueDLQ, Goto, Return, Free
<1>10. ASSUME NEW r \in Slots,
              \/ GetDLQ(r) \/ MarkDLQRequeued(r) \/ LoadMerchant(r)
              \/ LoadTransaction(r) \/ ResolveDLQ(r)
       PROVE  Balanced(t)'
  BY <1>3, <1>4, <1>10, BalanceKept DEF GetDLQ, MarkDLQRequeued, LoadMerchant,
     LoadTransaction, ResolveDLQ, Goto, Free, tables
<1>11. CASE \/ \E r \in Slots, m \in Merchants, id \in 1..(Len(delivery_dlq) + 1) :
                 Request(r, m, id)
            \/ \E m \in Merchants, url \in Urls : UpdateMerchantWebhookURL(m, url)
            \/ \E m \in Merchants, a \in BOOLEAN : SetMerchantActive(m, a)
            \/ UNCHANGED vars
  BY <1>3, <1>4, <1>11, BalanceKept DEF Request, Goto, UpdateMerchantWebhookURL,
     SetMerchantActive, vars, tables
<1>12. ~Crash
  <2>1. ~Fault
    BY <1>1, FaultCounts
  <2> QED
    BY <2>1 DEF Crash
<1> QED
  BY <1>5, <1>6, <1>7, <1>8, <1>9, <1>10, <1>11, <1>12 DEF Next, Run

(* No attempt of notifier.go's loop is missing from delivery_logs or in it *)
(* twice, with the two foreign keys repaired and while nothing fails,      *)
(* however many retries of a payment run with its notification.            *)
THEOREM EveryAttemptAudited == Spec => []AttemptsAudited
<1>1. Init => AttemptsAudited
  <2> SUFFICES ASSUME Init, NEW t \in Payments PROVE Balanced(t)
    BY DEF AttemptsAudited, Balanced, LogsOf, Logging
  <2>1. LogsOf(t) = {} /\ Logging(t) = {} /\ posts[t] = 0
    BY DEF Init, LogsOf, Logging
  <2> QED
    BY <2>1, FS_EmptySet DEF Balanced
<1> QED
  BY <1>1, AuditNext, Invariance, PTL DEF Spec

----------------------------------------------------------------------------
(* Delivery implements DeadLetters.  A row of the queue is paid for: it    *)
(* has cost three POSTs, and so has each worker about to add one; workers  *)
(* on their way to it have made as many as their attempt says.             *)

(* The workers that have made k POSTs for t towards the row they may add.  *)
Spent(t, k) ==
  {w \in Workers :
     /\ \/ pc[w] = "post" /\ attempt[w] >= k
        \/ pc[w] = "log" /\ attempt[w] + 1 >= k
        \/ pc[w] = "enqueue"
     /\ job[w].payment = t}

Paid(t) ==
  3 * Cardinality(RowsOf(t)) + Cardinality(Spent(t, 1)) + Cardinality(Spent(t, 2))
    + Cardinality(Spent(t, 3)) <= posts[t]

PaidInv == \A t \in Payments : Paid(t)

LEMMA SpentSets ==
  ASSUME IInv, NEW t \in Payments
  PROVE  /\ \A k \in 1..3 :
              IsFiniteSet(Spent(t, k)) /\ Cardinality(Spent(t, k)) \in Nat
         /\ IsFiniteSet(RowsOf(t)) /\ Cardinality(RowsOf(t)) \in Nat
         /\ posts[t] \in Nat
<1>1. DOMAIN delivery_dlq = 1..Len(delivery_dlq) /\ Len(delivery_dlq) \in Nat
  BY DEF IInv, TypeOK
<1>2. RowsOf(t) \subseteq 1..Len(delivery_dlq) /\ IsFiniteSet(1..Len(delivery_dlq))
  BY <1>1, FS_Interval DEF RowsOf
<1>3. \A k \in 1..3 : Spent(t, k) \subseteq Slots \union {t}
  BY DEF Spent, IInv, WorkerInv, NotificationInv, Workers
<1>4. IsFiniteSet(Slots \union {t})
  BY PaymentsAssumption, FS_AddElement
<1>5. posts[t] \in Nat
  BY DEF IInv, TypeOK
<1> QED
  BY <1>2, <1>3, <1>4, <1>5, FS_Subset, FS_CardinalityType

(* A step that spends nothing on t, though it may give up what was spent.  *)
LEMMA PaidKept ==
  ASSUME IInv, NEW t \in Payments, Paid(t), posts'[t] = posts[t],
         RowsOf(t)' = RowsOf(t), \A k \in 1..3 : Spent(t, k)' \subseteq Spent(t, k)
  PROVE  Paid(t)'
<1>1. ASSUME NEW k \in 1..3
      PROVE  /\ Cardinality(Spent(t, k)') <= Cardinality(Spent(t, k))
             /\ Cardinality(Spent(t, k)') \in Nat
  <2>1. Spent(t, k)' \subseteq Spent(t, k) /\ IsFiniteSet(Spent(t, k))
    BY SpentSets
  <2> QED
    BY <2>1, FS_Subset, FS_CardinalityType
<1>2. /\ Cardinality(Spent(t, 1)') <= Cardinality(Spent(t, 1))
      /\ Cardinality(Spent(t, 2)') <= Cardinality(Spent(t, 2))
      /\ Cardinality(Spent(t, 3)') <= Cardinality(Spent(t, 3))
      /\ Cardinality(Spent(t, 1)') \in Nat /\ Cardinality(Spent(t, 2)') \in Nat
      /\ Cardinality(Spent(t, 3)') \in Nat
  BY <1>1
<1>3. /\ Cardinality(Spent(t, 1)) \in Nat /\ Cardinality(Spent(t, 2)) \in Nat
      /\ Cardinality(Spent(t, 3)) \in Nat /\ Cardinality(RowsOf(t)) \in Nat
      /\ posts[t] \in Nat
  BY SpentSets
<1> QED
  BY <1>2, <1>3 DEF Paid

(* A worker that a step starts, ends, or leaves where it was.              *)
LEMMA SpentKept ==
  ASSUME NEW t \in Payments, NEW w \in Workers, NEW k \in 1..3,
         \A v \in Workers \ {w} :
           pc'[v] = pc[v] /\ job'[v] = job[v] /\ attempt'[v] = attempt[v],
         \/ pc'[w] \notin {"post", "log", "enqueue"}
         \/ pc'[w] = "post" /\ attempt'[w] = 0
  PROVE  Spent(t, k)' \subseteq Spent(t, k)
<1> SUFFICES ASSUME NEW v \in Workers, v \in Spent(t, k)' PROVE v \in Spent(t, k)
  BY DEF Spent
<1>1. v # w
  BY DEF Spent
<1> QED
  BY <1>1 DEF Spent

(* The row that EnqueueDLQ may add is one of the payment it has posted.    *)
Letter(t) == [transaction_id |-> t, merchant_id |-> Owner[t], status |-> "FAILED"]

LEMMA EnqueueRow ==
  ASSUME IInv, NEW w \in Workers, EnqueueDLQ(w)
  PROVE  /\ job[w].payment \in Payments /\ Letter(job[w].payment) \in DLQRow
         /\ \/ delivery_dlq' = delivery_dlq
            \/ delivery_dlq' = Append(delivery_dlq, Letter(job[w].payment))
<1> DEFINE row == [transaction_id |-> job[w].transaction_id,
                   merchant_id |-> job[w].merchant_id, status |-> "FAILED"]
<1>1. /\ job[w] \in Job /\ job[w].merchant_id = Owner[job[w].payment]
      /\ job[w].transaction_id \in {job[w].payment, NoId}
  <2>1. JobOK(w)
    BY DEF EnqueueDLQ, IInv, WorkerInv, NotificationInv, RetryInv, Workers, Delivering
  <2> QED
    BY <2>1, Zenon DEF JobOK
<1>2. job[w].payment \in Payments /\ Letter(job[w].payment) \in DLQRow
  BY <1>1 DEF Job, Letter, DLQRow
<1>3. ReferencesHold(row) => row = Letter(job[w].payment)
  BY <1>1, PaymentsAssumption DEF ReferencesHold, Letter
<1>4. delivery_dlq' = delivery_dlq \/ (ReferencesHold(row) /\ delivery_dlq' = Append(delivery_dlq, row))
  BY DEF EnqueueDLQ, InsertRow, Write
<1> HIDE DEF row
<1> QED
  BY <1>2, <1>3, <1>4

(* A POST is one more, and worth one more to the worker that has made it.  *)
LEMMA PostPaid ==
  ASSUME IInv, NEW w \in Workers, Post(w), NEW t \in Payments, Paid(t)
  PROVE  Paid(t)'
<1> DEFINE a == attempt[w]
<1>1. /\ pc[w] = "post" /\ pc' = [pc EXCEPT ![w] = "log"] /\ job' = job
      /\ attempt' = attempt /\ delivery_dlq' = delivery_dlq
      /\ posts' = [posts EXCEPT ![job[w].payment] = @ + 1]
  BY DEF Post, Goto, tables
<1>2. /\ pc \in [Workers -> Steps] /\ posts \in [Payments -> Nat] /\ a \in 0..2
  BY DEF IInv, TypeOK
<1>3. /\ pc'[w] = "log" /\ attempt'[w] = a
      /\ \A v \in Workers \ {w} :
           pc'[v] = pc[v] /\ job'[v] = job[v] /\ attempt'[v] = attempt[v]
  BY <1>1, <1>2
<1>4. RowsOf(t)' = RowsOf(t)
  BY <1>1 DEF RowsOf
<1>5. ASSUME NEW k \in 1..3, job[w].payment = t => k # a + 1
      PROVE  Spent(t, k)' \subseteq Spent(t, k)
  <2> SUFFICES ASSUME NEW v \in Workers, v \in Spent(t, k)' PROVE v \in Spent(t, k)
    BY DEF Spent
  <2>1. CASE v # w
    BY <1>3, <2>1 DEF Spent
  <2>2. CASE v = w
    <3>1. job[w].payment = t /\ a + 1 >= k
      BY <1>1, <1>3, <2>2 DEF Spent
    <3>2. a >= k
      BY <1>2, <1>5, <3>1
    <3> QED
      BY <1>1, <2>2, <3>1, <3>2 DEF Spent
  <2> QED
    BY <2>1, <2>2
<1>6. CASE job[w].payment # t
  <2>1. posts'[t] = posts[t]
    BY <1>1, <1>2, <1>6
  <2> QED
    BY <1>4, <1>5, <1>6, <2>1, PaidKept
<1>7. CASE job[w].payment = t
  <2>1. posts'[t] = posts[t] + 1
    BY <1>1, <1>2, <1>7
  <2>3. ASSUME NEW k \in 1..3
        PROVE  /\ Cardinality(Spent(t, k)') \in Nat
               /\ Cardinality(Spent(t, k)') <= Cardinality(Spent(t, k)) + 1
               /\ k # a + 1 => Cardinality(Spent(t, k)') <= Cardinality(Spent(t, k))
    <3>1. IsFiniteSet(Spent(t, k)) /\ Cardinality(Spent(t, k)) \in Nat
      BY SpentSets
    <3>2. CASE k # a + 1
      <4>1. Spent(t, k)' \subseteq Spent(t, k)
        BY <1>5, <3>2
      <4> QED
        BY <3>1, <4>1, FS_Subset, FS_CardinalityType
    <3>3. CASE k = a + 1
      <4>1. ASSUME NEW v \in Spent(t, k)', v # w PROVE v \in Spent(t, k)
        <5>1. v \in Workers
          BY DEF Spent
        <5> QED
          BY <1>3, <4>1, <5>1 DEF Spent
      <4>2. /\ IsFiniteSet(Spent(t, k) \union {w})
            /\ Cardinality(Spent(t, k) \union {w})
                 \in {Cardinality(Spent(t, k)), Cardinality(Spent(t, k)) + 1}
        BY <3>1, FS_AddElement, Zenon
      <4>3. /\ Cardinality(Spent(t, k)') <= Cardinality(Spent(t, k) \union {w})
            /\ Cardinality(Spent(t, k)') \in Nat
        <5>1. Spent(t, k)' \subseteq Spent(t, k) \union {w}
          BY <4>1
        <5> QED
          BY <4>2, <5>1, FS_Subset, FS_CardinalityType
      <4>4. Cardinality(Spent(t, k) \union {w}) \in Nat
        BY <4>2, FS_CardinalityType
      <4> QED
        BY ONLY <3>1, <3>3, <4>2, <4>3, <4>4
    <3> QED
      BY <3>2, <3>3
  <2>4. /\ Cardinality(Spent(t, 1)) \in Nat /\ Cardinality(Spent(t, 2)) \in Nat
        /\ Cardinality(Spent(t, 3)) \in Nat /\ Cardinality(RowsOf(t)) \in Nat
    BY SpentSets
  <2>5. Cardinality(Spent(t, 1)') + Cardinality(Spent(t, 2)') + Cardinality(Spent(t, 3)')
          <= Cardinality(Spent(t, 1)) + Cardinality(Spent(t, 2))
             + Cardinality(Spent(t, 3)) + 1
    <3> HIDE DEF a
    <3>1. a + 1 = 1 \/ a + 1 = 2 \/ a + 1 = 3
      BY <1>2
    <3>2. /\ Cardinality(Spent(t, 1)') \in Nat /\ Cardinality(Spent(t, 2)') \in Nat
          /\ Cardinality(Spent(t, 3)') \in Nat
          /\ Cardinality(Spent(t, 1)') <= Cardinality(Spent(t, 1)) + 1
          /\ Cardinality(Spent(t, 2)') <= Cardinality(Spent(t, 2)) + 1
          /\ Cardinality(Spent(t, 3)') <= Cardinality(Spent(t, 3)) + 1
          /\ 1 # a + 1 => Cardinality(Spent(t, 1)') <= Cardinality(Spent(t, 1))
          /\ 2 # a + 1 => Cardinality(Spent(t, 2)') <= Cardinality(Spent(t, 2))
          /\ 3 # a + 1 => Cardinality(Spent(t, 3)') <= Cardinality(Spent(t, 3))
      BY <2>3
    <3> QED
      BY ONLY <1>2, <2>4, <3>1, <3>2
  <2>6. /\ Cardinality(Spent(t, 1)') \in Nat /\ Cardinality(Spent(t, 2)') \in Nat
        /\ Cardinality(Spent(t, 3)') \in Nat /\ posts[t] \in Nat
    BY <1>2, <2>3
  <2>7. 3 * Cardinality(RowsOf(t)) + Cardinality(Spent(t, 1)') + Cardinality(Spent(t, 2)')
          + Cardinality(Spent(t, 3)') <= posts[t] + 1
    <3>1. 3 * Cardinality(RowsOf(t)) + Cardinality(Spent(t, 1)) + Cardinality(Spent(t, 2))
            + Cardinality(Spent(t, 3)) <= posts[t]
      BY DEF Paid
    <3> QED
      BY ONLY <2>4, <2>5, <2>6, <3>1
  <2> QED
    BY <1>4, <2>1, <2>7 DEF Paid
<1> QED
  BY <1>6, <1>7

(* EnqueueDLQ gives up three POSTs of its worker, for a row at most.       *)
LEMMA EnqueuePaid ==
  ASSUME IInv, NEW w \in Workers, EnqueueDLQ(w), NEW t \in Payments, Paid(t)
  PROVE  /\ Paid(t)'
         /\ job[w].payment = t => 3 * (Cardinality(RowsOf(t)) + 1) <= posts[t]
<1> DEFINE n == Len(delivery_dlq) + 1
           row == Letter(job[w].payment)
<1>1. /\ pc[w] = "enqueue" /\ posts' = posts /\ attempt' = attempt
      /\ pc'[w] \notin {"post", "log", "enqueue"}
      /\ \A v \in Workers \ {w} : pc'[v] = pc[v] /\ job'[v] = job[v]
  BY ReturnType DEF EnqueueDLQ
<1>2. /\ row.transaction_id = job[w].payment
      /\ DOMAIN delivery_dlq' \subseteq DOMAIN delivery_dlq \union {n}
      /\ DOMAIN delivery_dlq \subseteq DOMAIN delivery_dlq'
      /\ \A i \in DOMAIN delivery_dlq : delivery_dlq'[i] = delivery_dlq[i]
      /\ n \in DOMAIN delivery_dlq' => delivery_dlq'[n] = row
      /\ n \notin DOMAIN delivery_dlq
  <2>1. delivery_dlq \in Seq(DLQRow) /\ row \in DLQRow
    BY EnqueueRow DEF IInv, TypeOK
  <2>2. /\ DOMAIN Append(delivery_dlq, row) = DOMAIN delivery_dlq \union {n}
        /\ \A i \in DOMAIN delivery_dlq : Append(delivery_dlq, row)[i] = delivery_dlq[i]
        /\ Append(delivery_dlq, row)[n] = row /\ n \notin DOMAIN delivery_dlq
    BY ONLY <2>1, AppendRow
  <2>3. row.transaction_id = job[w].payment
    BY DEF Letter
  <2>4. delivery_dlq' = delivery_dlq \/ delivery_dlq' = Append(delivery_dlq, row)
    BY EnqueueRow
  <2> HIDE DEF n, row
  <2> QED
    BY <2>2, <2>3, <2>4
<1> HIDE DEF n, row
<1>3. \A k \in 1..3 : Spent(t, k)' \subseteq Spent(t, k) \ {w}
  BY <1>1 DEF Spent
<1>4. CASE job[w].payment # t
  <2>1. RowsOf(t)' = RowsOf(t)
    BY <1>2, <1>4 DEF RowsOf
  <2> QED
    BY <1>1, <1>3, <1>4, <2>1, PaidKept
<1>5. CASE job[w].payment = t
  <2>1. ASSUME NEW k \in 1..3
        PROVE  /\ Cardinality(Spent(t, k)') \in Nat
               /\ Cardinality(Spent(t, k)') + 1 <= Cardinality(Spent(t, k))
    <3>1. w \in Spent(t, k)
      BY <1>1, <1>5 DEF Spent
    <3>2. IsFiniteSet(Spent(t, k)) /\ Cardinality(Spent(t, k)) \in Nat
      BY SpentSets
    <3>3. /\ IsFiniteSet(Spent(t, k) \ {w})
          /\ Cardinality(Spent(t, k) \ {w}) = Cardinality(Spent(t, k)) - 1
      BY <3>1, <3>2, FS_RemoveElement, Zenon
    <3>4. Spent(t, k)' \subseteq Spent(t, k) \ {w}
      BY <1>3
    <3>5. /\ Cardinality(Spent(t, k)') <= Cardinality(Spent(t, k) \ {w})
          /\ Cardinality(Spent(t, k)') \in Nat
      BY <3>3, <3>4, FS_Subset, FS_CardinalityType
    <3> QED
      BY ONLY <3>2, <3>3, <3>5
  <2>2. /\ Cardinality(RowsOf(t)') \in Nat
        /\ Cardinality(RowsOf(t)') <= Cardinality(RowsOf(t)) + 1
    <3>1. IsFiniteSet(RowsOf(t)) /\ Cardinality(RowsOf(t)) \in Nat
      BY SpentSets
    <3>2. /\ IsFiniteSet(RowsOf(t) \union {n})
          /\ Cardinality(RowsOf(t) \union {n})
               \in {Cardinality(RowsOf(t)), Cardinality(RowsOf(t)) + 1}
      BY <3>1, FS_AddElement, Zenon
    <3>3. RowsOf(t)' \subseteq RowsOf(t) \union {n}
      BY <1>2 DEF RowsOf
    <3>4. /\ Cardinality(RowsOf(t)') <= Cardinality(RowsOf(t) \union {n})
          /\ Cardinality(RowsOf(t)') \in Nat
      BY <3>2, <3>3, FS_Subset, FS_CardinalityType
    <3> QED
      BY ONLY <3>1, <3>2, <3>4
  <2>3. /\ Cardinality(Spent(t, 1)) \in Nat /\ Cardinality(Spent(t, 2)) \in Nat
        /\ Cardinality(Spent(t, 3)) \in Nat /\ Cardinality(RowsOf(t)) \in Nat
        /\ posts[t] \in Nat
    BY SpentSets
  <2>4. /\ Cardinality(Spent(t, 1)') \in Nat /\ Cardinality(Spent(t, 2)') \in Nat
        /\ Cardinality(Spent(t, 3)') \in Nat
        /\ Cardinality(Spent(t, 1)') + 1 <= Cardinality(Spent(t, 1))
        /\ Cardinality(Spent(t, 2)') + 1 <= Cardinality(Spent(t, 2))
        /\ Cardinality(Spent(t, 3)') + 1 <= Cardinality(Spent(t, 3))
    BY <2>1
  <2>5. 3 * Cardinality(RowsOf(t)) + Cardinality(Spent(t, 1)) + Cardinality(Spent(t, 2))
          + Cardinality(Spent(t, 3)) <= posts[t]
    BY DEF Paid
  <2>6. 3 * (Cardinality(RowsOf(t)) + 1) <= posts[t]
    BY ONLY <2>3, <2>4, <2>5
  <2>7. 3 * Cardinality(RowsOf(t)') + Cardinality(Spent(t, 1)') + Cardinality(Spent(t, 2)')
          + Cardinality(Spent(t, 3)') <= posts[t]
    BY ONLY <2>2, <2>3, <2>4, <2>5
  <2> QED
    BY <1>1, <2>6, <2>7 DEF Paid
<1> QED
  BY <1>4, <1>5

(* An attempt that failed is worth the same to its worker, whatever the    *)
(* worker does next.                                                       *)
LEMMA LogPaid ==
  ASSUME IInv, NEW w \in Workers, LogAttempt(w), NEW t \in Payments, Paid(t)
  PROVE  Paid(t)'
<1>1. /\ pc[w] = "log" /\ posts' = posts /\ delivery_dlq' = delivery_dlq
  BY DEF LogAttempt
<1>2. /\ pc \in [Workers -> Steps] /\ attempt \in [Workers -> 0..2]
  BY DEF IInv, TypeOK
<1>3. RowsOf(t)' = RowsOf(t)
  BY <1>1 DEF RowsOf
<1>4. ASSUME NEW k \in 1..3 PROVE Spent(t, k)' \subseteq Spent(t, k)
  <2>1. CASE delivered[w]
    <3>1. /\ \A v \in Workers \ {w} :
               pc'[v] = pc[v] /\ job'[v] = job[v] /\ attempt'[v] = attempt[v]
          /\ pc'[w] \notin {"post", "log", "enqueue"}
      BY <2>1, ReturnType DEF LogAttempt
    <3> QED
      BY <3>1, SpentKept
  <2>2. CASE ~delivered[w]
    <3>1. /\ job' = job
          /\ \A v \in Workers \ {w} : pc'[v] = pc[v] /\ attempt'[v] = attempt[v]
          /\ \/ attempt[w] < 2 /\ pc'[w] = "post" /\ attempt'[w] = attempt[w] + 1
             \/ attempt[w] = 2 /\ pc'[w] = "enqueue"
      BY <1>2, <2>2 DEF LogAttempt, NextAttempt, Goto
    <3> SUFFICES ASSUME NEW v \in Workers, v \in Spent(t, k)' PROVE v \in Spent(t, k)
      BY DEF Spent
    <3>2. CASE v # w
      BY <3>1, <3>2 DEF Spent
    <3>3. CASE v = w
      <4>1. job[w].payment = t /\ attempt[w] + 1 >= k
        BY <1>2, <3>1, <3>3 DEF Spent
      <4> QED
        BY <1>1, <3>3, <4>1 DEF Spent
    <3> QED
      BY <3>2, <3>3
  <2> QED
    BY <2>1, <2>2
<1> QED
  BY <1>1, <1>3, <1>4, PaidKept

LEMMA PaidRun ==
  ASSUME IInv, NEW w \in Workers, Run(w), NEW t \in Payments, Paid(t)
  PROVE  Paid(t)'
<1>1. CASE Post(w)
  BY <1>1, PostPaid
<1>2. CASE EnqueueDLQ(w)
  BY <1>2, EnqueuePaid
<1>3. CASE LogAttempt(w)
  BY <1>3, LogPaid
<1>4. CASE Begin(w)
  <2>1. /\ attempt' = [attempt EXCEPT ![w] = 0] /\ posts' = posts
        /\ delivery_dlq' = delivery_dlq
    BY <1>4 DEF Begin, tables
  <2>2. attempt \in [Workers -> 0..2]
    BY DEF IInv, TypeOK
  <2>3. \A v \in Workers \ {w} : pc'[v] = pc[v] /\ job'[v] = job[v]
    BY <1>4, RunMoves DEF Run
  <2>4. pc'[w] \notin {"log", "enqueue"}
    <3>1. CASE Goto(w, "post")
      BY <3>1, GotoType DEF Steps
    <3>2. CASE Return(w, FALSE)
      BY <3>2, ReturnType
    <3> QED
      BY <1>4, <3>1, <3>2 DEF Begin
  <2>5. \A k \in 1..3 : Spent(t, k)' \subseteq Spent(t, k)
    BY <2>1, <2>2, <2>3, <2>4, SpentKept
  <2> QED
    BY <2>1, <2>5, PaidKept DEF RowsOf
<1>5. CASE w \in Slots /\ (\/ GetDLQ(w) \/ MarkDLQRequeued(w) \/ LoadMerchant(w)
                           \/ LoadTransaction(w) \/ ResolveDLQ(w))
  <2>1. attempt' = attempt /\ posts' = posts
    BY <1>5 DEF GetDLQ, MarkDLQRequeued, LoadMerchant, LoadTransaction, ResolveDLQ
  <2>2. pc'[w] \notin {"post", "log", "enqueue"}
    <3>1. CASE Free(w)
      BY <1>5, <3>1, FreeType
    <3>2. CASE Goto(w, "requeue") \/ Goto(w, "merchant") \/ Goto(w, "transaction")
               \/ Goto(w, "notify")
      BY <3>2, GotoType DEF Steps
    <3> QED
      BY <1>5, <3>1, <3>2 DEF GetDLQ, MarkDLQRequeued, LoadMerchant, LoadTransaction,
         ResolveDLQ
  <2>3. \A v \in Workers \ {w} : pc'[v] = pc[v] /\ job'[v] = job[v]
    BY RunMoves
  <2>4. RowsOf(t)' = RowsOf(t)
    <3>1. CASE delivery_dlq' = delivery_dlq
      BY <3>1 DEF RowsOf
    <3>2. CASE MarkDLQRequeued(w) \/ ResolveDLQ(w)
      <4>1. delivery_dlq \in Seq(DLQRow)
        BY DEF IInv, TypeOK
      <4>2. PICK s \in {"REQUEUED", "RESOLVED"} :
              \/ delivery_dlq' = delivery_dlq
              \/ delivery_dlq' = [delivery_dlq EXCEPT ![item[w].id].status = s]
        BY <3>2 DEF MarkDLQRequeued, ResolveDLQ, Write
      <4>3. /\ DOMAIN delivery_dlq' = DOMAIN delivery_dlq
            /\ \A i \in DOMAIN delivery_dlq :
                 delivery_dlq'[i].transaction_id = delivery_dlq[i].transaction_id
        <5>1. DOMAIN delivery_dlq' = DOMAIN delivery_dlq
          BY <4>1, <4>2
        <5>2. QueueEvolves
          <6>1. [Next]_vars
            BY DEF Next
          <6> QED
            BY <6>1, RowsStay
        <5> QED
          BY <5>1, <5>2 DEF QueueEvolves
      <4> QED
        BY <4>3 DEF RowsOf
    <3>3. CASE GetDLQ(w) \/ LoadMerchant(w) \/ LoadTransaction(w)
      BY <3>1, <3>3 DEF GetDLQ, LoadMerchant, LoadTransaction, tables
    <3> QED
      BY <1>5, <3>2, <3>3
  <2>5. \A k \in 1..3 : Spent(t, k)' \subseteq Spent(t, k)
    BY <2>1, <2>2, <2>3, SpentKept
  <2> QED
    BY <2>1, <2>4, <2>5, PaidKept
<1> QED
  BY <1>1, <1>2, <1>3, <1>4, <1>5 DEF Run

LEMMA PaidLaunch ==
  ASSUME IInv, NEW u \in Payments, NEW url, Launch(u, url), PaidInv
  PROVE  PaidInv'
<1> SUFFICES ASSUME NEW t \in Payments PROVE Paid(t)'
  BY DEF PaidInv
<1> DEFINE j == [payment |-> u,
                 transaction_id |-> IF "returning id" \in build THEN u ELSE NoId,
                 merchant_id |-> Owner[u], webhook_url |-> url]
<1>1. /\ pc' = [pc EXCEPT ![u] = "notify"] /\ job' = [job EXCEPT ![u] = j]
      /\ attempt' = attempt /\ posts' = posts /\ delivery_dlq' = delivery_dlq
  BY Zenon DEF Launch, Goto, tables
<1> HIDE DEF j
<1>2. /\ pc \in [Workers -> Steps] /\ job \in [Workers -> Job \union {NoJob}]
      /\ u \in Workers
  BY DEF IInv, TypeOK, Workers
<1>3. /\ pc'[u] = "notify"
      /\ \A v \in Workers \ {u} : pc'[v] = pc[v] /\ job'[v] = job[v]
  BY <1>1, <1>2
<1>4. \A k \in 1..3 : Spent(t, k)' \subseteq Spent(t, k)
  BY <1>1, <1>2, <1>3, SpentKept
<1> QED
  BY <1>1, <1>4, PaidKept DEF PaidInv, RowsOf

LEMMA PaidRequest ==
  ASSUME IInv, NEW r \in Slots, NEW m, NEW id, Request(r, m, id), PaidInv
  PROVE  PaidInv'
<1> SUFFICES ASSUME NEW t \in Payments PROVE Paid(t)'
  BY DEF PaidInv
<1>1. /\ Goto(r, "get") /\ r \in Workers /\ attempt' = attempt /\ posts' = posts
      /\ delivery_dlq' = delivery_dlq /\ job' = job
  BY DEF Request, tables, Workers
<1>2. pc'[r] = "get" /\ \A v \in Workers \ {r} : pc'[v] = pc[v]
  BY <1>1, GotoType DEF Steps
<1>3. \A k \in 1..3 : Spent(t, k)' \subseteq Spent(t, k)
  BY <1>1, <1>2, SpentKept
<1> QED
  BY <1>1, <1>3, PaidKept DEF PaidInv, RowsOf

(* What a crash interrupts has been posted for nothing.                    *)
LEMMA PaidCrash ==
  ASSUME IInv, Crash, PaidInv
  PROVE  PaidInv'
<1> SUFFICES ASSUME NEW t \in Payments PROVE Paid(t)'
  BY DEF PaidInv
<1>1. /\ \A w \in Workers : pc'[w] \in {"idle", "done"}
      /\ posts' = posts /\ delivery_dlq' = delivery_dlq
  BY DEF Crash, tables
<1>2. \A k \in 1..3 : Spent(t, k)' \subseteq Spent(t, k)
  BY <1>1 DEF Spent
<1> QED
  BY <1>1, <1>2, PaidKept DEF PaidInv, RowsOf

LEMMA PaidUnmoved ==
  ASSUME PaidInv, UNCHANGED <<pc, job, attempt, posts, delivery_dlq>>
  PROVE  PaidInv'
BY DEF PaidInv, Paid, Spent, RowsOf

LEMMA PaidNext == IInv /\ PaidInv /\ [Next]_vars => PaidInv'
<1> SUFFICES ASSUME IInv, PaidInv, [Next]_vars PROVE PaidInv'
  OBVIOUS
<1>1. CASE \/ UNCHANGED vars
           \/ \E m \in Merchants, url \in Urls : UpdateMerchantWebhookURL(m, url)
           \/ \E m \in Merchants, a \in BOOLEAN : SetMerchantActive(m, a)
  <2>1. UNCHANGED <<pc, job, attempt, posts, delivery_dlq>>
    BY <1>1 DEF vars, tables, UpdateMerchantWebhookURL, SetMerchantActive
  <2> QED
    BY <2>1, PaidUnmoved
<1>2. ASSUME NEW t \in Payments, NEW url \in Urls, Launch(t, url) PROVE PaidInv'
  BY <1>2, PaidLaunch
<1>3. ASSUME NEW w \in Workers, Run(w) PROVE PaidInv'
  BY <1>3, PaidRun DEF PaidInv
<1>4. ASSUME NEW r \in Slots, NEW m \in Merchants, NEW id \in 1..(Len(delivery_dlq) + 1),
             Request(r, m, id)
      PROVE  PaidInv'
  BY <1>4, PaidRequest
<1>5. CASE Crash
  BY <1>5, PaidCrash
<1> QED
  BY <1>1, <1>2, <1>3, <1>4, <1>5 DEF Next

----------------------------------------------------------------------------
(* The steps of Delivery as steps of DeadLetters.                          *)

LEMMA PostTries ==
  ASSUME IInv, LaunchedInv, NEW w \in Workers, Post(w)
  PROVE  Letters!Next
<1> DEFINE t == job[w].payment
<1>1. /\ pc[w] = "post"
      /\ posts' = [posts EXCEPT ![t] = @ + 1] /\ delivery_dlq' = delivery_dlq
      /\ received' \in {received, received \union {<<t, job[w].merchant_id>>}}
  BY DEF Post, tables
<1>2. JobOK(w)
  BY <1>1 DEF IInv, WorkerInv, NotificationInv, RetryInv, Workers, Delivering
<1>3. job[w].merchant_id = Owner[t]
  BY <1>2, Zenon DEF JobOK
<1>4. t \in Successful
  BY <1>1 DEF LaunchedInv
<1> HIDE DEF t
<1>5. Letters!Try(t)
  BY <1>1, <1>3 DEF Letters!Try
<1> QED
  BY <1>4, <1>5 DEF Letters!Next

LEMMA EnqueueQuarantines ==
  ASSUME IInv, LaunchedInv, PaidInv, NEW w \in Workers, EnqueueDLQ(w)
  PROVE  Letters!Next \/ UNCHANGED Letters!deadLetters
<1> DEFINE t == job[w].payment
<1>1. pc[w] = "enqueue" /\ posts' = posts /\ received' = received
  BY DEF EnqueueDLQ
<1>2. t \in Payments /\ t \in Successful
  BY <1>1, EnqueueRow DEF LaunchedInv
<1>3. 3 * (Cardinality(RowsOf(t)) + 1) <= posts[t]
  BY <1>2, EnqueuePaid DEF PaidInv
<1>4. delivery_dlq' = delivery_dlq \/ delivery_dlq' = Append(delivery_dlq, Letter(t))
  BY EnqueueRow
<1> HIDE DEF t
<1>5. CASE delivery_dlq' = delivery_dlq
  BY <1>1, <1>5 DEF Letters!deadLetters
<1>6. CASE delivery_dlq' = Append(delivery_dlq, Letter(t))
  <2>1. Letters!Cardinality(Letters!LettersOf(t)) = Cardinality(RowsOf(t))
    BY Zenon DEF Letters!LettersOf, RowsOf, Letters!Cardinality, Cardinality
  <2>2. delivery_dlq' = Append(delivery_dlq,
          [transaction_id |-> t, merchant_id |-> Owner[t], status |-> "FAILED"])
    BY <1>6 DEF Letter
  <2>3. Letters!Quarantine(t)
    BY <1>1, <1>3, <2>1, <2>2 DEF Letters!Quarantine
  <2> QED
    BY <1>2, <2>3 DEF Letters!Next
<1> QED
  BY <1>4, <1>5, <1>6

LEMMA RequeueReopens ==
  ASSUME IInv, NEW r \in Slots, MarkDLQRequeued(r)
  PROVE  Letters!Next \/ UNCHANGED Letters!deadLetters
<1> DEFINE i == item[r].id
<1>1. pc[r] = "requeue" /\ posts' = posts /\ received' = received
  BY DEF MarkDLQRequeued
<1>2. i \in DOMAIN delivery_dlq
  BY <1>1 DEF IInv, WorkerInv, RetryInv, Workers
<1>3. \/ delivery_dlq' = delivery_dlq
      \/ delivery_dlq' = [delivery_dlq EXCEPT ![i].status = "REQUEUED"]
  BY DEF MarkDLQRequeued
<1> HIDE DEF i
<1>4. CASE delivery_dlq' = delivery_dlq
  BY <1>1, <1>4 DEF Letters!deadLetters
<1>5. CASE delivery_dlq' = [delivery_dlq EXCEPT ![i].status = "REQUEUED"]
  <2>1. Letters!Reopen(i)
    BY <1>1, <1>5 DEF Letters!Reopen, Letters!Mark
  <2> QED
    BY <1>2, <2>1 DEF Letters!Next
<1> QED
  BY <1>3, <1>4, <1>5

LEMMA ResolveResolves ==
  ASSUME IInv, NEW r \in Slots, ResolveDLQ(r)
  PROVE  Letters!Next \/ UNCHANGED Letters!deadLetters
<1> DEFINE i == item[r].id
<1>1. pc[r] = "resolve" /\ posts' = posts /\ received' = received
  BY DEF ResolveDLQ
<1>2. i \in DOMAIN delivery_dlq
  BY <1>1 DEF IInv, WorkerInv, RetryInv, Workers
<1>3. <<delivery_dlq[i].transaction_id, delivery_dlq[i].merchant_id>> \in received
  <2>1. JobOK(r) /\ job[r].payment = delivery_dlq[i].transaction_id
    BY <1>1 DEF IInv, WorkerInv, RetryInv, Workers, Delivering
  <2>2. job[r].merchant_id = Owner[job[r].payment]
    BY <2>1, Zenon DEF JobOK
  <2>3. <<job[r].payment, job[r].merchant_id>> \in received
    BY <1>1 DEF IInv, WorkerInv, AnswerInv, Workers
  <2>4. delivery_dlq[i].merchant_id = Owner[delivery_dlq[i].transaction_id]
    BY <1>2 DEF IInv, QueueInv
  <2> QED
    BY <2>1, <2>2, <2>3, <2>4
<1>4. \/ delivery_dlq' = delivery_dlq
      \/ delivery_dlq' = [delivery_dlq EXCEPT ![i].status = "RESOLVED"]
  BY DEF ResolveDLQ, Write
<1> HIDE DEF i
<1>5. CASE delivery_dlq' = delivery_dlq
  BY <1>1, <1>5 DEF Letters!deadLetters
<1>6. CASE delivery_dlq' = [delivery_dlq EXCEPT ![i].status = "RESOLVED"]
  <2>1. Letters!Resolve(i)
    BY <1>1, <1>3, <1>6 DEF Letters!Resolve, Letters!Mark
  <2> QED
    BY <1>2, <2>1 DEF Letters!Next
<1> QED
  BY <1>4, <1>5, <1>6

LEMMA LettersNext ==
  IInv /\ LaunchedInv /\ PaidInv /\ [Next]_vars => [Letters!Next]_(Letters!deadLetters)
<1> SUFFICES ASSUME IInv, LaunchedInv, PaidInv, [Next]_vars
             PROVE  Letters!Next \/ UNCHANGED Letters!deadLetters
  OBVIOUS
<1>1. ASSUME NEW w \in Workers, Run(w)
      PROVE  Letters!Next \/ UNCHANGED Letters!deadLetters
  <2>1. CASE Post(w)
    BY <2>1, PostTries
  <2>2. CASE EnqueueDLQ(w)
    BY <2>2, EnqueueQuarantines
  <2>3. CASE w \in Slots /\ MarkDLQRequeued(w)
    BY <2>3, RequeueReopens
  <2>4. CASE w \in Slots /\ ResolveDLQ(w)
    BY <2>4, ResolveResolves
  <2>5. CASE Begin(w) \/ LogAttempt(w) \/ GetDLQ(w) \/ LoadMerchant(w) \/ LoadTransaction(w)
    BY <2>5 DEF Letters!deadLetters, Begin, LogAttempt, GetDLQ, LoadMerchant, LoadTransaction,
       tables
  <2> QED
    BY <1>1, <2>1, <2>2, <2>3, <2>4, <2>5 DEF Run
<1>2. CASE \E t \in Payments, url \in Urls : Launch(t, url)
  <2>1. PICK t \in Payments, url \in Urls : Launch(t, url)
    BY <1>2
  <2> QED
    BY <2>1, Zenon DEF Letters!deadLetters, Launch, tables
<1>3. CASE \/ \E r \in Slots, m \in Merchants, id \in 1..(Len(delivery_dlq) + 1) :
                Request(r, m, id)
           \/ \E m \in Merchants, url \in Urls : UpdateMerchantWebhookURL(m, url)
           \/ \E m \in Merchants, a \in BOOLEAN : SetMerchantActive(m, a)
           \/ Crash \/ UNCHANGED vars
  BY <1>3 DEF Letters!deadLetters, Request, UpdateMerchantWebhookURL, SetMerchantActive, Crash,
     vars, tables
<1> QED
  BY <1>1, <1>2, <1>3 DEF Next

LEMMA LettersInit == Init => Letters!Init /\ LaunchedInv /\ PaidInv
<1> SUFFICES ASSUME Init PROVE Letters!Init /\ LaunchedInv /\ PaidInv
  OBVIOUS
<1>1. Letters!Init
  BY DEF Init, Letters!Init
<1>2. LaunchedInv
  BY DEF Init, LaunchedInv, Delivering
<1>3. ASSUME NEW t \in Payments PROVE Paid(t)
  <2>1. /\ RowsOf(t) = {} /\ posts[t] = 0
        /\ Spent(t, 1) = {} /\ Spent(t, 2) = {} /\ Spent(t, 3) = {}
    BY DEF Init, RowsOf, Spent
  <2> QED
    BY <2>1, FS_EmptySet DEF Paid
<1> QED
  BY <1>1, <1>2, <1>3 DEF PaidInv

(* README.md:54, three tries and then the queue, for any number of         *)
(* payments, merchants and concurrent retries, through failed statements   *)
(* and crashes and in every build: each dead letter has cost three POSTs   *)
(* that no other letter has cost, names the owner, and is RESOLVED by a    *)
(* POST that arrived only.                                                 *)
THEOREM ImplementsDeadLetters == Spec => RefinesDeadLetters
<1>1. IInv /\ LaunchedInv /\ [Next]_vars => LaunchedInv'
  BY LaunchedNext
<1>2. IInv /\ PaidInv /\ [Next]_vars => PaidInv'
  BY PaidNext
<1> QED
  BY <1>1, <1>2, LettersInit, LettersNext, Invariance, PTL
  DEF Spec, RefinesDeadLetters, Letters!Spec
=============================================================================
