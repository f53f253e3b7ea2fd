--------------------------- MODULE DeliveryProofs ---------------------------
(***************************************************************************)
(* Theorems about Delivery, for every value of its constants.              *)
(***************************************************************************)
EXTENDS Delivery, TLAPS, FiniteSetTheorems

----------------------------------------------------------------------------
(* The inductive invariant.  What a worker holds is tied to the payment it *)
(* delivers: a job to the payment's owner, a retry's item to the row of    *)
(* the queue that GetDLQ has found for the merchant that asks.             *)

Delivering == {"notify", "post", "log", "enqueue", "resolve"}

(* What NotifyMerchant is handed.                                          *)
JobOK(w) ==
  /\ job[w] \in Job
  /\ job[w].merchant_id = Owner[job[w].payment]
  /\ job[w].transaction_id \in {job[w].payment, NoId}
  /\ "returning id" \in build => job[w].transaction_id = job[w].payment

NotificationInv(t) ==
  /\ pc[t] \in {"idle", "notify", "post", "log", "enqueue", "done"}
  /\ pc[t] # "idle" => JobOK(t) /\ job[t].payment = t

RetryInv(r) ==
  /\ pc[r] # "done"
  /\ pc[r] # "idle" => item[r] \in [id : Nat, merchant_id : Merchants]
  /\ pc[r] \notin {"idle", "get"} =>
       /\ item[r].id \in DOMAIN delivery_dlq
       /\ delivery_dlq[item[r].id].merchant_id = item[r].merchant_id
  /\ pc[r] \in Delivering \union {"transaction"} =>
       JobOK(r) /\ job[r].payment = delivery_dlq[item[r].id].transaction_id

(* A worker that takes the payment for delivered has seen a 2xx.           *)
AnswerInv(w) ==
  pc[w] = "resolve" \/ (pc[w] = "log" /\ delivered[w]) =>
    <<job[w].payment, job[w].merchant_id>> \in received

WorkerInv(w) ==
  /\ w \in Payments => NotificationInv(w)
  /\ w \in Slots => RetryInv(w)
  /\ AnswerInv(w)

QueueInv ==
  \A i \in DOMAIN delivery_dlq :
    delivery_dlq[i].merchant_id = Owner[delivery_dlq[i].transaction_id]

IInv ==
  /\ TypeOK
  /\ \A w \in Workers : WorkerInv(w)
  /\ QueueInv
  /\ ResolvedWasReceived
  /\ DeliveredToOwner

----------------------------------------------------------------------------
(* The queue: rows are added, and change their status only.                *)

QueueEvolves ==
  /\ DOMAIN delivery_dlq \subseteq DOMAIN delivery_dlq'
  /\ \A i \in DOMAIN delivery_dlq :
       /\ delivery_dlq'[i].transaction_id = delivery_dlq[i].transaction_id
       /\ delivery_dlq'[i].merchant_id = delivery_dlq[i].merchant_id

(* INSERT adds a row behind those there are.                               *)
LEMMA AppendRow ==
  ASSUME NEW S, NEW s \in Seq(S), NEW e \in S
  PROVE  /\ Append(s, e) \in Seq(S)
         /\ DOMAIN Append(s, e) = DOMAIN s \union {Len(s) + 1}
         /\ \A i \in DOMAIN s : Append(s, e)[i] = s[i]
         /\ Append(s, e)[Len(s) + 1] = e
         /\ Len(s) + 1 \notin DOMAIN s
  OBVIOUS

(* EnqueueDLQ's row.                                                       *)
LEMMA QueueAppend ==
  ASSUME IInv, NEW row \in DLQRow,
         row.status = "FAILED", row.merchant_id = Owner[row.transaction_id],
         delivery_dlq' = Append(delivery_dlq, row), received \subseteq received'
  PROVE  /\ delivery_dlq' \in Seq(DLQRow)
         /\ QueueEvolves /\ QueueInv' /\ ResolvedWasReceived'
<1>1. delivery_dlq \in Seq(DLQRow)
  BY DEF IInv, TypeOK
<1>2. /\ delivery_dlq' \in Seq(DLQRow)
      /\ DOMAIN delivery_dlq' = DOMAIN delivery_dlq \union {Len(delivery_dlq) + 1}
      /\ \A i \in DOMAIN delivery_dlq : delivery_dlq'[i] = delivery_dlq[i]
      /\ delivery_dlq'[Len(delivery_dlq) + 1] = row
  BY <1>1, AppendRow
<1> QED
  BY <1>2 DEF IInv, QueueEvolves, QueueInv, ResolvedWasReceived

(* An UPDATE of a row's status.                                            *)
LEMMA QueueUpdate ==
  ASSUME IInv, NEW i \in DOMAIN delivery_dlq,
         NEW s \in {"FAILED", "REQUEUED", "RESOLVED"},
         s = "RESOLVED" =>
           <<delivery_dlq[i].transaction_id, delivery_dlq[i].merchant_id>> \in received,
         delivery_dlq' = [delivery_dlq EXCEPT ![i].status = s],
         received \subseteq received'
  PROVE  /\ delivery_dlq' \in Seq(DLQRow)
         /\ QueueEvolves /\ QueueInv' /\ ResolvedWasReceived'
<1>1. delivery_dlq \in Seq(DLQRow)
  BY DEF IInv, TypeOK
<1>2. delivery_dlq[i] \in DLQRow
  BY <1>1
<1> DEFINE row == [delivery_dlq[i] EXCEPT !.status = s]
<1>3. /\ row \in DLQRow /\ row.status = s
      /\ row.transaction_id = delivery_dlq[i].transaction_id
      /\ row.merchant_id = delivery_dlq[i].merchant_id
  BY <1>2 DEF DLQRow
<1>4. delivery_dlq' = [delivery_dlq EXCEPT ![i] = row]
  OBVIOUS
<1> HIDE DEF row
<1>5. /\ delivery_dlq' \in Seq(DLQRow)
      /\ DOMAIN delivery_dlq' = DOMAIN delivery_dlq
      /\ delivery_dlq'[i] = row
      /\ \A j \in DOMAIN delivery_dlq \ {i} : delivery_dlq'[j] = delivery_dlq[j]
  BY <1>1, <1>3, <1>4
<1> QED
  BY <1>3, <1>5 DEF IInv, QueueEvolves, QueueInv, ResolvedWasReceived

(* A step that leaves the queue alone.                                     *)
LEMMA QueueKept ==
  ASSUME IInv, delivery_dlq' = delivery_dlq, received \subseteq received'
  PROVE  /\ delivery_dlq' \in Seq(DLQRow)
         /\ QueueEvolves /\ QueueInv' /\ ResolvedWasReceived'
BY DEF IInv, TypeOK, QueueEvolves, QueueInv, ResolvedWasReceived

----------------------------------------------------------------------------
(* The steps.                                                              *)

(* A worker that a step does not move keeps its part of the invariant.     *)
LEMMA WorkerKept ==
  ASSUME IInv, QueueEvolves, received \subseteq received', build' = build,
         NEW v \in Workers, WorkerInv(v),
         pc'[v] = pc[v], job'[v] = job[v], delivered'[v] = delivered[v],
         v \in Slots => item'[v] = item[v]
  PROVE  WorkerInv(v)'
<1>1. CASE v \in Payments
  BY <1>1, PaymentsAssumption
  DEF WorkerInv, NotificationInv, AnswerInv, JobOK
<1>2. CASE v \in Slots
  BY <1>2, PaymentsAssumption
  DEF WorkerInv, RetryInv, AnswerInv, JobOK, QueueEvolves, Delivering
<1> QED
  BY <1>1, <1>2 DEF Workers

LEMMA InitIInv == Init => IInv
<1> SUFFICES ASSUME Init PROVE IInv
  OBVIOUS
<1>1. TypeOK
  BY SettingsAssumption DEF Init, TypeOK, Steps
<1>2. ASSUME NEW w \in Workers PROVE WorkerInv(w)
  BY DEF Init, WorkerInv, NotificationInv, RetryInv, AnswerInv, Delivering
<1> QED
  BY <1>1, <1>2 DEF Init, IInv, QueueInv, ResolvedWasReceived, DeliveredToOwner
(* Launch, and the steps of NotifyMerchant.                                *)
LEMMA LaunchIInv ==
  ASSUME IInv, NEW t \in Payments, NEW url \in Urls, Launch(t, url)
  PROVE  IInv'
<1>1. /\ QueueEvolves /\ QueueInv' /\ ResolvedWasReceived'
  BY QueueKept DEF Launch, tables
<1> DEFINE j == [payment |-> t,
                 transaction_id |-> IF "returning id" \in build THEN t ELSE NoId,
                 merchant_id |-> Owner[t], webhook_url |-> url]
<1>2. /\ pc' \in [Workers -> Steps] /\ job' \in [Workers -> Job \union {NoJob}]
      /\ pc'[t] = "notify" /\ job'[t] = j /\ j \in Job
      /\ \A w \in Workers \ {t} : pc'[w] = pc[w] /\ job'[w] = job[w]
  <2>1. job' = [job EXCEPT ![t] = j] /\ pc' = [pc EXCEPT ![t] = "notify"]
    BY DEF Launch, Goto
  <2>2. /\ job \in [Workers -> Job \union {NoJob}] /\ pc \in [Workers -> Steps]
        /\ t \in Workers
    BY DEF IInv, TypeOK, Workers
  <2>3. j \in Job
    BY PaymentsAssumption DEF Job
  <2> HIDE DEF j
  <2> QED
    BY <2>1, <2>2, <2>3 DEF Steps
<1>3. TypeOK'
  BY <1>2 DEF IInv, TypeOK, Launch, tables
<1>4. ASSUME NEW w \in Workers PROVE WorkerInv(w)'
  <2>1. CASE w = t
    <3>1. t \notin Slots
      BY PaymentsAssumption
    <3> QED
      BY <1>2, <2>1, <3>1 DEF WorkerInv, NotificationInv, AnswerInv, JobOK, Launch
  <2>2. CASE w # t
    <3>1. /\ WorkerInv(w) /\ pc'[w] = pc[w] /\ job'[w] = job[w]
          /\ delivered' = delivered /\ item' = item /\ received' = received /\ build' = build
      BY <1>2, <2>2 DEF IInv, Launch
    <3> QED
      BY <1>1, <3>1, WorkerKept
  <2> QED
    BY <2>1, <2>2
<1> QED
  BY <1>1, <1>3, <1>4 DEF IInv, DeliveredToOwner, Launch

(* What a step of one worker w must show, beyond the queue's part.         *)
LEMMA WorkerStep ==
  ASSUME IInv, NEW w \in Workers,
         TypeOK', WorkerInv(w)', DeliveredToOwner',
         QueueEvolves, QueueInv', ResolvedWasReceived',
         received \subseteq received', build' = build,
         \A v \in Workers \ {w} :
           /\ pc'[v] = pc[v] /\ job'[v] = job[v] /\ delivered'[v] = delivered[v]
           /\ v \in Slots => item'[v] = item[v]
  PROVE  IInv'
<1>1. ASSUME NEW v \in Workers \ {w} PROVE WorkerInv(v)'
  BY WorkerKept DEF IInv
<1> QED
  BY <1>1 DEF IInv

(* The ways in which NotifyMerchant returns, and a retry ends.             *)
LEMMA FreeType ==
  ASSUME IInv, NEW r \in Slots, Free(r)
  PROVE  /\ pc' \in [Workers -> Steps] /\ job' \in [Workers -> Job \union {NoJob}]
         /\ item' \in [Slots -> [id : Nat, merchant_id : Merchants] \union {NoItem}]
         /\ pc'[r] = "idle"
         /\ \A v \in Workers \ {r} : pc'[v] = pc[v] /\ job'[v] = job[v]
         /\ \A v \in Slots \ {r} : item'[v] = item[v]
BY DEF Free, IInv, TypeOK, Steps, Workers

LEMMA GotoType ==
  ASSUME IInv, NEW w \in Workers, NEW step \in Steps, Goto(w, step)
  PROVE  /\ pc' \in [Workers -> Steps] /\ pc'[w] = step
         /\ \A v \in Workers \ {w} : pc'[v] = pc[v]
BY DEF Goto, IInv, TypeOK
LEMMA ReturnType ==
  ASSUME IInv, NEW w \in Workers, NEW ok \in BOOLEAN, Return(w, ok)
  PROVE  /\ pc' \in [Workers -> Steps] /\ job' \in [Workers -> Job \union {NoJob}]
         /\ item' \in [Slots -> [id : Nat, merchant_id : Merchants] \union {NoItem}]
         /\ \A v \in Workers \ {w} : pc'[v] = pc[v] /\ job'[v] = job[v]
         /\ \A v \in Slots \ {w} : item'[v] = item[v]
         /\ \/ w \in Payments /\ pc'[w] = "done" /\ job' = job /\ item' = item
            \/ w \in Slots /\ ok /\ pc'[w] = "resolve" /\ job' = job /\ item' = item
            \/ w \in Slots /\ ~ok /\ pc'[w] = "idle"
<1>1. CASE /\ w \in Payments \/ ok
           /\ Goto(w, IF w \in Payments THEN "done" ELSE "resolve")
           /\ UNCHANGED <<job, item>>
  <2>1. CASE w \in Payments
    BY <1>1, <2>1, GotoType DEF Steps, IInv, TypeOK
  <2>2. CASE w \notin Payments
    BY <1>1, <2>2, GotoType DEF Steps, IInv, TypeOK, Workers
  <2> QED
    BY <2>1, <2>2
<1>2. CASE w \in Slots /\ ~ok /\ Free(w)
  BY <1>2, FreeType
<1> QED
  BY <1>1, <1>2 DEF Return

LEMMA BeginIInv ==
  ASSUME IInv, NEW w \in Workers, Begin(w)
  PROVE  IInv'
<1>1. /\ pc' \in [Workers -> Steps] /\ job' \in [Workers -> Job \union {NoJob}]
      /\ item' \in [Slots -> [id : Nat, merchant_id : Merchants] \union {NoItem}]
      /\ \A v \in Workers \ {w} : pc'[v] = pc[v] /\ job'[v] = job[v]
      /\ \A v \in Slots \ {w} : item'[v] = item[v]
      /\ \/ pc'[w] = "post" /\ job' = job /\ item' = item
         \/ w \in Payments /\ pc'[w] = "done" /\ job' = job /\ item' = item
         \/ w \in Slots /\ pc'[w] = "idle"
  <2>1. CASE Goto(w, "post") /\ UNCHANGED <<job, item>>
    BY <2>1, GotoType DEF Steps, IInv, TypeOK
  <2>2. CASE Return(w, FALSE)
    BY <2>2, ReturnType
  <2> QED
    BY <2>1, <2>2 DEF Begin
<1>2. QueueEvolves /\ QueueInv' /\ ResolvedWasReceived'
  BY QueueKept DEF Begin, tables
<1>3. TypeOK'
  <2>1. attempt' \in [Workers -> 0..2] /\ delivered' \in [Workers -> BOOLEAN]
    BY DEF Begin, IInv, TypeOK
  <2>2. faults' = faults
    BY DEF Begin
  <2> QED
    BY <1>1, <2>1, <2>2 DEF IInv, TypeOK, Begin, tables
<1>4. WorkerInv(w)'
  <2>1. WorkerInv(w) /\ pc[w] = "notify"
    BY DEF IInv, Begin
  <2>2. CASE w \in Payments
    BY <1>1, <2>1, <2>2, PaymentsAssumption
    DEF Begin, WorkerInv, NotificationInv, AnswerInv, JobOK
  <2>3. CASE w \in Slots
    BY <1>1, <2>1, <2>3, PaymentsAssumption
    DEF Begin, tables, WorkerInv, RetryInv, AnswerInv, JobOK, Delivering
  <2> QED
    BY <2>2, <2>3 DEF Workers
<1>5. /\ received' = received /\ build' = build /\ DeliveredToOwner'
      /\ \A v \in Workers \ {w} : delivered'[v] = delivered[v]
  BY DEF Begin, IInv, TypeOK, DeliveredToOwner
<1> QED
  BY <1>1, <1>2, <1>3, <1>4, <1>5, WorkerStep DEF Workers

LEMMA PostIInv ==
  ASSUME IInv, NEW w \in Workers, Post(w)
  PROVE  IInv'
<1>1. WorkerInv(w) /\ pc[w] = "post"
  BY DEF IInv, Post
<1>2. JobOK(w)
  BY <1>1 DEF WorkerInv, NotificationInv, RetryInv, Workers, Delivering
<1>3. PICK ok, reached \in BOOLEAN :
        /\ ok => reached
        /\ delivered' = [delivered EXCEPT ![w] = ok]
        /\ received' = IF reached
                         THEN received \union {<<job[w].payment, job[w].merchant_id>>}
                         ELSE received
  BY DEF Post
<1>4. /\ pc' \in [Workers -> Steps] /\ pc'[w] = "log"
      /\ \A v \in Workers \ {w} : pc'[v] = pc[v]
  BY GotoType DEF Post, Steps
<1>5. /\ delivered' \in [Workers -> BOOLEAN] /\ delivered'[w] = ok
      /\ \A v \in Workers \ {w} : delivered'[v] = delivered[v]
  BY <1>3 DEF IInv, TypeOK
<1>6. job[w].payment \in Payments /\ job[w].merchant_id \in Merchants
  BY <1>2 DEF JobOK, Job
<1>7. /\ received \subseteq received' /\ received' \subseteq Payments \X Merchants
      /\ DeliveredToOwner'
  <2> DEFINE d == <<job[w].payment, job[w].merchant_id>>
  <2>1. d \in Payments \X Merchants /\ d[2] = Owner[d[1]]
    BY <1>2, <1>6 DEF JobOK
  <2>2. received' = received \/ received' = received \union {d}
    BY <1>3
  <2> HIDE DEF d
  <2>3. received \subseteq Payments \X Merchants
    BY DEF IInv, TypeOK
  <2> QED
    BY <2>1, <2>2, <2>3 DEF IInv, DeliveredToOwner
<1>8. posts' \in [Payments -> Nat]
  BY <1>6 DEF Post, IInv, TypeOK
<1>9. QueueEvolves /\ QueueInv' /\ ResolvedWasReceived'
  BY <1>7, QueueKept DEF Post, tables
<1>10. TypeOK'
  BY <1>4, <1>5, <1>7, <1>8 DEF IInv, TypeOK, Post, tables
<1>11. WorkerInv(w)'
  <2>1. AnswerInv(w)'
    BY <1>3, <1>4, <1>5 DEF AnswerInv, Post
  <2>2. CASE w \in Payments
    BY <1>1, <1>4, <2>1, <2>2, PaymentsAssumption
    DEF Post, WorkerInv, NotificationInv, JobOK
  <2>3. CASE w \in Slots
    BY <1>1, <1>4, <2>1, <2>3, PaymentsAssumption
    DEF Post, tables, WorkerInv, RetryInv, JobOK, Delivering
  <2> QED
    BY <2>2, <2>3 DEF Workers
<1> QED
  BY <1>4, <1>5, <1>7, <1>9, <1>10, <1>11, WorkerStep DEF Post

(* INSERT INTO delivery_logs.                                              *)
LEMMA LogType ==
  ASSUME IInv, NEW w \in Workers, JobOK(w), InsertDeliveryLog(w)
  PROVE  delivery_logs' \in Seq(LogRow) /\ faults' \in 0..MaxFaults
<1> DEFINE row ==
      [transaction_id |-> job[w].transaction_id,
       merchant_id |-> IF "log merchant" \in build THEN job[w].merchant_id ELSE 0,
       attempt |-> attempt[w], status |-> LogStatus(w)]
<1>1. /\ delivery_logs \in Seq(LogRow) /\ faults \in 0..MaxFaults
      /\ attempt[w] \in 0..2
  BY DEF IInv, TypeOK
<1>2. ReferencesHold(row) => row \in LogRow
  BY <1>1 DEF ReferencesHold, LogRow, LogStatus
<1>3. InsertRow(delivery_logs, row)
  BY DEF InsertDeliveryLog
<1> HIDE DEF row
<1>4. faults' \in 0..MaxFaults
  BY <1>1, <1>3, SettingsAssumption DEF InsertRow, Write, NoFault, Fault
<1>5. delivery_logs' \in Seq(LogRow)
  BY <1>1, <1>2, <1>3, AppendRow DEF InsertRow, Write
<1> QED
  BY <1>4, <1>5
LEMMA LogAttemptIInv ==
  ASSUME IInv, NEW w \in Workers, LogAttempt(w)
  PROVE  IInv'
<1>1. WorkerInv(w) /\ pc[w] = "log"
  BY DEF IInv, LogAttempt
<1>2. JobOK(w)
  BY <1>1 DEF WorkerInv, NotificationInv, RetryInv, Workers, Delivering
<1>3. /\ pc' \in [Workers -> Steps] /\ job' \in [Workers -> Job \union {NoJob}]
      /\ item' \in [Slots -> [id : Nat, merchant_id : Merchants] \union {NoItem}]
      /\ \A v \in Workers \ {w} : pc'[v] = pc[v] /\ job'[v] = job[v]
      /\ \A v \in Slots \ {w} : item'[v] = item[v]
      /\ job' = job /\ item' = item
      /\ \/ pc'[w] \in {"post", "enqueue"}
         \/ w \in Payments /\ pc'[w] = "done"
         \/ w \in Slots /\ delivered[w] /\ pc'[w] = "resolve"
      /\ attempt' \in [Workers -> 0..2]
  <2>1. CASE delivered[w]
    BY <2>1, ReturnType DEF LogAttempt, IInv, TypeOK
  <2>2. CASE ~delivered[w]
    <3>1. NextAttempt(w)
      BY <2>2 DEF LogAttempt
    <3>2. attempt \in [Workers -> 0..2]
      BY DEF IInv, TypeOK
    <3>3. attempt' \in [Workers -> 0..2]
      BY <3>1, <3>2 DEF NextAttempt
    <3>4. Goto(w, "post") \/ Goto(w, "enqueue")
      BY <3>1 DEF NextAttempt
    <3>5. UNCHANGED <<job, item>>
      BY <3>1 DEF NextAttempt
    <3> QED
      BY <3>3, <3>4, <3>5, GotoType DEF Steps, IInv, TypeOK
  <2> QED
    BY <2>1, <2>2
<1>4. delivery_logs' \in Seq(LogRow) /\ faults' \in 0..MaxFaults
  BY <1>2, LogType DEF LogAttempt
<1>5. QueueEvolves /\ QueueInv' /\ ResolvedWasReceived'
  BY QueueKept DEF LogAttempt
<1>6. /\ UNCHANGED <<webhookUrl, active, delivery_dlq, delivered, posts, received,
                     retries, build>>
  BY DEF LogAttempt
<1>7. TypeOK'
  BY <1>3, <1>4, <1>6 DEF IInv, TypeOK
<1>8. WorkerInv(w)'
  <2>1. CASE w \in Payments
    BY <1>1, <1>2, <1>3, <1>6, <2>1, PaymentsAssumption
    DEF WorkerInv, NotificationInv, AnswerInv, JobOK
  <2>2. CASE w \in Slots
    <3>1. pc'[w] \in {"post", "enqueue", "resolve"}
      BY <1>3, <2>2, PaymentsAssumption
    <3>2. pc'[w] = "resolve" => delivered[w]
      BY <1>3, <2>2, PaymentsAssumption
    <3> QED
      BY <1>1, <1>2, <1>3, <1>6, <2>2, <3>1, <3>2, PaymentsAssumption
      DEF WorkerInv, RetryInv, AnswerInv, JobOK, Delivering
  <2> QED
    BY <2>1, <2>2 DEF Workers
<1> QED
  BY <1>3, <1>5, <1>6, <1>7, <1>8, WorkerStep DEF IInv, DeliveredToOwner

LEMMA EnqueueIInv ==
  ASSUME IInv, NEW w \in Workers, EnqueueDLQ(w)
  PROVE  IInv'
<1> DEFINE row == [transaction_id |-> job[w].transaction_id,
                   merchant_id |-> job[w].merchant_id, status |-> "FAILED"]
<1>1. WorkerInv(w) /\ pc[w] = "enqueue"
  BY DEF IInv, EnqueueDLQ
<1>2. JobOK(w)
  BY <1>1 DEF WorkerInv, NotificationInv, RetryInv, Workers, Delivering
<1>3. InsertRow(delivery_dlq, row) /\ Return(w, FALSE)
  BY DEF EnqueueDLQ
<1>4. UNCHANGED <<webhookUrl, active, delivery_logs, attempt, delivered, posts,
                  received, retries, build>>
  BY DEF EnqueueDLQ
<1>5. ReferencesHold(row) =>
        row \in DLQRow /\ row.status = "FAILED"
        /\ row.merchant_id = Owner[row.transaction_id]
  BY <1>2, PaymentsAssumption DEF ReferencesHold, DLQRow, JobOK
<1> HIDE DEF row
<1>6. /\ delivery_dlq' \in Seq(DLQRow)
      /\ QueueEvolves /\ QueueInv' /\ ResolvedWasReceived'
  <2>1. CASE delivery_dlq' = delivery_dlq
    BY <1>4, <2>1, QueueKept
  <2>2. CASE ReferencesHold(row) /\ delivery_dlq' = Append(delivery_dlq, row)
    BY <1>4, <1>5, <2>2, QueueAppend
  <2> QED
    BY <1>3, <2>1, <2>2 DEF InsertRow, Write
<1>7. faults' \in 0..MaxFaults
  BY <1>3, SettingsAssumption DEF InsertRow, Write, NoFault, Fault, IInv, TypeOK
<1>8. TypeOK'
  BY <1>3, <1>4, <1>6, <1>7, ReturnType DEF IInv, TypeOK
<1>9. WorkerInv(w)'
  BY <1>1, <1>3, <1>4, ReturnType, PaymentsAssumption
  DEF WorkerInv, NotificationInv, RetryInv, AnswerInv, JobOK, Delivering, Workers
<1>10. DeliveredToOwner'
  BY <1>4 DEF IInv, DeliveredToOwner
<1> QED
  BY <1>3, <1>4, <1>6, <1>8, <1>9, <1>10, ReturnType, WorkerStep DEF Workers

(* The steps of a retry.                                                   *)
LEMMA RequestIInv ==
  ASSUME IInv, NEW r \in Slots, NEW m \in Merchants, NEW id \in Nat, Request(r, m, id)
  PROVE  IInv'
<1>1. r \in Workers /\ r \notin Payments
  BY PaymentsAssumption DEF Workers
<1>2. /\ pc' \in [Workers -> Steps] /\ pc'[r] = "get"
      /\ \A v \in Workers \ {r} : pc'[v] = pc[v]
  BY <1>1, GotoType DEF Request, Steps
<1>3. /\ item' \in [Slots -> [id : Nat, merchant_id : Merchants] \union {NoItem}]
      /\ item'[r] \in [id : Nat, merchant_id : Merchants]
      /\ \A v \in Slots \ {r} : item'[v] = item[v]
  BY DEF Request, IInv, TypeOK
<1>4. retries' \in 0..MaxRetries
  BY SettingsAssumption DEF Request, IInv, TypeOK
<1>5. UNCHANGED <<webhookUrl, active, tables, job, attempt, delivered, posts,
                  received, faults, build>>
  BY DEF Request
<1>6. QueueEvolves /\ QueueInv' /\ ResolvedWasReceived'
  BY <1>5, QueueKept DEF tables
<1>7. TypeOK'
  BY <1>2, <1>3, <1>4, <1>5 DEF IInv, TypeOK, tables
<1>8. WorkerInv(r)'
  BY <1>1, <1>2, <1>3 DEF WorkerInv, RetryInv, AnswerInv, Delivering
<1>9. DeliveredToOwner'
  BY <1>5 DEF IInv, DeliveredToOwner
<1> QED
  BY <1>1, <1>2, <1>3, <1>5, <1>6, <1>7, <1>8, <1>9, WorkerStep
LEMMA GetIInv ==
  ASSUME IInv, NEW r \in Slots, GetDLQ(r)
  PROVE  IInv'
<1>1. r \in Workers /\ r \notin Payments /\ WorkerInv(r) /\ pc[r] = "get"
  BY PaymentsAssumption DEF Workers, IInv, GetDLQ
<1>2. UNCHANGED <<webhookUrl, active, tables, attempt, delivered, posts, received,
                  retries, build>>
  BY DEF GetDLQ
<1>3. \/ Free(r)
      \/ /\ Found(item[r]) /\ Goto(r, "requeue") /\ UNCHANGED <<job, item>>
  BY DEF GetDLQ
<1>4. /\ pc' \in [Workers -> Steps] /\ job' \in [Workers -> Job \union {NoJob}]
      /\ item' \in [Slots -> [id : Nat, merchant_id : Merchants] \union {NoItem}]
      /\ \A v \in Workers \ {r} : pc'[v] = pc[v] /\ job'[v] = job[v]
      /\ \A v \in Slots \ {r} : item'[v] = item[v]
      /\ \/ pc'[r] = "idle"
         \/ pc'[r] = "requeue" /\ item' = item /\ Found(item[r])
  BY <1>1, <1>3, FreeType, GotoType DEF Steps, IInv, TypeOK
<1>5. faults' \in 0..MaxFaults
  BY SettingsAssumption DEF GetDLQ, NoFault, Fault, IInv, TypeOK
<1>6. QueueEvolves /\ QueueInv' /\ ResolvedWasReceived'
  BY <1>2, QueueKept DEF tables
<1>7. TypeOK'
  BY <1>2, <1>4, <1>5 DEF IInv, TypeOK, tables
<1>8. WorkerInv(r)'
  BY <1>1, <1>2, <1>4 DEF tables, WorkerInv, RetryInv, AnswerInv, Delivering, Found
<1>9. DeliveredToOwner'
  BY <1>2 DEF IInv, DeliveredToOwner
<1> QED
  BY <1>1, <1>2, <1>4, <1>6, <1>7, <1>8, <1>9, WorkerStep

LEMMA RequeueIInv ==
  ASSUME IInv, NEW r \in Slots, MarkDLQRequeued(r)
  PROVE  IInv'
<1>1. r \in Workers /\ r \notin Payments /\ WorkerInv(r) /\ pc[r] = "requeue"
  BY PaymentsAssumption DEF Workers, IInv, MarkDLQRequeued
<1>2. UNCHANGED <<webhookUrl, active, delivery_logs, attempt, delivered, posts,
                  received, retries, build>>
  BY DEF MarkDLQRequeued
<1>3. Free(r) \/ (Goto(r, "merchant") /\ UNCHANGED <<job, item>>)
  BY DEF MarkDLQRequeued
<1>4. /\ pc' \in [Workers -> Steps] /\ job' \in [Workers -> Job \union {NoJob}]
      /\ item' \in [Slots -> [id : Nat, merchant_id : Merchants] \union {NoItem}]
      /\ \A v \in Workers \ {r} : pc'[v] = pc[v] /\ job'[v] = job[v]
      /\ \A v \in Slots \ {r} : item'[v] = item[v]
      /\ pc'[r] = "idle" \/ (pc'[r] = "merchant" /\ item' = item)
  BY <1>1, <1>3, FreeType, GotoType DEF Steps, IInv, TypeOK
<1>5. faults' \in 0..MaxFaults
  BY SettingsAssumption DEF MarkDLQRequeued, NoFault, Fault, IInv, TypeOK
<1>6. /\ delivery_dlq' \in Seq(DLQRow)
      /\ QueueEvolves /\ QueueInv' /\ ResolvedWasReceived'
  <2>1. item[r].id \in DOMAIN delivery_dlq
    BY <1>1 DEF WorkerInv, RetryInv
  <2>2. \/ delivery_dlq' = delivery_dlq
        \/ delivery_dlq' = [delivery_dlq EXCEPT ![item[r].id].status = "REQUEUED"]
    BY DEF MarkDLQRequeued
  <2> QED
    BY <1>2, <2>1, <2>2, QueueKept, QueueUpdate
<1>7. TypeOK'
  BY <1>2, <1>4, <1>5, <1>6 DEF IInv, TypeOK
<1>8. WorkerInv(r)'
  BY <1>1, <1>2, <1>4, <1>6
  DEF WorkerInv, RetryInv, AnswerInv, Delivering, QueueEvolves
<1>9. DeliveredToOwner'
  BY <1>2 DEF IInv, DeliveredToOwner
<1> QED
  BY <1>1, <1>2, <1>4, <1>6, <1>7, <1>8, <1>9, WorkerStep

LEMMA LoadMerchantIInv ==
  ASSUME IInv, NEW r \in Slots, LoadMerchant(r)
  PROVE  IInv'
<1> DEFINE i == item[r].id
<1> DEFINE j == [payment |-> delivery_dlq[i].transaction_id,
                 transaction_id |-> delivery_dlq[i].transaction_id,
                 merchant_id |-> item[r].merchant_id,
                 webhook_url |-> webhookUrl[item[r].merchant_id]]
<1>1. r \in Workers /\ r \notin Payments /\ WorkerInv(r) /\ pc[r] = "merchant"
  BY PaymentsAssumption DEF Workers, IInv, LoadMerchant
<1>2. /\ item[r].merchant_id \in Merchants /\ i \in DOMAIN delivery_dlq
      /\ delivery_dlq[i].merchant_id = item[r].merchant_id
  BY <1>1 DEF WorkerInv, RetryInv
<1>3. /\ j \in Job /\ j.payment = delivery_dlq[i].transaction_id
      /\ j.transaction_id = j.payment /\ j.merchant_id = Owner[j.payment]
  <2>1. delivery_dlq[i] \in DLQRow /\ webhookUrl[item[r].merchant_id] \in Urls
    BY <1>2 DEF IInv, TypeOK
  <2> QED
    BY <1>2, <2>1 DEF Job, DLQRow, IInv, QueueInv
<1>4. UNCHANGED <<webhookUrl, active, tables, attempt, delivered, posts, received,
                  retries, build>>
  BY DEF LoadMerchant
<1>5. \/ Free(r)
      \/ /\ job' = [job EXCEPT ![r] = j]
         /\ Goto(r, "transaction") /\ UNCHANGED item
  BY DEF LoadMerchant
<1> HIDE DEF j
<1>6. /\ pc' \in [Workers -> Steps] /\ job' \in [Workers -> Job \union {NoJob}]
      /\ item' \in [Slots -> [id : Nat, merchant_id : Merchants] \union {NoItem}]
      /\ \A v \in Workers \ {r} : pc'[v] = pc[v] /\ job'[v] = job[v]
      /\ \A v \in Slots \ {r} : item'[v] = item[v]
      /\ pc'[r] = "idle" \/ (pc'[r] = "transaction" /\ item' = item /\ job'[r] = j)
  <2>1. CASE Free(r)
    BY <2>1, FreeType
  <2>2. CASE /\ job' = [job EXCEPT ![r] = j]
             /\ Goto(r, "transaction") /\ UNCHANGED item
    BY <1>1, <1>3, <2>2, GotoType DEF Steps, IInv, TypeOK
  <2> QED
    BY <1>5, <2>1, <2>2
<1>7. faults' \in 0..MaxFaults
  BY SettingsAssumption DEF LoadMerchant, NoFault, Fault, IInv, TypeOK
<1>8. QueueEvolves /\ QueueInv' /\ ResolvedWasReceived'
  BY <1>4, QueueKept DEF tables
<1>9. TypeOK'
  BY <1>4, <1>6, <1>7 DEF IInv, TypeOK, tables
<1>10. WorkerInv(r)'
  BY <1>1, <1>3, <1>4, <1>6
  DEF tables, WorkerInv, RetryInv, AnswerInv, JobOK, Delivering
<1>11. DeliveredToOwner'
  BY <1>4 DEF IInv, DeliveredToOwner
<1> QED
  BY <1>1, <1>4, <1>6, <1>8, <1>9, <1>10, <1>11, WorkerStep

LEMMA LoadTransactionIInv ==
  ASSUME IInv, NEW r \in Slots, LoadTransaction(r)
  PROVE  IInv'
<1>1. r \in Workers /\ r \notin Payments /\ WorkerInv(r) /\ pc[r] = "transaction"
  BY PaymentsAssumption DEF Workers, IInv, LoadTransaction
<1>2. UNCHANGED <<webhookUrl, active, tables, attempt, delivered, posts, received,
                  retries, build>>
  BY DEF LoadTransaction
<1>3. Free(r) \/ (Goto(r, "notify") /\ UNCHANGED <<job, item>>)
  BY DEF LoadTransaction
<1>4. /\ pc' \in [Workers -> Steps] /\ job' \in [Workers -> Job \union {NoJob}]
      /\ item' \in [Slots -> [id : Nat, merchant_id : Merchants] \union {NoItem}]
      /\ \A v \in Workers \ {r} : pc'[v] = pc[v] /\ job'[v] = job[v]
      /\ \A v \in Slots \ {r} : item'[v] = item[v]
      /\ pc'[r] = "idle" \/ (pc'[r] = "notify" /\ item' = item /\ job' = job)
  BY <1>1, <1>3, FreeType, GotoType DEF Steps, IInv, TypeOK
<1>5. faults' \in 0..MaxFaults
  BY SettingsAssumption DEF LoadTransaction, NoFault, Fault, IInv, TypeOK
<1>6. QueueEvolves /\ QueueInv' /\ ResolvedWasReceived'
  BY <1>2, QueueKept DEF tables
<1>7. TypeOK'
  BY <1>2, <1>4, <1>5 DEF IInv, TypeOK, tables
<1>8. WorkerInv(r)'
  BY <1>1, <1>2, <1>4
  DEF tables, WorkerInv, RetryInv, AnswerInv, JobOK, Delivering
<1>9. DeliveredToOwner'
  BY <1>2 DEF IInv, DeliveredToOwner
<1> QED
  BY <1>1, <1>2, <1>4, <1>6, <1>7, <1>8, <1>9, WorkerStep

LEMMA ResolveIInv ==
  ASSUME IInv, NEW r \in Slots, ResolveDLQ(r)
  PROVE  IInv'
<1> DEFINE i == item[r].id
<1>1. r \in Workers /\ r \notin Payments /\ WorkerInv(r) /\ pc[r] = "resolve"
  BY PaymentsAssumption DEF Workers, IInv, ResolveDLQ
<1>2. UNCHANGED <<webhookUrl, active, delivery_logs, attempt, delivered, posts,
                  received, retries, build>>
  BY DEF ResolveDLQ
<1>3. Free(r)
  BY DEF ResolveDLQ
<1>4. /\ i \in DOMAIN delivery_dlq
      /\ <<delivery_dlq[i].transaction_id, delivery_dlq[i].merchant_id>> \in received
  <2>1. /\ i \in DOMAIN delivery_dlq
        /\ JobOK(r) /\ job[r].payment = delivery_dlq[i].transaction_id
        /\ <<job[r].payment, job[r].merchant_id>> \in received
    BY <1>1 DEF WorkerInv, RetryInv, AnswerInv, Delivering
  <2>2. delivery_dlq[i].merchant_id = Owner[delivery_dlq[i].transaction_id]
    BY <2>1 DEF IInv, QueueInv
  <2> QED
    BY <2>1, <2>2 DEF JobOK
<1>5. faults' \in 0..MaxFaults
  BY SettingsAssumption DEF ResolveDLQ, Write, NoFault, Fault, IInv, TypeOK
<1>6. /\ delivery_dlq' \in Seq(DLQRow)
      /\ QueueEvolves /\ QueueInv' /\ ResolvedWasReceived'
  <2>1. \/ delivery_dlq' = delivery_dlq
        \/ delivery_dlq' = [delivery_dlq EXCEPT ![i].status = "RESOLVED"]
    BY DEF ResolveDLQ, Write
  <2> QED
    BY <1>2, <1>4, <2>1, QueueKept, QueueUpdate
<1>7. TypeOK'
  BY <1>2, <1>3, <1>5, <1>6, FreeType DEF IInv, TypeOK
<1>8. WorkerInv(r)'
  BY <1>1, <1>3, FreeType DEF WorkerInv, RetryInv, AnswerInv, Delivering
<1>9. DeliveredToOwner'
  BY <1>2 DEF IInv, DeliveredToOwner
<1> QED
  BY <1>1, <1>2, <1>3, <1>6, <1>7, <1>8, <1>9, FreeType, WorkerStep

(* A step of the rest of the program: it sets the merchants' columns, and  *)
(* may fail.                                                               *)
Environment ==
  /\ UNCHANGED <<tables, pc, job, attempt, delivered, item, posts, received, retries, build>>
  /\ webhookUrl' \in [Merchants -> Urls] /\ active' \in [Merchants -> BOOLEAN]
  /\ faults' \in 0..MaxFaults

LEMMA EnvironmentIInv ==
  ASSUME IInv, Environment
  PROVE  IInv'
<1>1. UNCHANGED <<tables, pc, job, attempt, delivered, item, posts, received,
                  retries, build>>
  BY DEF Environment
<1>2. TypeOK'
  BY <1>1 DEF IInv, TypeOK, tables, Environment
<1>3. QueueEvolves /\ QueueInv' /\ ResolvedWasReceived'
  BY <1>1, QueueKept DEF tables
<1>4. ASSUME NEW w \in Workers PROVE WorkerInv(w)'
  BY <1>1, <1>3, WorkerKept DEF IInv
<1> QED
  BY <1>1, <1>2, <1>3, <1>4 DEF IInv, DeliveredToOwner

(* The merchants' own settings.                                            *)
LEMMA SettingsIInv ==
  ASSUME IInv, NEW m \in Merchants,
         \/ \E url \in Urls : UpdateMerchantWebhookURL(m, url)
         \/ \E a \in BOOLEAN : SetMerchantActive(m, a)
  PROVE  IInv'
<1>1. Environment
  BY DEF UpdateMerchantWebhookURL, SetMerchantActive, IInv, TypeOK, Environment
<1> QED
  BY <1>1, EnvironmentIInv

LEMMA CrashIInv ==
  ASSUME IInv, Crash
  PROVE  IInv'
<1>1. /\ pc' = [w \in Workers |->
           IF w \in Slots THEN "idle" ELSE IF pc[w] = "idle" THEN "idle" ELSE "done"]
      /\ job' = [w \in Workers |-> IF w \in Slots THEN NoJob ELSE job[w]]
      /\ item' = [r \in Slots |-> NoItem]
      /\ UNCHANGED <<webhookUrl, active, tables, attempt, delivered, posts, received,
                     retries, build>>
  BY DEF Crash
<1>2. TypeOK'
  <2>1. pc' \in [Workers -> Steps] /\ job' \in [Workers -> Job \union {NoJob}]
    BY <1>1 DEF IInv, TypeOK, Steps
  <2>2. faults' \in 0..MaxFaults
    BY SettingsAssumption DEF Crash, Fault, IInv, TypeOK
  <2> QED
    BY <1>1, <2>1, <2>2 DEF IInv, TypeOK, tables
<1>3. QueueEvolves /\ QueueInv' /\ ResolvedWasReceived'
  BY <1>1, QueueKept DEF tables
<1>4. ASSUME NEW w \in Workers PROVE WorkerInv(w)'
  <2>1. WorkerInv(w)
    BY DEF IInv
  <2>2. CASE w \in Slots
    BY <1>1, <2>2, PaymentsAssumption DEF WorkerInv, RetryInv, AnswerInv, Delivering
  <2>3. CASE w \in Payments
    BY <1>1, <2>1, <2>3, PaymentsAssumption
    DEF WorkerInv, NotificationInv, AnswerInv, JobOK
  <2> QED
    BY <2>2, <2>3 DEF Workers
<1> QED
  BY <1>1, <1>2, <1>3, <1>4 DEF IInv, DeliveredToOwner

LEMMA StutterIInv ==
  ASSUME IInv, UNCHANGED vars
  PROVE  IInv'
<1>1. QueueEvolves /\ QueueInv' /\ ResolvedWasReceived'
  BY QueueKept DEF vars, tables
<1>2. ASSUME NEW w \in Workers PROVE WorkerInv(w)'
  BY <1>1, WorkerKept DEF IInv, vars
<1> QED
  BY <1>1, <1>2 DEF IInv, TypeOK, DeliveredToOwner, vars, tables

LEMMA NextIInv == IInv /\ [Next]_vars => IInv'
<1> SUFFICES ASSUME IInv, [Next]_vars PROVE IInv'
  OBVIOUS
<1>1. ASSUME NEW t \in Payments, NEW url \in Urls, Launch(t, url) PROVE IInv'
  BY <1>1, LaunchIInv
<1>2. ASSUME NEW w \in Workers, Run(w) PROVE IInv'
  BY <1>2, BeginIInv, PostIInv, LogAttemptIInv, EnqueueIInv, GetIInv, RequeueIInv,
     LoadMerchantIInv, LoadTransactionIInv, ResolveIInv DEF Run
<1>3. ASSUME NEW r \in Slots, NEW m \in Merchants, NEW id \in 1..(Len(delivery_dlq) + 1),
             Request(r, m, id)
      PROVE  IInv'
  <2>1. delivery_dlq \in Seq(DLQRow)
    BY DEF IInv, TypeOK
  <2>2. id \in Nat
    BY <2>1
  <2> QED
    BY <1>3, <2>2, RequestIInv
<1>4. CASE \/ \E m \in Merchants, url \in Urls : UpdateMerchantWebhookURL(m, url)
           \/ \E m \in Merchants, a \in BOOLEAN : SetMerchantActive(m, a)
  BY <1>4, SettingsIInv
<1>5. CASE Crash
  BY <1>5, CrashIInv
<1>6. CASE UNCHANGED vars
  BY <1>6, StutterIInv
<1> QED
  BY <1>1, <1>2, <1>3, <1>4, <1>5, <1>6 DEF Next

(* A step leaves the counter of faults, or adds one.                       *)
LEMMA FaultsGrow ==
  ASSUME [Next]_vars
  PROVE  faults' \in {faults, faults + 1}
<1> USE DEF NoFault, Fault
<1>1. ASSUME NEW w \in Workers, Run(w) PROVE faults' \in {faults, faults + 1}
  <2>1. CASE Begin(w) \/ Post(w)
    BY <2>1 DEF Begin, Post
  <2>2. CASE LogAttempt(w) \/ EnqueueDLQ(w)
    BY <2>2 DEF LogAttempt, EnqueueDLQ, InsertDeliveryLog, InsertRow, Write
  <2>3. CASE GetDLQ(w) \/ MarkDLQRequeued(w)
    BY <2>3 DEF GetDLQ, MarkDLQRequeued
  <2>4. CASE LoadMerchant(w) \/ LoadTransaction(w) \/ ResolveDLQ(w)
    BY <2>4 DEF LoadMerchant, LoadTransaction, ResolveDLQ, Write
  <2> QED
    BY <1>1, <2>1, <2>2, <2>3, <2>4 DEF Run
<1>2. CASE \/ \E t \in Payments, url \in Urls : Launch(t, url)
           \/ \E r \in Slots, m \in Merchants, id \in 1..(Len(delivery_dlq) + 1) :
                Request(r, m, id)
           \/ \E m \in Merchants, url \in Urls : UpdateMerchantWebhookURL(m, url)
           \/ \E m \in Merchants, a \in BOOLEAN : SetMerchantActive(m, a)
  BY <1>2 DEF Launch, Request, UpdateMerchantWebhookURL, SetMerchantActive
<1>3. CASE UNCHANGED vars \/ Crash
  BY <1>3 DEF vars, Crash
<1> QED
  BY <1>1, <1>2, <1>3 DEF Next

LEMMA Invariance == Spec => []IInv
BY InitIInv, NextIInv, PTL DEF Spec

(* Every table, worker and counter of the notifier and of the retries has  *)
(* values of its type: rows of foreign keys that hold, an id for a retry.  *)
THEOREM DeliveryTypeCorrect == Spec => []TypeOK
<1>1. IInv => TypeOK
  BY DEF IInv
<1> QED
  BY <1>1, Invariance, PTL

(* notifier.go and dlq_admin.go post a payment to its own merchant only,   *)
(* however many retries of whatever rows run together, and through         *)
(* crashes.                                                                *)
THEOREM OnlyOwnersHear == Spec => []DeliveredToOwner
<1>1. IInv => DeliveredToOwner
  BY DEF IInv
<1> QED
  BY <1>1, Invariance, PTL

(* ResolveDLQ marks RESOLVED only what a merchant's app has received.      *)
THEOREM ResolvedMeansReceived == Spec => []ResolvedWasReceived
<1>1. IInv => ResolvedWasReceived
  BY DEF IInv
<1> QED
  BY <1>1, Invariance, PTL

----------------------------------------------------------------------------
(* What a retry posts has been launched before: it comes from the queue,   *)
(* and what is in the queue comes from a notification.                     *)

LaunchedInv ==
  /\ \A w \in Workers :
       /\ pc[w] \in Delivering \union {"transaction"} => pc[job[w].payment] # "idle"
       /\ pc[w] \in {"post", "log", "enqueue"} => job[w].payment \in Successful
  /\ \A i \in DOMAIN delivery_dlq : pc[delivery_dlq[i].transaction_id] # "idle"
  /\ \A d \in received : pc[d[1]] # "idle" /\ d[1] \in Successful

(* The payments that workers, rows of the queue and deliveries name are    *)
(* payments.                                                               *)
LEMMA NamedPayments ==
  ASSUME IInv
  PROVE  /\ \A w \in Workers :
              pc[w] \in Delivering \union {"transaction"} => job[w].payment \in Payments
         /\ \A i \in DOMAIN delivery_dlq : delivery_dlq[i].transaction_id \in Payments
         /\ \A d \in received : d[1] \in Payments
<1>1. ASSUME NEW w \in Workers, pc[w] \in Delivering \union {"transaction"}
      PROVE  job[w].payment \in Payments
  <2>1. WorkerInv(w)
    BY DEF IInv
  <2>2. JobOK(w)
    BY <1>1, <2>1, PaymentsAssumption
    DEF WorkerInv, NotificationInv, RetryInv, Delivering, Workers
  <2> QED
    BY <2>2 DEF JobOK, Job
<1>2. ASSUME NEW i \in DOMAIN delivery_dlq
      PROVE  delivery_dlq[i].transaction_id \in Payments
  <2>1. delivery_dlq \in Seq(DLQRow)
    BY DEF IInv, TypeOK
  <2>2. delivery_dlq[i] \in DLQRow
    BY <2>1
  <2> QED
    BY <2>2 DEF DLQRow
<1>3. \A d \in received : d[1] \in Payments
  BY DEF IInv, TypeOK
<1> QED
  BY <1>1, <1>2, <1>3

(* A step of worker w keeps the invariant if w's part holds after it, and  *)
(* what it adds to the queue or delivers is launched.                      *)
LEMMA LaunchedStep ==
  ASSUME IInv, LaunchedInv, NEW w \in Workers,
         \A t \in Payments : pc[t] # "idle" => pc'[t] # "idle",
         \A v \in Workers \ {w} : pc'[v] = pc[v] /\ job'[v] = job[v],
         pc'[w] \in Delivering \union {"transaction"} =>
           /\ job'[w].payment \in Payments
           /\ pc'[job'[w].payment] # "idle",
         pc'[w] \in {"post", "log", "enqueue"} => job'[w].payment \in Successful,
         \A i \in DOMAIN delivery_dlq' :
           \/ i \in DOMAIN delivery_dlq
              /\ delivery_dlq'[i].transaction_id = delivery_dlq[i].transaction_id
           \/ pc'[delivery_dlq'[i].transaction_id] # "idle",
         \A d \in received' :
           d \in received \/ (pc'[d[1]] # "idle" /\ d[1] \in Successful)
  PROVE  LaunchedInv'
<1>1. ASSUME NEW v \in Workers
      PROVE  /\ pc'[v] \in Delivering \union {"transaction"} => pc'[job'[v].payment] # "idle"
             /\ pc'[v] \in {"post", "log", "enqueue"} => job'[v].payment \in Successful
  <2>1. CASE v = w
    BY <2>1
  <2>2. CASE v # w
    <3>1. pc'[v] = pc[v] /\ job'[v] = job[v]
      BY <2>2
    <3> QED
      BY <3>1, NamedPayments DEF LaunchedInv
  <2> QED
    BY <2>1, <2>2
<1>2. \A i \in DOMAIN delivery_dlq' : pc'[delivery_dlq'[i].transaction_id] # "idle"
  BY NamedPayments DEF LaunchedInv
<1>3. \A d \in received' : pc'[d[1]] # "idle" /\ d[1] \in Successful
  BY NamedPayments DEF LaunchedInv
<1> QED
  BY <1>1, <1>2, <1>3 DEF LaunchedInv

(* A worker that takes a step has been started.                            *)
LEMMA RunBusy ==
  ASSUME NEW w \in Workers, Run(w)
  PROVE  pc[w] # "idle"
BY DEF Run, Begin, Post, LogAttempt, EnqueueDLQ, GetDLQ, MarkDLQRequeued,
       LoadMerchant, LoadTransaction, ResolveDLQ

(* Where a step leaves its worker: at a step that names no payment, at the *)
(* next step with the payment it had, or with that of a row of the queue.  *)
LEMMA RunMoves ==
  ASSUME IInv, NEW w \in Workers, Run(w)
  PROVE  /\ \A v \in Workers \ {w} : pc'[v] = pc[v] /\ job'[v] = job[v]
         /\ w \in Payments => pc'[w] # "idle"
         /\ \/ pc'[w] \notin Delivering \union {"transaction"}
            \/ /\ job'[w] = job[w]
               /\ pc[w] \in Delivering \union {"transaction"}
               /\ pc'[w] \in {"post", "log", "enqueue"} =>
                    pc[w] \in {"post", "log"} \/ job[w].payment \in Successful
            \/ /\ pc'[w] = "transaction"
               /\ item[w].id \in DOMAIN delivery_dlq
               /\ job'[w].payment = delivery_dlq[item[w].id].transaction_id
<1> USE DEF Delivering
<1>1. /\ pc \in [Workers -> Steps] /\ job \in [Workers -> Job \union {NoJob}]
      /\ WorkerInv(w) /\ (w \in Slots => w \notin Payments)
  BY PaymentsAssumption DEF IInv, TypeOK
<1>2. CASE Begin(w)
  <2>1. CASE Notifiable(w) /\ Goto(w, "post") /\ UNCHANGED <<job, item>>
    <3>1. pc[w] = "notify" /\ job[w].payment \in Successful
      BY <1>2, <2>1 DEF Begin, Notifiable
    <3> QED
      BY <1>1, <2>1, <3>1 DEF Goto
  <2>2. CASE Return(w, FALSE)
    BY <1>1, <2>2, ReturnType
  <2> QED
    BY <1>2, <2>1, <2>2 DEF Begin
<1>3. CASE Post(w)
  BY <1>1, <1>3 DEF Post, Goto
<1>4. CASE LogAttempt(w)
  <2>1. pc[w] = "log"
    BY <1>4 DEF LogAttempt
  <2>2. CASE Return(w, TRUE)
    BY <1>1, <2>1, <2>2, ReturnType
  <2>3. CASE NextAttempt(w)
    <3>1. (Goto(w, "post") \/ Goto(w, "enqueue")) /\ UNCHANGED job
      BY <2>3 DEF NextAttempt
    <3> QED
      BY <1>1, <2>1, <3>1 DEF Goto
  <2> QED
    BY <1>4, <2>2, <2>3 DEF LogAttempt
<1>5. CASE EnqueueDLQ(w)
  BY <1>1, <1>5, ReturnType DEF EnqueueDLQ
<1>6. CASE w \in Slots /\ (GetDLQ(w) \/ MarkDLQRequeued(w))
  BY <1>1, <1>6, FreeType DEF GetDLQ, MarkDLQRequeued, Goto
<1>7. CASE w \in Slots /\ LoadMerchant(w)
  <2>1. pc[w] = "merchant" /\ RetryInv(w)
    BY <1>1, <1>7 DEF LoadMerchant, WorkerInv
  <2>2. CASE Free(w)
    BY <1>1, <1>7, <2>2, FreeType
  <2>3. CASE Goto(w, "transaction") /\ ~Free(w)
    <3> DEFINE t == delivery_dlq[item[w].id].transaction_id
    <3> PICK m : job' = [job EXCEPT ![w] =
                   [payment |-> t, transaction_id |-> t, merchant_id |-> m,
                    webhook_url |-> webhookUrl[m]]]
      BY <1>7, <2>3 DEF LoadMerchant
    <3>1. job'[w].payment = t /\ \A v \in Workers \ {w} : job'[v] = job[v]
      BY <1>1
    <3>2. item[w].id \in DOMAIN delivery_dlq
      BY <2>1 DEF RetryInv
    <3> QED
      BY <1>1, <1>7, <2>3, <3>1, <3>2 DEF Goto
  <2> QED
    BY <1>7, <2>2, <2>3 DEF LoadMerchant
<1>8. CASE w \in Slots /\ LoadTransaction(w)
  <2>1. pc[w] = "transaction"
    BY <1>8 DEF LoadTransaction
  <2> QED
    BY <1>1, <1>8, <2>1, FreeType DEF LoadTransaction, Goto
<1>9. CASE w \in Slots /\ ResolveDLQ(w)
  BY <1>1, <1>9, FreeType DEF ResolveDLQ
<1> QED
  BY <1>2, <1>3, <1>4, <1>5, <1>6, <1>7, <1>8, <1>9 DEF Run

(* What a step adds to the queue, and delivers, is the payment its worker  *)
(* has.                                                                    *)
LEMMA RunWrites ==
  ASSUME IInv, NEW w \in Workers, Run(w)
  PROVE  /\ \A i \in DOMAIN delivery_dlq' :
              \/ i \in DOMAIN delivery_dlq
                 /\ delivery_dlq'[i].transaction_id = delivery_dlq[i].transaction_id
              \/ /\ pc[w] = "enqueue"
                 /\ delivery_dlq'[i].transaction_id = job[w].payment
         /\ \A d \in received' :
              d \in received \/ (pc[w] = "post" /\ d[1] = job[w].payment)
<1>1. delivery_dlq \in Seq(DLQRow) /\ received \subseteq Payments \X Merchants
  BY DEF IInv, TypeOK
<1>2. CASE Post(w)
  BY <1>2 DEF Post, tables
<1>3. CASE EnqueueDLQ(w)
  <2> DEFINE row == [transaction_id |-> job[w].transaction_id,
                     merchant_id |-> job[w].merchant_id, status |-> "FAILED"]
  <2>1. pc[w] = "enqueue" /\ received' = received /\ InsertRow(delivery_dlq, row)
    BY <1>3 DEF EnqueueDLQ
  <2>2. JobOK(w)
    BY <2>1, PaymentsAssumption
    DEF IInv, WorkerInv, NotificationInv, RetryInv, Workers, Delivering
  <2>3. ReferencesHold(row) =>
          row \in DLQRow /\ row.transaction_id = job[w].payment
    BY <2>2, PaymentsAssumption DEF ReferencesHold, DLQRow, JobOK
  <2> HIDE DEF row
  <2>4. CASE delivery_dlq' = delivery_dlq
    BY <2>1, <2>4
  <2>5. CASE ReferencesHold(row) /\ delivery_dlq' = Append(delivery_dlq, row)
    <3>1. /\ DOMAIN delivery_dlq' = DOMAIN delivery_dlq \union {Len(delivery_dlq) + 1}
          /\ \A i \in DOMAIN delivery_dlq : delivery_dlq'[i] = delivery_dlq[i]
          /\ delivery_dlq'[Len(delivery_dlq) + 1] = row
      BY <1>1, <2>3, <2>5, AppendRow
    <3> QED
      BY <2>1, <2>3, <2>5, <3>1
  <2> QED
    BY <2>1, <2>4, <2>5 DEF InsertRow, Write
<1>4. CASE w \in Slots /\ (MarkDLQRequeued(w) \/ ResolveDLQ(w))
  <2>1. received' = received
    BY <1>4 DEF MarkDLQRequeued, ResolveDLQ
  <2>2. delivery_dlq' = delivery_dlq
        \/ \E s \in {"REQUEUED", "RESOLVED"} :
             delivery_dlq' = [delivery_dlq EXCEPT ![item[w].id].status = s]
    BY <1>4 DEF MarkDLQRequeued, ResolveDLQ, Write
  <2>3. ASSUME NEW s \in {"REQUEUED", "RESOLVED"},
               delivery_dlq' = [delivery_dlq EXCEPT ![item[w].id].status = s]
        PROVE  /\ DOMAIN delivery_dlq' = DOMAIN delivery_dlq
               /\ \A i \in DOMAIN delivery_dlq :
                    delivery_dlq'[i].transaction_id = delivery_dlq[i].transaction_id
    <3>1. \A i \in DOMAIN delivery_dlq : delivery_dlq[i] \in DLQRow
      BY <1>1
    <3> QED
      BY <1>1, <2>3, <3>1 DEF DLQRow
  <2> QED
    BY <2>1, <2>2, <2>3
<1>5. CASE UNCHANGED <<delivery_dlq, received>>
  BY <1>5
<1> QED
  BY <1>2, <1>3, <1>4, <1>5
  DEF Run, Begin, LogAttempt, GetDLQ, LoadMerchant, LoadTransaction, tables

LEMMA LaunchedRun ==
  ASSUME IInv, LaunchedInv, NEW w \in Workers, Run(w)
  PROVE  LaunchedInv'
<1> USE DEF Delivering
<1>1. \A t \in Payments : pc[t] # "idle" => pc'[t] # "idle"
  BY RunMoves DEF Workers
<1>2. pc'[w] \in Delivering \union {"transaction"} =>
        /\ job'[w].payment \in Payments
        /\ pc'[job'[w].payment] # "idle"
  BY <1>1, RunMoves, NamedPayments DEF LaunchedInv
<1>3. pc'[w] \in {"post", "log", "enqueue"} => job'[w].payment \in Successful
  BY RunMoves DEF LaunchedInv
<1>4. \A i \in DOMAIN delivery_dlq' :
        \/ i \in DOMAIN delivery_dlq
           /\ delivery_dlq'[i].transaction_id = delivery_dlq[i].transaction_id
        \/ pc'[delivery_dlq'[i].transaction_id] # "idle"
  BY <1>1, RunWrites, NamedPayments DEF LaunchedInv
<1>5. \A d \in received' :
        d \in received \/ (pc'[d[1]] # "idle" /\ d[1] \in Successful)
  BY <1>1, RunWrites, NamedPayments DEF LaunchedInv
<1> QED
  BY <1>1, <1>2, <1>3, <1>4, <1>5, RunMoves, LaunchedStep

LEMMA LaunchedLaunch ==
  ASSUME IInv, LaunchedInv, NEW t \in Payments, NEW url \in Urls, Launch(t, url)
  PROVE  LaunchedInv' /\ pc' = [pc EXCEPT ![t] = "notify"]
<1> DEFINE j == [payment |-> t,
                 transaction_id |-> IF "returning id" \in build THEN t ELSE NoId,
                 merchant_id |-> Owner[t], webhook_url |-> url]
<1>1. /\ pc' = [pc EXCEPT ![t] = "notify"] /\ job' = [job EXCEPT ![t] = j]
      /\ UNCHANGED <<delivery_dlq, received>>
  BY DEF Launch, Goto, tables
<1>2. /\ pc \in [Workers -> Steps] /\ job \in [Workers -> Job \union {NoJob}]
      /\ t \in Workers
  BY DEF IInv, TypeOK, Workers
<1>3. pc'[t] = "notify" /\ job'[t].payment = t
  BY <1>1, <1>2
<1> QED
  BY <1>1, <1>2, <1>3, LaunchedStep DEF Delivering, Workers

LEMMA LaunchedRequest ==
  ASSUME IInv, LaunchedInv, NEW r \in Slots, NEW m, NEW id, Request(r, m, id)
  PROVE  LaunchedInv' /\ \A t \in Payments : pc'[t] = pc[t]
<1>1. /\ pc' = [pc EXCEPT ![r] = "get"] /\ job' = job
      /\ UNCHANGED <<delivery_dlq, received>>
  BY DEF Request, Goto, tables
<1>2. pc \in [Workers -> Steps] /\ r \in Workers /\ r \notin Payments
  BY PaymentsAssumption DEF IInv, TypeOK, Workers
<1>3. pc'[r] = "get" /\ \A w \in Workers \ {r} : pc'[w] = pc[w]
  BY <1>1, <1>2
<1> QED
  BY <1>1, <1>2, <1>3, LaunchedStep DEF Delivering, Workers

LEMMA LaunchedCrash ==
  ASSUME IInv, LaunchedInv, Crash
  PROVE  /\ LaunchedInv'
         /\ \A t \in Payments : pc'[t] # "idle" <=> pc[t] # "idle"
<1>1. /\ \A w \in Workers : pc'[w] \in {"idle", "done"}
      /\ \A t \in Payments : pc'[t] # "idle" <=> pc[t] # "idle"
      /\ UNCHANGED <<delivery_dlq, received>>
  BY PaymentsAssumption DEF Crash, tables, Workers
<1> QED
  BY <1>1, NamedPayments DEF LaunchedInv, Delivering

LEMMA LaunchedKept ==
  ASSUME LaunchedInv, UNCHANGED <<pc, job, delivery_dlq, received>>
  PROVE  LaunchedInv'
BY DEF LaunchedInv

LEMMA LaunchedNext == IInv /\ LaunchedInv /\ [Next]_vars => LaunchedInv'
<1> SUFFICES ASSUME IInv, LaunchedInv, [Next]_vars PROVE LaunchedInv'
  OBVIOUS
<1>1. CASE \/ UNCHANGED vars
           \/ \E m \in Merchants, url \in Urls : UpdateMerchantWebhookURL(m, url)
           \/ \E m \in Merchants, a \in BOOLEAN : SetMerchantActive(m, a)
  <2>1. UNCHANGED <<pc, job, delivery_dlq, received>>
    BY <1>1 DEF vars, tables, UpdateMerchantWebhookURL, SetMerchantActive
  <2> QED
    BY <2>1, LaunchedKept
<1>2. ASSUME NEW t \in Payments, NEW url \in Urls, Launch(t, url) PROVE LaunchedInv'
  BY <1>2, LaunchedLaunch
<1>3. ASSUME NEW w \in Workers, Run(w) PROVE LaunchedInv'
  BY <1>3, LaunchedRun
<1>4. ASSUME NEW r \in Slots, NEW m \in Merchants, NEW id \in 1..(Len(delivery_dlq) + 1),
             Request(r, m, id)
      PROVE  LaunchedInv'
  BY <1>4, LaunchedRequest
<1>5. CASE Crash
  BY <1>5, LaunchedCrash
<1> QED
  BY <1>1, <1>2, <1>3, <1>4, <1>5 DEF Next

(* No retry posts a payment whose notification was never launched, or one  *)
(* that is not SUCCESSFUL: what an app receives has come through the       *)
(* webhook path first.                                                     *)
THEOREM OnlyLaunchedHeard ==
  Spec => [](\A d \in received : pc[d[1]] # "idle" /\ d[1] \in Successful)
<1>1. Init => LaunchedInv
  BY DEF Init, LaunchedInv, Delivering
<1>2. IInv /\ LaunchedInv /\ [Next]_vars => LaunchedInv'
  BY LaunchedNext
<1>3. LaunchedInv => \A d \in received : pc[d[1]] # "idle" /\ d[1] \in Successful
  BY DEF LaunchedInv
<1> QED
  BY <1>1, <1>2, <1>3, Invariance, PTL DEF Spec
=============================================================================
