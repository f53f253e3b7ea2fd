------------------------------ MODULE Delivery ------------------------------
(***************************************************************************)
(* How PayKit tells a merchant's app about a payment: the goroutine        *)
(* NotifyMerchant that the webhook handler launches, and the retry of a    *)
(* failed delivery from the dead letter queue (RetryDLQ).                  *)
(*                                                                         *)
(* A worker is the notification of a payment, or a slot for retry          *)
(* requests.  A step of a worker is at most one statement sent to          *)
(* Postgres, or one POST to the merchant's app.  Sleeping between attempts *)
(* is not a step: any other step can come between any two of a worker.     *)
(*                                                                         *)
(* Ingestion launches the notification of a payment at most once           *)
(* (IngestionProofs!NotifiedOnce); here Launch keeps that promise.         *)
(***************************************************************************)
EXTENDS Store

CONSTANTS
  Payments,     \* the ids of the rows of transactions
  Merchants,    \* the ids of the rows of merchants
  Owner,        \* merchant_id of each payment
  Successful,   \* the payments whose status is SUCCESSFUL
  Slots,        \* the retry requests that can be in progress at a time
  Urls,         \* the values of webhook_url
  NoUrl,        \* webhook_url = "", one of Urls
  NoId,         \* the ID 0 of a transaction that no row has
  NoJob,        \* not a job
  NoItem,       \* not a request for a row
  Builds,       \* the sets of repairs the program can be built with
  MaxRetries,   \* bound on the retry requests
  MaxFaults     \* bound on the database errors and crashes

(* Three lines keep the tables of this module empty in the program as it   *)
(* is: Insert has no RETURNING id, so the webhook path's transaction has   *)
(* ID 0 and each row that names it breaks a foreign key; the DeliveryLog   *)
(* of NotifyMerchant has no MerchantID, with the same effect; GetDLQ scans *)
(* resolved_at into a time.Time, which fails on the NULL of every row that *)
(* is not RESOLVED.  The build {} is the program as it is; a repair        *)
(* corrects one of the lines and nothing else.                             *)
Repairs == {"returning id", "log merchant", "nullable resolved_at"}

ASSUME PaymentsAssumption ==
  /\ NoId \notin Payments
  /\ Merchants \subseteq Nat \ {0}
  /\ Owner \in [Payments -> Merchants]
  /\ Successful \subseteq Payments
  /\ Slots \cap Payments = {}
  /\ IsFiniteSet(Slots)

ASSUME SettingsAssumption ==
  /\ NoUrl \in Urls
  /\ Builds \subseteq SUBSET Repairs
  /\ MaxRetries \in Nat
  /\ MaxFaults \in Nat

VARIABLES
  webhookUrl,     \* merchants.webhook_url
  active,         \* merchants.active
  delivery_logs,  \* table delivery_logs
  delivery_dlq,   \* table delivery_dlq
  pc,             \* the next step of each worker
  job,            \* what a worker delivers, and to whom
  attempt,        \* the variable attempt of NotifyMerchant
  delivered,      \* err == nil for the last POST of a worker
  item,           \* the delivery_dlq row a slot retries, and who asked for it
  posts,          \* the POSTs made for each payment (history)
  received,       \* <<payment, merchant>>: a POST reached the merchant's app
  retries,        \* the retry requests made
  faults,         \* the faults that have happened
  build           \* the repairs this program is built with; never changes

tables == <<delivery_logs, delivery_dlq>>
vars == <<webhookUrl, active, delivery_logs, delivery_dlq, pc, job, attempt,
          delivered, item, posts, received, retries, faults, build>>

Workers == Payments \union Slots

Steps == {"idle", "get", "requeue", "merchant", "transaction", "notify", "post",
          "log", "enqueue", "resolve", "done"}

(* transaction_id is the ID field of the transaction that NotifyMerchant   *)
(* is handed, payment the one whose amount it posts.                       *)
Job == [payment : Payments, transaction_id : Payments \union {NoId},
        merchant_id : Merchants, webhook_url : Urls]

LogRow == [transaction_id : Payments, merchant_id : Merchants, attempt : 0..2,
           status : {"SUCCESS", "RETRYING", "FAILED"}]

(* resolved_at is NULL exactly when status is not RESOLVED: EnqueueDLQ     *)
(* does not set it, MarkDLQRequeued clears it, ResolveDLQ sets it.         *)
DLQRow == [transaction_id : Payments, merchant_id : Merchants,
           status : {"FAILED", "REQUEUED", "RESOLVED"}]

TypeOK ==
  /\ webhookUrl \in [Merchants -> Urls]
  /\ active \in [Merchants -> BOOLEAN]
  /\ delivery_logs \in Seq(LogRow)
  /\ delivery_dlq \in Seq(DLQRow)
  /\ pc \in [Workers -> Steps]
  /\ job \in [Workers -> Job \union {NoJob}]
  /\ attempt \in [Workers -> 0..2]
  /\ delivered \in [Workers -> BOOLEAN]
  /\ item \in [Slots -> [id : Nat, merchant_id : Merchants] \union {NoItem}]
  /\ posts \in [Payments -> Nat]
  /\ received \subseteq Payments \X Merchants
  /\ retries \in 0..MaxRetries
  /\ faults \in 0..MaxFaults
  /\ build \in Builds

----------------------------------------------------------------------------
NoFault == faults' = faults

(* A database error or a crash.                                            *)
Fault == faults < MaxFaults /\ faults' = faults + 1

Goto(w, step) == pc' = [pc EXCEPT ![w] = step]

(* The request of slot r, or the goroutine it left behind, is over.        *)
Free(r) ==
  /\ pc' = [pc EXCEPT ![r] = "idle"]
  /\ job' = [job EXCEPT ![r] = NoJob]
  /\ item' = [item EXCEPT ![r] = NoItem]

(* A statement that writes a table whose contents after it are new: it may *)
(* fail, before or after the commit.                                       *)
Write(table, new) ==
  \/ table' = new /\ (NoFault \/ Fault)
  \/ table' = table /\ Fault

(* The tables have no foreign keys.                                        *)
ReferencesUnchecked(row) == TRUE

(* What the two statements' REFERENCES clauses ask of a row.               *)
ReferencesHold(row) == row.transaction_id \in Payments /\ row.merchant_id \in Merchants

(* An INSERT whose error the code ignores.                                 *)
InsertRow(table, row) ==
  IF ReferencesHold(row) THEN Write(table, Append(table, row))
  ELSE table' = table /\ NoFault

----------------------------------------------------------------------------
(* NotifyMerchant.                                                         *)

(* It returns at once to a merchant without a URL and for a payment that   *)
(* is not SUCCESSFUL.                                                      *)
Notifiable(w) == job[w].webhook_url # NoUrl /\ job[w].payment \in Successful

(* The retry's goroutine resolves the row whatever NotifyMerchant returns. *)
ReturnUnchecked(w, ok) ==
  /\ Goto(w, IF w \in Payments THEN "done" ELSE "resolve")
  /\ UNCHANGED <<job, item>>

(* NotifyMerchant returns ok to the goroutine that called it.              *)
Return(w, ok) ==
  \/ /\ w \in Payments \/ ok
     /\ Goto(w, IF w \in Payments THEN "done" ELSE "resolve")
     /\ UNCHANGED <<job, item>>
  \/ w \in Slots /\ ~ok /\ Free(w)

(* go payments.NotifyMerchant.  The URL is the one TierEnforcement read    *)
(* when the webhook came in: the merchant may have another one by now, or  *)
(* be inactive.                                                            *)
Launch(t, url) ==
  /\ pc[t] = "idle"
  /\ job' = [job EXCEPT ![t] =
       [payment |-> t,
        transaction_id |-> IF "returning id" \in build THEN t ELSE NoId,
        merchant_id |-> Owner[t],
        webhook_url |-> url]]
  /\ Goto(t, "notify")
  /\ UNCHANGED <<webhookUrl, active, tables, attempt, delivered, item, posts,
                 received, retries, faults, build>>

Begin(w) ==
  /\ pc[w] = "notify"
  /\ \/ Notifiable(w) /\ Goto(w, "post") /\ UNCHANGED <<job, item>>
     \/ ~Notifiable(w) /\ Return(w, FALSE)
  /\ attempt' = [attempt EXCEPT ![w] = 0]
  /\ delivered' = [delivered EXCEPT ![w] = FALSE]
  /\ UNCHANGED <<webhookUrl, active, tables, posts, received, retries, faults, build>>

(* postWebhook: a 2xx answer, another answer, no answer before the timeout *)
(* of 10 s.  Without a 2xx the app may have taken the payment all the same.*)
Post(w) ==
  /\ pc[w] = "post"
  /\ \E ok, reached \in BOOLEAN :
       /\ ok => reached
       /\ delivered' = [delivered EXCEPT ![w] = ok]
       /\ received' = IF reached
                        THEN received \union {<<job[w].payment, job[w].merchant_id>>}
                        ELSE received
  /\ posts' = [posts EXCEPT ![job[w].payment] = @ + 1]
  /\ Goto(w, "log")
  /\ UNCHANGED <<webhookUrl, active, tables, job, attempt, item, retries, faults, build>>

LogStatus(w) ==
  IF delivered[w] THEN "SUCCESS" ELSE IF attempt[w] = 2 THEN "FAILED" ELSE "RETRYING"

(* An attempt is logged only when it is the last one.                      *)
LogLastOnly(w) ==
  IF delivered[w] \/ attempt[w] = 2
    THEN InsertRow(delivery_logs,
           [transaction_id |-> job[w].transaction_id,
            merchant_id |-> IF "log merchant" \in build THEN job[w].merchant_id ELSE 0,
            attempt |-> attempt[w], status |-> LogStatus(w)])
    ELSE UNCHANGED <<delivery_logs, faults>>

InsertDeliveryLog(w) ==
  InsertRow(delivery_logs,
    [transaction_id |-> job[w].transaction_id,
     merchant_id |-> IF "log merchant" \in build THEN job[w].merchant_id ELSE 0,
     attempt |-> attempt[w], status |-> LogStatus(w)])

(* The last attempt is not followed by EnqueueDLQ (a loop that ends at 1). *)
NextAttemptOffByOne(w) ==
  IF attempt[w] < 2
    THEN attempt' = [attempt EXCEPT ![w] = @ + 1] /\ Goto(w, "post") /\ UNCHANGED <<job, item>>
    ELSE attempt' = attempt /\ Return(w, FALSE)

(* The loop and its last attempt are those of two attempts.                *)
NextAttemptTwoRounds(w) ==
  IF attempt[w] < 1
    THEN attempt' = [attempt EXCEPT ![w] = @ + 1] /\ Goto(w, "post") /\ UNCHANGED <<job, item>>
    ELSE attempt' = attempt /\ Goto(w, "enqueue") /\ UNCHANGED <<job, item>>

(* for attempt := 0; attempt < 3; attempt++                                *)
NextAttempt(w) ==
  IF attempt[w] < 2
    THEN attempt' = [attempt EXCEPT ![w] = @ + 1] /\ Goto(w, "post") /\ UNCHANGED <<job, item>>
    ELSE attempt' = attempt /\ Goto(w, "enqueue") /\ UNCHANGED <<job, item>>

LogAttempt(w) ==
  /\ pc[w] = "log"
  /\ InsertDeliveryLog(w)
  /\ IF delivered[w]
       THEN attempt' = attempt /\ Return(w, TRUE)
       ELSE NextAttempt(w)
  /\ UNCHANGED <<webhookUrl, active, delivery_dlq, delivered, posts, received,
                 retries, build>>

EnqueueDLQ(w) ==
  /\ pc[w] = "enqueue"
  /\ InsertRow(delivery_dlq,
       [transaction_id |-> job[w].transaction_id,
        merchant_id |-> job[w].merchant_id, status |-> "FAILED"])
  /\ Return(w, FALSE)
  /\ UNCHANGED <<webhookUrl, active, delivery_logs, attempt, delivered, posts,
                 received, retries, build>>

----------------------------------------------------------------------------
(* RetryDLQ.  A slot r serves one request: RequireAPIKey, the handler, and *)
(* the goroutine the handler leaves behind.                                *)

(* RequireAPIKey admits merchant m, which asks for row id; the portal asks *)
(* for a row it has listed, any other client for any row.                  *)
Request(r, m, id) ==
  /\ pc[r] = "idle"
  /\ retries < MaxRetries
  /\ active[m]
  /\ retries' = retries + 1
  /\ item' = [item EXCEPT ![r] = [id |-> id, merchant_id |-> m]]
  /\ Goto(r, "get")
  /\ UNCHANGED <<webhookUrl, active, tables, job, attempt, delivered, posts,
                 received, faults, build>>

(* The row is looked up by its id alone.                                   *)
FoundById(i) ==
  /\ i.id \in DOMAIN delivery_dlq
  /\ "nullable resolved_at" \in build \/ delivery_dlq[i.id].status = "RESOLVED"

(* Store.GetDLQ: WHERE id = $1 AND merchant_id = $2, and the Scan.         *)
Found(i) ==
  /\ i.id \in DOMAIN delivery_dlq
  /\ delivery_dlq[i.id].merchant_id = i.merchant_id
  /\ "nullable resolved_at" \in build \/ delivery_dlq[i.id].status = "RESOLVED"

GetDLQ(r) ==
  /\ pc[r] = "get"
  /\ \/ /\ Fault \/ (~Found(item[r]) /\ NoFault)   \* 404
        /\ Free(r)
     \/ /\ Found(item[r]) /\ NoFault
        /\ IF delivery_dlq[item[r].id].status = "RESOLVED"
             THEN Free(r)                            \* "already resolved"
             ELSE Goto(r, "requeue") /\ UNCHANGED <<job, item>>
  /\ UNCHANGED <<webhookUrl, active, tables, attempt, delivered, posts, received,
                 retries, build>>

(* The UPDATE does not look at the status GetDLQ has read.                 *)
MarkDLQRequeued(r) ==
  /\ pc[r] = "requeue"
  /\ LET requeued == [delivery_dlq EXCEPT ![item[r].id].status = "REQUEUED"] IN
       \/ /\ delivery_dlq' = requeued /\ NoFault
          /\ Goto(r, "merchant") /\ UNCHANGED <<job, item>>
       \/ /\ delivery_dlq' \in {delivery_dlq, requeued} /\ Fault
          /\ Free(r)
  /\ UNCHANGED <<webhookUrl, active, delivery_logs, attempt, delivered, posts,
                 received, retries, build>>

(* GetMerchantByID, of the merchant that asks.                             *)
LoadMerchant(r) ==
  /\ pc[r] = "merchant"
  /\ LET m == item[r].merchant_id
         t == delivery_dlq[item[r].id].transaction_id
     IN \/ /\ Fault \/ (~active[m] /\ NoFault)       \* 500
           /\ Free(r)
        \/ /\ active[m] /\ NoFault
           /\ job' = [job EXCEPT ![r] =
                [payment |-> t, transaction_id |-> t, merchant_id |-> m,
                 webhook_url |-> webhookUrl[m]]]
           /\ Goto(r, "transaction") /\ UNCHANGED item
  /\ UNCHANGED <<webhookUrl, active, tables, attempt, delivered, posts, received,
                 retries, build>>

(* GetTransactionInternal, whose row the foreign key guarantees.           *)
LoadTransaction(r) ==
  /\ pc[r] = "transaction"
  /\ \/ Fault /\ Free(r)
     \/ NoFault /\ Goto(r, "notify") /\ UNCHANGED <<job, item>>
  /\ UNCHANGED <<webhookUrl, active, tables, attempt, delivered, posts, received,
                 retries, build>>

ResolveDLQ(r) ==
  /\ pc[r] = "resolve"
  /\ Write(delivery_dlq, [delivery_dlq EXCEPT ![item[r].id].status = "RESOLVED"])
  /\ Free(r)
  /\ UNCHANGED <<webhookUrl, active, delivery_logs, attempt, delivered, posts,
                 received, retries, build>>

----------------------------------------------------------------------------
(* PUT /merchants/webhook-url, which takes a non-empty URL from a merchant *)
(* that RequireAPIKey admitted while it was active, and the operator's     *)
(* switch.                                                                 *)
UpdateMerchantWebhookURL(m, url) ==
  /\ url # NoUrl
  /\ webhookUrl' = [webhookUrl EXCEPT ![m] = url]
  /\ UNCHANGED <<active, tables, pc, job, attempt, delivered, item, posts, received,
                 retries, faults, build>>

SetMerchantActive(m, a) ==
  /\ active' = [active EXCEPT ![m] = a]
  /\ UNCHANGED <<webhookUrl, tables, pc, job, attempt, delivered, item, posts,
                 received, retries, faults, build>>

(* The process stops and is started again: every goroutine vanishes, the   *)
(* launched ones for good.                                                 *)
Crash ==
  /\ Fault
  /\ pc' = [w \in Workers |->
       IF w \in Slots THEN "idle" ELSE IF pc[w] = "idle" THEN "idle" ELSE "done"]
  /\ job' = [w \in Workers |-> IF w \in Slots THEN NoJob ELSE job[w]]
  /\ item' = [r \in Slots |-> NoItem]
  /\ UNCHANGED <<webhookUrl, active, tables, attempt, delivered, posts, received,
                 retries, build>>

Init ==
  /\ webhookUrl \in [Merchants -> Urls]
  /\ active = [m \in Merchants |-> TRUE]
  /\ delivery_logs = <<>> /\ delivery_dlq = <<>>
  /\ pc = [w \in Workers |-> "idle"]
  /\ job = [w \in Workers |-> NoJob]
  /\ attempt = [w \in Workers |-> 0]
  /\ delivered = [w \in Workers |-> FALSE]
  /\ item = [r \in Slots |-> NoItem]
  /\ posts = [t \in Payments |-> 0]
  /\ received = {} /\ retries = 0 /\ faults = 0
  /\ build \in Builds

(* One step of the goroutine of w.                                         *)
Run(w) ==
  \/ Begin(w) \/ Post(w) \/ LogAttempt(w) \/ EnqueueDLQ(w)
  \/ w \in Slots /\ (\/ GetDLQ(w) \/ MarkDLQRequeued(w) \/ LoadMerchant(w)
                     \/ LoadTransaction(w) \/ ResolveDLQ(w))

Next ==
  \/ \E t \in Payments, url \in Urls : Launch(t, url)
  \/ \E w \in Workers : Run(w)
  \/ \E r \in Slots, m \in Merchants, id \in 1..(Len(delivery_dlq) + 1) : Request(r, m, id)
  \/ \E m \in Merchants, url \in Urls : UpdateMerchantWebhookURL(m, url)
  \/ \E m \in Merchants, a \in BOOLEAN : SetMerchantActive(m, a)
  \/ Crash

Spec == Init /\ [][Next]_vars

(* A goroutine that can run does.  Nothing is assumed of merchants' apps,  *)
(* of requests, or of faults.                                              *)
FairSpec == Spec /\ \A w \in Workers : WF_vars(Run(w))

----------------------------------------------------------------------------
(* Properties.                                                             *)

RowsOf(t) == {i \in DOMAIN delivery_dlq : delivery_dlq[i].transaction_id = t}

(* A dead letter is marked RESOLVED only when its payment has reached the  *)
(* app of its merchant: no failed retry, no retry of another row, and no   *)
(* retry that a crash cuts short resolves it.                              *)
ResolvedWasReceived ==
  \A i \in DOMAIN delivery_dlq :
    delivery_dlq[i].status = "RESOLVED" =>
      <<delivery_dlq[i].transaction_id, delivery_dlq[i].merchant_id>> \in received

(* A payment is posted to the app of the merchant it belongs to, on the    *)
(* webhook path and on every retry, whoever asks for which row.            *)
DeliveredToOwner == \A d \in received : d[2] = Owner[d[1]]

(* README.md:54, "PayKit retries 3 times [...] If all attempts fail, the    *)
(* delivery is quarantined": whatever notifications, retries, faults and   *)
(* crashes do together, each dead letter has cost three POSTs of its own,  *)
(* of a SUCCESSFUL payment to its owner, and is closed when one arrived.   *)
Letters == INSTANCE DeadLetters WITH
  Due <- Successful, tries <- posts, heard <- received, letters <- delivery_dlq

RefinesDeadLetters == Letters!Spec

(* Repeated runs of the notifier never lose an attempt: without faults,    *)
(* and with the two foreign keys repaired, there is a row of delivery_logs *)
(* for each POST made, but for those whose worker is about to write it.    *)
AttemptsAudited ==
  {"returning id", "log merchant"} \subseteq build /\ faults = 0 =>
    \A t \in Payments :
      posts[t] = Cardinality({i \in DOMAIN delivery_logs :
                               delivery_logs[i].transaction_id = t})
               + Cardinality({w \in Workers : pc[w] = "log" /\ job[w].payment = t})

(* The notification of t ended without a 2xx.                              *)
Failed(t) == pc[t] = "done" /\ Notifiable(t) /\ ~delivered[t]

(* README.md:71, "permanently failed deliveries quarantined": without      *)
(* faults a failed notification leaves a row in the dead letter queue.     *)
(* The code does not have this property: see the run Unquarantined.        *)
FailedIsQuarantined == \A t \in Payments : Failed(t) /\ faults = 0 => RowsOf(t) # {}

(* It has it once Insert returns the id.                                   *)
FailedIsQuarantinedOnceRepaired == "returning id" \in build => FailedIsQuarantined

(* dlq_admin.go:91, "Mark the DLQ item as re-queued so it doesn't get      *)
(* retried concurrently / multiple times".  The code does not have this    *)
(* property: see the run ConcurrentRetry.                                  *)
OneRetryAtATime ==
  \A q, r \in Slots :
    /\ pc[q] \in {"notify", "post", "log", "enqueue", "resolve"}
    /\ pc[r] \in {"notify", "post", "log", "enqueue", "resolve"}
    /\ item[q].id = item[r].id
    => q = r

(* README.md:71, "permanently failed deliveries quarantined and retryable  *)
(* from the portal": a payment in the queue that has not been received can *)
(* be retried there (dlq.html:198 offers rows that are neither RESOLVED    *)
(* nor REQUEUED), or a worker is busy with it.  The code does not have     *)
(* this property: see the run StuckRequeued.                               *)
QuarantinedIsRetryable ==
  \A t \in Payments :
    RowsOf(t) # {} /\ <<t, Owner[t]>> \notin received =>
      \/ \E i \in RowsOf(t) : delivery_dlq[i].status = "FAILED"
      \/ \E r \in Slots : pc[r] # "idle" /\ item[r].id \in RowsOf(t)

(* A notification that begins ends: the payment is received or             *)
(* quarantined, unless a fault took the goroutine or the row away, or no   *)
(* row can be stored in this build.                                        *)
ReceivedOrQuarantined ==
  \A t \in Payments :
    pc[t] = "post" ~> \/ <<t, Owner[t]>> \in received
                     \/ RowsOf(t) # {}
                     \/ faults > 0
                     \/ "returning id" \notin build
=============================================================================
