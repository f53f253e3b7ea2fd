----------------------------- MODULE Ingestion -----------------------------
(***************************************************************************)
(* The path of a payment webhook through PayKit:                           *)
(*   POST /webhook/momo/:merchant_id                                       *)
(*     -> TierEnforcement -> HandleMoMoWebhook -> go NotifyMerchant        *)
(* together with the operations that change the rows it reads: merchant    *)
(* registration and the admin and portal updates.                          *)
(*                                                                         *)
(* Each request runs in a goroutine of its own (a handler).  One step of a *)
(* handler is at most one statement sent to Postgres, with the code that   *)
(* runs before the next one; the statements of different handlers          *)
(* interleave in any order.                                                *)
(***************************************************************************)
EXTENDS Store

CONSTANTS
  Handlers,      \* the webhook requests that can be in flight at a time
  Payloads,      \* the webhook requests a caller can make
  AllowedIPs,    \* the networks of ALLOWED_IPS, {} when it is not set
  NoPayload,     \* not a payload
  TxIds,         \* the non-empty values of transactionId
  NoTxId,        \* transactionId = ""
  Urls,          \* the values of webhook_url
  NoUrl,         \* webhook_url = "", one of Urls
  DefaultQuota,  \* max_monthly_calls of a new merchant (1000 in store.go)
  Quotas,        \* the values of max_monthly_calls an operator can set
  Window,        \* WEBHOOK_MAX_CLOCK_SKEW_SECONDS
  MaxMerchants,  \* bound on the merchants registered
  MaxTime,       \* bound on the clock
  MaxFaults      \* bound on the database errors, crashes and lost replies

MerchantIds == 1..MaxMerchants

(* What can be wrong with a request, in the order the code looks at it:    *)
(* :merchant_id is not a number, the body is not JSON, timestamp is empty  *)
(* or not RFC3339, X-Signature is missing or is not the HMAC of the body,  *)
(* externalId or amount is empty, a value does not fit its column.         *)
Defects == {"path", "json", "timestamp", "signature", "fields", "columns"}

(* momodto.WebhookPayload with the path parameter and the caller's address *)
(* (0 if it does not parse) and, in place of the bytes, the defects the    *)
(* checks would find in them.                                              *)
WebhookPayload ==
  [ip : Nat, merchant_id : MerchantIds, provider_tx_id : TxIds \union {NoTxId},
   status : TxStatus, timestamp : Nat, defects : SUBSET Defects]

ASSUME PayloadsAssumption ==
  /\ Payloads \subseteq WebhookPayload
  /\ NoPayload \notin Payloads
  /\ NoTxId \notin TxIds
  /\ AllowedIPs \subseteq SUBSET (Nat \ {0})

ASSUME BoundsAssumption ==
  /\ NoUrl \in Urls
  /\ DefaultQuota \in Nat \ {0}
  /\ Quotas \subseteq Nat \ {0}   \* binding:"required,min=1" in merchant.go
  /\ Window \in Nat
  /\ MaxMerchants \in Nat
  /\ MaxTime \in Nat
  /\ MaxFaults \in Nat

ASSUME HandlersAssumption == IsFiniteSet(Handlers) /\ Handlers # {}

VARIABLES
  merchants,     \* table merchants
  transactions,  \* table transactions
  pc,            \* the next step of each handler
  payload,       \* the request each handler serves
  webhookUrl,    \* webhook_url of the merchant TierEnforcement loaded
  code,          \* the HTTP status a handler is about to return, 0 before
  clock,         \* time.Now()
  jobs,          \* the arguments of every NotifyMerchant goroutine launched
  acked,         \* the payloads whose sender has received a 200
  faults,        \* the faults that have happened
  granted,       \* the largest quota each merchant has ever had (history)
  abandoned      \* the payments whose handler a crash stopped before it
                 \* could announce them (history)

database == <<merchants, transactions>>
requests == <<pc, payload, webhookUrl, code>>
vars == <<merchants, transactions, pc, payload, webhookUrl, code, clock, jobs,
          acked, faults, granted, abandoned>>

Steps == {"idle", "tier", "check", "replay", "insert", "count", "launch", "reply"}
Codes == {0, 200, 400, 401, 403, 404, 422, 429, 500}

(* What NotifyMerchant is called with.  Insert has no RETURNING id, so the *)
(* transaction it is handed has ID 0.                                      *)
Job == [id : {0}, provider_tx_id : TxIds, merchant_id : MerchantIds,
        status : TxStatus, webhook_url : Urls]

TypeOK ==
  /\ merchants \in Seq(MerchantRow(Urls)) /\ Len(merchants) <= MaxMerchants
  /\ transactions \in Seq(TransactionRow(TxIds, MerchantIds))
  /\ pc \in [Handlers -> Steps]
  /\ payload \in [Handlers -> Payloads \union {NoPayload}]
  /\ webhookUrl \in [Handlers -> Urls]
  /\ code \in [Handlers -> Codes]
  /\ clock \in 0..MaxTime
  /\ jobs \in Seq(Job)
  /\ acked \in SUBSET Payloads
  /\ faults \in 0..MaxFaults
  /\ granted \in Seq(Nat) /\ Len(granted) = Len(merchants)
  /\ abandoned \in SUBSET TxIds

----------------------------------------------------------------------------
(* CreateMerchant and the operations that update a merchant's row.  Each   *)
(* is one statement; when it fails the row is as before.                   *)

CreateMerchant(url) ==
  /\ Len(merchants) < MaxMerchants
  /\ merchants' = Append(merchants, NewMerchant(url, DefaultQuota))
  /\ granted' = Append(granted, DefaultQuota)
  /\ UNCHANGED <<transactions, requests, clock, jobs, acked, faults, abandoned>>

(* PUT /merchants/webhook-url, which takes a non-empty URL.  RequireAPIKey  *)
(* admitted m while it was active; by now it may have been deactivated.    *)
UpdateMerchantWebhookURL(m, url) ==
  /\ m \in DOMAIN merchants
  /\ url # NoUrl
  /\ merchants' = [merchants EXCEPT ![m].webhook_url = url]
  /\ UNCHANGED <<transactions, requests, clock, jobs, acked, faults, granted,
                 abandoned>>

SetMerchantActive(m, active) ==
  /\ m \in DOMAIN merchants
  /\ merchants' = [merchants EXCEPT ![m].active = active]
  /\ UNCHANGED <<transactions, requests, clock, jobs, acked, faults, granted,
                 abandoned>>

UpdateMerchantQuota(m, quota) ==
  /\ m \in DOMAIN merchants
  /\ merchants' = [merchants EXCEPT ![m].max_monthly_calls = quota]
  /\ granted' = [granted EXCEPT ![m] = IF quota > @ THEN quota ELSE @]
  /\ UNCHANGED <<transactions, requests, clock, jobs, acked, faults, abandoned>>

----------------------------------------------------------------------------
(* Steps of a handler.                                                     *)

Goto(h, step) ==
  /\ pc' = [pc EXCEPT ![h] = step]
  /\ code' = code

Reply(h, status) ==
  /\ pc' = [pc EXCEPT ![h] = "reply"]
  /\ code' = [code EXCEPT ![h] = status]

NoFault == faults' = faults

(* A database error, a crash or a lost reply.                              *)
Fault == faults < MaxFaults /\ faults' = faults + 1

(* A request arrives: MTN may send any payload, again, at any time, while  *)
(* an earlier delivery of it is in flight, and after a 200.                *)
Send(h, p) ==
  /\ pc[h] = "idle"
  /\ pc' = [pc EXCEPT ![h] = "tier"]
  /\ payload' = [payload EXCEPT ![h] = p]
  /\ UNCHANGED <<database, webhookUrl, code, clock, jobs, acked, faults,
                 granted, abandoned>>

(* A limit that admits one call too many.                                  *)
WithinQuotaOffByOne(m) == m.current_month_calls <= m.max_monthly_calls

WithinQuota(m) == m.current_month_calls < m.max_monthly_calls

(* An address is refused unless ALLOWED_IPS is not set or a network of it  *)
(* contains the address.  An entry that does not parse is a network that   *)
(* contains none: with no other entry, every address is refused.           *)
IPWhitelist(p) == AllowedIPs = {} \/ \E network \in AllowedIPs : p.ip \in network

(* The request gets past IPWhitelist and names a merchant.                 *)
Addressed(p) == IPWhitelist(p) /\ "path" \notin p.defects

(* IPWhitelist, then TierEnforcement: an error of the query is answered    *)
(* like a merchant that is missing or inactive.                            *)
TierEnforcement(h) ==
  /\ pc[h] = "tier"
  /\ \/ /\ ~Addressed(payload[h])
        /\ Reply(h, IF IPWhitelist(payload[h]) THEN 400 ELSE 403)
        /\ NoFault /\ UNCHANGED webhookUrl
     \/ /\ Addressed(payload[h])
        /\ \/ Fault
           \/ GetMerchantByID(merchants, payload[h].merchant_id) = {} /\ NoFault
        /\ Reply(h, 404) /\ UNCHANGED webhookUrl
     \/ /\ Addressed(payload[h])
        /\ NoFault
        /\ \E m \in GetMerchantByID(merchants, payload[h].merchant_id) :
             \/ /\ ~WithinQuota(m)
                /\ Reply(h, 429) /\ UNCHANGED webhookUrl
             \/ /\ WithinQuota(m)
                /\ webhookUrl' = [webhookUrl EXCEPT ![h] = m.webhook_url]
                /\ Goto(h, "check")
  /\ UNCHANGED <<database, payload, clock, jobs, acked, granted, abandoned>>

(* |now - timestamp| <= Window.  A timestamp more than 292 years ahead,    *)
(* whose distance is no time.Duration, is left out.                        *)
Fresh(p) == clock - p.timestamp \in -Window..Window

(* A check that has lost its signature test.                               *)
IsGenuineUnsigned(p) == p.defects \cap {"json", "timestamp"} = {}

(* The payload decodes, carries a timestamp and is signed.                 *)
IsGenuine(p) == p.defects \cap {"json", "timestamp", "signature"} = {}

(* HandleMoMoWebhook up to the replay check: Unmarshal, CheckTimestamp,    *)
(* verifySignature.                                                        *)
CheckRequest(h) ==
  /\ pc[h] = "check"
  /\ IF "json" \in payload[h].defects THEN Reply(h, 400)
     ELSE IF ~IsGenuine(payload[h]) \/ ~Fresh(payload[h]) THEN Reply(h, 401)
     ELSE Goto(h, "replay")
  /\ UNCHANGED <<database, payload, webhookUrl, clock, jobs, acked, faults,
                 granted, abandoned>>

(* A duplicate is refused, as many a REST handler does.                    *)
ReplayRefused == 500

(* ErrReplay: "Return 200 - MTN retries on anything else".                 *)
ReplayCode == 200

(* checkReplay and, for a new transaction, FromWebhook.                    *)
CheckReplay(h) ==
  /\ pc[h] = "replay"
  /\ LET tx == payload[h].provider_tx_id IN
       \/ /\ tx = NoTxId
          /\ Reply(h, 500) /\ NoFault
       \/ /\ tx # NoTxId
          /\ Reply(h, 500) /\ Fault
       \/ /\ tx # NoTxId
          /\ NoFault
          /\ IF Exists(transactions, tx) THEN Reply(h, ReplayCode)
             ELSE IF "fields" \in payload[h].defects THEN Reply(h, 422)
             ELSE Goto(h, "insert")
  /\ UNCHANGED <<database, payload, webhookUrl, clock, jobs, acked, granted,
                 abandoned>>

(* FromWebhook forgets the status, and the column takes any text.          *)
RowOfNoStatus(p) == [provider_tx_id |-> p.provider_tx_id,
                     merchant_id |-> p.merchant_id, status |-> ""]

(* The row that FromWebhook and the handler make of a payload.             *)
RowOf(p) == [provider_tx_id |-> p.provider_tx_id,
             merchant_id |-> p.merchant_id, status |-> p.status]

(* The row lands even if another handler inserted its transaction first.   *)
InsertableTwice(p) == "columns" \notin p.defects

Insertable(p) ==
  /\ "columns" \notin p.defects
  /\ ConstraintsHold(merchants, transactions, RowOf(p))

(* An error of Insert is taken for the UNIQUE constraint at work.           *)
InsertErrorIsDuplicate == 200

(* "could not save transaction"                                            *)
InsertErrorCode == 500

(* Store.Insert.  A fault may lose the answer before or after Postgres has *)
(* committed the row; the handler replies 500 in both cases.               *)
Insert(h) ==
  /\ pc[h] = "insert"
  /\ \/ /\ Fault \/ (~Insertable(payload[h]) /\ NoFault)
        /\ Reply(h, InsertErrorCode)
        /\ UNCHANGED transactions
     \/ /\ Insertable(payload[h])
        /\ transactions' = Append(transactions, RowOf(payload[h]))
        /\ \/ Goto(h, "count") /\ NoFault
           \/ Reply(h, InsertErrorCode) /\ Fault
  /\ UNCHANGED <<merchants, payload, webhookUrl, clock, jobs, acked, granted,
                 abandoned>>

(* The statement is tried again when its outcome is unknown.               *)
IncrementRetried(h) ==
  /\ pc[h] = "count"
  /\ merchants' =
       [merchants EXCEPT ![payload[h].merchant_id].current_month_calls = @ + 1]
  /\ \/ Goto(h, "launch") /\ NoFault
     \/ Goto(h, "count") /\ Fault
  /\ UNCHANGED <<transactions, payload, webhookUrl, clock, jobs, acked,
                 granted, abandoned>>

(* An error of the counter is answered 500, as an error of Insert is.      *)
IncrementOrRefuse(h) ==
  /\ pc[h] = "count"
  /\ \/ /\ merchants' =
             [merchants EXCEPT ![payload[h].merchant_id].current_month_calls = @ + 1]
        /\ Goto(h, "launch") /\ NoFault
     \/ /\ merchants' = merchants
        /\ Reply(h, 500) /\ Fault
  /\ UNCHANGED <<transactions, payload, webhookUrl, clock, jobs, acked,
                 granted, abandoned>>

(* IncrementMerchantCallCount.  Its error is logged, nothing more.         *)
IncrementMerchantCallCount(h) ==
  /\ pc[h] = "count"
  /\ \/ /\ merchants' =
             [merchants EXCEPT ![payload[h].merchant_id].current_month_calls = @ + 1]
        /\ NoFault \/ Fault
     \/ merchants' = merchants /\ Fault
  /\ Goto(h, "launch")
  /\ UNCHANGED <<transactions, payload, webhookUrl, clock, jobs, acked,
                 granted, abandoned>>

(* go payments.NotifyMerchant(h.store, merchant, transaction)              *)
Launch(h) ==
  /\ pc[h] = "launch"
  /\ jobs' = Append(jobs,
       [id |-> 0,
        provider_tx_id |-> payload[h].provider_tx_id,
        merchant_id |-> payload[h].merchant_id,
        status |-> payload[h].status,
        webhook_url |-> webhookUrl[h]])
  /\ Reply(h, 200)
  /\ UNCHANGED <<database, payload, webhookUrl, clock, acked, faults, granted,
                 abandoned>>

Idle(h) ==
  /\ pc' = [pc EXCEPT ![h] = "idle"]
  /\ payload' = [payload EXCEPT ![h] = NoPayload]
  /\ webhookUrl' = [webhookUrl EXCEPT ![h] = NoUrl]
  /\ code' = [code EXCEPT ![h] = 0]

(* The reply reaches the caller, or is lost on the way.                    *)
Respond(h) ==
  /\ pc[h] = "reply"
  /\ \/ /\ acked' = IF code[h] = 200 THEN acked \union {payload[h]} ELSE acked
        /\ NoFault
     \/ acked' = acked /\ Fault
  /\ Idle(h)
  /\ UNCHANGED <<database, clock, jobs, granted, abandoned>>

(* h has inserted the row of tx and has not launched its notification.     *)
Holds(h, tx) ==
  pc[h] \in {"count", "launch"} /\ payload[h].provider_tx_id = tx

(* The process stops and is started again: the requests in flight vanish.  *)
Crash ==
  /\ Fault
  /\ abandoned' = abandoned \union {tx \in TxIds : \E h \in Handlers : Holds(h, tx)}
  /\ pc' = [h \in Handlers |-> "idle"]
  /\ payload' = [h \in Handlers |-> NoPayload]
  /\ webhookUrl' = [h \in Handlers |-> NoUrl]
  /\ code' = [h \in Handlers |-> 0]
  /\ UNCHANGED <<database, clock, jobs, acked, granted>>

Tick ==
  /\ clock < MaxTime
  /\ clock' = clock + 1
  /\ UNCHANGED <<database, requests, jobs, acked, faults, granted, abandoned>>

----------------------------------------------------------------------------
Init ==
  /\ merchants = <<>> /\ transactions = <<>> /\ granted = <<>>
  /\ pc = [h \in Handlers |-> "idle"]
  /\ payload = [h \in Handlers |-> NoPayload]
  /\ webhookUrl = [h \in Handlers |-> NoUrl]
  /\ code = [h \in Handlers |-> 0]
  /\ clock = 0 /\ jobs = <<>> /\ acked = {} /\ faults = 0 /\ abandoned = {}

(* One step of the request that h serves.                                  *)
Handle(h) ==
  \/ TierEnforcement(h) \/ CheckRequest(h) \/ CheckReplay(h) \/ Insert(h)
  \/ IncrementMerchantCallCount(h) \/ Launch(h) \/ Respond(h)

Next ==
  \/ \E url \in Urls : CreateMerchant(url)
  \/ \E m \in MerchantIds, url \in Urls : UpdateMerchantWebhookURL(m, url)
  \/ \E m \in MerchantIds, active \in BOOLEAN : SetMerchantActive(m, active)
  \/ \E m \in MerchantIds, quota \in Quotas : UpdateMerchantQuota(m, quota)
  \/ \E h \in Handlers, p \in Payloads : Send(h, p)
  \/ \E h \in Handlers : Handle(h)
  \/ Crash
  \/ Tick

Spec == Init /\ [][Next]_vars

(* A goroutine that can run does, and MTN keeps sending what has not been  *)
(* answered 200.  Nothing is assumed of operators, time or faults.         *)
Fairness ==
  /\ \A h \in Handlers : WF_vars(Handle(h))
  /\ \A p \in Payloads : SF_vars(\E h \in Handlers : p \notin acked /\ Send(h, p))

FairSpec == Spec /\ Fairness
----------------------------------------------------------------------------
(* Properties.                                                             *)

(* h has admitted a request of merchant m and not counted it yet.          *)
Admitted(m) ==
  {h \in Handlers : /\ pc[h] \in {"check", "replay", "insert", "count"}
                    /\ payload[h].merchant_id = m}

(* TierEnforcement reads the counter that IncrementMerchantCallCount       *)
(* raises four steps later, so the limit can be exceeded; but never by     *)
(* more than the requests that can be in flight beside the last one        *)
(* admitted, counting those that are still on their way.                   *)
QuotaOvershootBounded ==
  \A m \in DOMAIN merchants :
    merchants[m].current_month_calls + Cardinality(Admitted(m))
      <= granted[m] + Cardinality(Handlers) - 1

(* README.md:286, "At 100%, new webhook ingestion is paused".  The code    *)
(* does not have this property: see the run QuotaRace.                     *)
QuotaNeverExceeded ==
  \A m \in DOMAIN merchants : merchants[m].current_month_calls <= granted[m]

Counting(m) == {h \in Handlers : pc[h] = "count" /\ payload[h].merchant_id = m}

RowsOf(m) == {i \in DOMAIN transactions : transactions[i].merchant_id = m}

(* A merchant is billed at most one call for each of its transactions      *)
(* stored, however often MTN repeats a webhook and whatever fails: each    *)
(* row is counted once, by the handler that inserted it.                   *)
NeverOvercharged ==
  \A m \in DOMAIN merchants :
    merchants[m].current_month_calls + Cardinality(Counting(m))
      <= Cardinality(RowsOf(m))

(* A 200 means the payment is stored: neither an insertion that failed nor *)
(* a verification error may be answered 200.                               *)
AcknowledgedIsRecorded ==
  \A p \in acked : Exists(transactions, p.provider_tx_id)

(* Two handlers that both found the transaction new before either inserted *)
(* it do not both notify the merchant: one is stopped by the UNIQUE column.*)
OneNotificationPerTransaction ==
  \A i, j \in DOMAIN jobs :
    jobs[i].provider_tx_id = jobs[j].provider_tx_id => i = j

Launched(tx) == \E i \in DOMAIN jobs : jobs[i].provider_tx_id = tx

(* Recorded transactions that no handler will ever announce.               *)
Orphans ==
  {tx \in TxIds : /\ Exists(transactions, tx)
                  /\ ~Launched(tx)
                  /\ \A h \in Handlers : ~Holds(h, tx)}

(* Only a crash, or an INSERT that Postgres commits and cannot answer,     *)
(* makes an orphan.  No error path of the handler does, the counter's      *)
(* included, and no interleaving of handlers.                              *)
OrphanedByFaultOnly ==
  [][\A tx \in Orphans' \ Orphans :
       \/ tx \in abandoned'
       \/ faults' > faults /\ ~Exists(transactions, tx)]_vars

(* docs/PROJECT_OVERVIEW.md:85, "Duplicate webhooks are detected and       *)
(* silently acknowledged with 200 OK so MTN does not retry unnecessarily": *)
(* a genuine webhook of a recorded transaction is not answered an error by *)
(* the checks that precede the replay check.  The code does not have this  *)
(* property: see the run DuplicateRefused.                                 *)
DuplicatesAcknowledged ==
  [][\A h \in Handlers :
       /\ pc[h] \in {"tier", "check"} /\ pc'[h] = "reply"
       /\ IPWhitelist(payload[h]) /\ payload[h].defects = {} /\ faults' = faults
       /\ Exists(transactions, payload[h].provider_tx_id)
       => code'[h] = 200]_vars

(* docs/USAGE_GUIDE.md:323, "PayKit sends a notification to your           *)
(* webhook_url after every successful payment": once MTN has been answered *)
(* 200 for a successful payment, a handler holds its notification or has   *)
(* launched it.  The code does not have this property: see the run         *)
(* FrozenStatus.                                                           *)
SuccessfulPaymentNotified ==
  \A p \in acked :
    p.status = "SUCCESSFUL" =>
      \/ \E h \in Handlers : /\ Holds(h, p.provider_tx_id)
                            /\ payload[h].status = "SUCCESSFUL"
      \/ \E i \in DOMAIN jobs : /\ jobs[i].provider_tx_id = p.provider_tx_id
                               /\ jobs[i].status = "SUCCESSFUL"

(* A payload that every check passes while its merchant is active, below   *)
(* its limit, and the clock is within its window.                          *)
Open(p) ==
  /\ IPWhitelist(p) /\ p.defects = {} /\ p.provider_tx_id # NoTxId /\ Fresh(p)
  /\ \E m \in GetMerchantByID(merchants, p.merchant_id) : WithinQuota(m)

(* MTN, which sends again what is not answered 200, does not send for      *)
(* ever: a payload that stays open is acknowledged, whatever is lost on    *)
(* the way and whichever handler recorded it.                              *)
EventuallyAcknowledged ==
  \A p \in Payloads : <>[]Open(p) => <>(p \in acked)

(* A handler that has stored a payment announces it, though its counter    *)
(* cannot be updated or its merchant is deactivated meanwhile; unless the  *)
(* process stops before it can.                                            *)
RecordedIsAnnounced ==
  \A tx \in TxIds :
    (\E h \in Handlers : Holds(h, tx)) ~> (Launched(tx) \/ tx \in abandoned)

----------------------------------------------------------------------------
(* Ingestion implements PaymentLedger: the ledger is the table, the        *)
(* announcements are the goroutines launched, and what MTN has signed and  *)
(* sent from its networks is genuine.                                      *)

Rows == {transactions[i] : i \in DOMAIN transactions}

SignedRows ==
  {RowOf(p) : p \in {q \in Payloads : IPWhitelist(q) /\ "signature" \notin q.defects}}

Ledger == INSTANCE PaymentLedger WITH
  Genuine <- SignedRows,
  recorded <- Rows,
  announced <- [i \in DOMAIN jobs |-> RowOf(jobs[i])],
  acknowledged <- {p.provider_tx_id : p \in acked}

(* Every payment is recorded once and from a signed webhook, announced at  *)
(* most once and with the status and merchant recorded, and acknowledged   *)
(* only when recorded; no row ever changes.                                *)
RefinesLedger == Ledger!Spec
=============================================================================
