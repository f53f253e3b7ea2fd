-------------------------------- MODULE Reads --------------------------------
(***************************************************************************)
(* What a merchant reads through the API while webhooks and deliveries     *)
(* keep adding rows: it pages through its payments or its dead letters,    *)
(* or looks up an order, a payment, its delivery attempts, the metrics.    *)
(*                                                                         *)
(* Clients only read, so they do not affect each other and one is enough:  *)
(* it either pages or looks up, one request at a time.  A request is the   *)
(* statement of RequireAPIKey and then those of its handler.  Rows are in  *)
(* a set; a query says in which order it returns them.                     *)
(***************************************************************************)
EXTENDS Integers, SequencesExt

CONSTANTS
  Merchants,   \* the ids of the rows of merchants
  Payments,    \* the rows of transactions to come, with created_at = 0
  Letters,     \* the rows of delivery_dlq to come, with created_at = 0;
               \* EnqueueDLQ writes them FAILED
  Instants,    \* the values of created_at
  Clients,     \* who reads, what, with which filter and page size;
               \* ListDLQ has no filter
  AnyStatus,   \* no filter, status = ""
  NoReply,     \* the request is not answered yet
  Builds,      \* the sets of repairs the program can be built with
  MaxLogs,     \* bound on the rows of delivery_logs
  MaxFaults    \* bound on the database errors

(* Three lines make reads fail, or find nothing, that should not: GetByID  *)
(* does not select merchant_id, which stays 0; ListDLQ scans resolved_at,  *)
(* NULL in each row that is not RESOLVED, into a time.Time; and the        *)
(* notifier's log rows have no MerchantID, which a foreign key refuses.    *)
(* The build {} is the program as it is.                                   *)
Repairs == {"select merchant_id", "nullable resolved_at", "log merchant"}

TxStatus == {"PENDING", "SUCCESSFUL", "FAILED"}
DLQStatus == {"FAILED", "REQUEUED", "RESOLVED"}

(* id stands for provider_tx_id, UNIQUE, and for the BIGSERIAL id;         *)
(* external_id is 0 in a dead letter, which has none.                      *)
Row == [id : Nat, merchant_id : Merchants, external_id : Nat,
        status : TxStatus \union DLQStatus, created_at : Nat]

Client == [merchant_id : Merchants, reads : {"transactions", "delivery_dlq", "lookups"},
           status : {AnyStatus} \union TxStatus, limit : Nat \ {0}]

ASSUME RowsAssumption ==
  /\ Payments \subseteq Row /\ Letters \subseteq Row
  /\ \A p, q \in Payments : p.id = q.id => p = q
  /\ \A p, q \in Letters : p.id = q.id => p = q
  /\ \A p \in Payments : p.status \in TxStatus
  /\ \A p \in Letters : p.status = "FAILED"
  /\ Clients \subseteq Client /\ Instants \subseteq Nat
  /\ \A c \in Clients : c.reads = "delivery_dlq" => c.status = AnyStatus
  /\ Builds \subseteq SUBSET Repairs
  /\ MaxLogs \in Nat /\ MaxFaults \in Nat

VARIABLES
  rows,           \* table delivery_dlq if that is what the client reads,
                  \* table transactions if not
  delivery_logs,  \* the transaction_id of each row of delivery_logs
  active,         \* merchants.active of the client
  client,         \* the client, one of Clients; never changes
  pc,             \* the next statement of the client's request
  asked,          \* its handler, and the id or the order it asks for
  known,          \* the payments and the rows of delivery_logs it asks
                  \* for, as they were when it was sent (history)
  reply,          \* the last reply
  page,           \* the page the client asks for next
  listed,         \* the ids of the rows the pages have shown
  wanted,         \* the ids of its rows when it began to page (history)
  complete,       \* a page was short: it has reached the end
  cut,            \* a page was cut short by an error (history)
  faults,         \* the faults that have happened
  build           \* the repairs this program is built with; never changes

tables == <<rows, delivery_logs, active>>
request == <<pc, asked, known, reply>>
listing == <<page, listed, wanted, complete, cut>>
vars == <<tables, client, request, listing, faults, build>>

Handlers == {"List", "GetTransaction", "GetDeliveryLogs", "GetByExternalID", "Metrics"}

Ids(S) == {t.id : t \in S}

TypeOK ==
  /\ rows \subseteq Row
  /\ \A t \in rows :
       t.status \in (IF client.reads = "delivery_dlq" THEN DLQStatus ELSE TxStatus)
  /\ delivery_logs \in Seq(Nat)
  /\ \A i \in DOMAIN delivery_logs : delivery_logs[i] \in Ids(rows)  \* FOREIGN KEY
  /\ active \in BOOLEAN
  /\ pc \in Handlers \union {"idle", "auth", "logs"}
  /\ asked.handler \in Handlers /\ asked.id \in Nat
  /\ reply = NoReply \/ reply.code \in {200, 401, 404, 500}
  /\ page \in Nat \ {0}
  /\ listed \subseteq Nat /\ wanted \subseteq Nat
  /\ complete \in BOOLEAN /\ cut \in BOOLEAN
  /\ faults \in 0..MaxFaults
  /\ client \in Clients /\ build \in Builds

----------------------------------------------------------------------------
(* The queries.                                                            *)

(* The rows of every merchant.                                             *)
SelectedUnscoped(S, m, status) == {t \in S : status \in {AnyStatus, t.status}}

(* WHERE merchant_id = $1, and the filter if there is one.                 *)
Selected(S, m, status) ==
  {t \in S : t.merchant_id = m /\ status \in {AnyStatus, t.status}}

(* ORDER BY created_at DESC: rows of one instant come in any order.        *)
NewestFirst(S) ==
  {s \in SetToSeqs(S) :
    \A i, j \in DOMAIN s : i < j => s[i].created_at >= s[j].created_at}

(* The rows of s from position first + 1, limit of them at most.           *)
Slice(s, limit, first) ==
  SubSeq(s, first + 1, IF first + limit < Len(s) THEN first + limit ELSE Len(s))

(* Pages counted from zero.                                                *)
PageFromZero(s, limit, n) == Slice(s, limit, n * limit)

(* LIMIT limit OFFSET (page - 1) * limit                                   *)
Page(s, limit, n) == Slice(s, limit, (n - 1) * limit)

(* A payment as GetByID hands it to the handlers.                          *)
GetByID(id) ==
  {[t EXCEPT !.merchant_id = IF "select merchant_id" \in build THEN @ ELSE 0] :
    t \in {u \in rows : u.id = id}}

OfClient(S) == {t \in S : t.merchant_id = client.merchant_id}

OfOrder(S, order) == {t \in OfClient(S) : t.external_id = order}

(* ORDER BY created_at: the first payment of an order.                     *)
OldestOfOrder(order) ==
  {t \in OfOrder(rows, order) :
    \A u \in OfOrder(rows, order) : t.created_at <= u.created_at}

(* The rows that ORDER BY created_at DESC LIMIT 1 can return.              *)
GetByExternalID(order) ==
  {t \in OfOrder(rows, order) :
    \A u \in OfOrder(rows, order) : t.created_at >= u.created_at}

(* The rows of logs about a payment.                                       *)
LogsOf(logs, id) == {i \in DOMAIN logs : logs[i] = id}

(* COUNT( * ), and the SUCCESSFUL and the FAILED of them.                  *)
GetMetrics(S) ==
  [status \in {AnyStatus, "SUCCESSFUL", "FAILED"} |->
    Cardinality(Selected(S, client.merchant_id, status))]

(* rows.Scan of a row in a list.                                           *)
Scannable(t) ==
  \/ client.reads # "delivery_dlq"
  \/ "nullable resolved_at" \in build
  \/ t.status = "RESOLVED"

----------------------------------------------------------------------------
(* The rest of the program, which adds rows.                               *)

(* created_at is when the INSERT began: a row can become visible after     *)
(* rows that began later.                                                  *)
Insert(p, now) ==
  /\ p \in (IF client.reads = "delivery_dlq" THEN Letters ELSE Payments)
  /\ p.id \notin Ids(rows)
  /\ rows' = rows \union {[p EXCEPT !.created_at = now]}
  /\ UNCHANGED <<delivery_logs, active, client, request, listing, faults, build>>

(* MarkDLQRequeued and ResolveDLQ; a payment never changes.                *)
UpdateDLQ(t, status) ==
  /\ client.reads = "delivery_dlq"
  /\ rows' = (rows \ {t}) \union {[t EXCEPT !.status = status]}
  /\ UNCHANGED <<delivery_logs, active, client, request, listing, faults, build>>

(* The row is of the transaction as the webhook's handler has it, whose ID *)
(* nobody has set, and no foreign key refuses it.                          *)
InsertDeliveryLogUnset(t) ==
  /\ client.reads = "lookups"
  /\ Len(delivery_logs) < MaxLogs
  /\ delivery_logs' = Append(delivery_logs, 0)
  /\ UNCHANGED <<rows, active, client, request, listing, faults, build>>

(* A row the notifier writes of an attempt, if the foreign keys let it.    *)
InsertDeliveryLog(t) ==
  /\ client.reads = "lookups" /\ "log merchant" \in build
  /\ Len(delivery_logs) < MaxLogs
  /\ delivery_logs' = Append(delivery_logs, t.id)
  /\ UNCHANGED <<rows, active, client, request, listing, faults, build>>

SetMerchantActive ==
  /\ active' = ~active
  /\ UNCHANGED <<rows, delivery_logs, client, request, listing, faults, build>>

----------------------------------------------------------------------------
(* The client and the handlers.                                            *)

NoFault == faults' = faults
Fault == faults < MaxFaults /\ faults' = faults + 1

Answer(code, body) ==
  /\ pc' = "idle"
  /\ reply' = [code |-> code, body |-> body]

(* The client's payments that a request asks for.                          *)
PaymentsFor(handler, id) ==
  CASE handler = "Metrics" -> OfClient(rows)
    [] handler = "GetByExternalID" -> OfOrder(rows, id)
    [] handler \in {"GetTransaction", "GetDeliveryLogs"} ->
         {t \in OfClient(rows) : t.id = id}

(* What the tables hold about a request.                                   *)
Stored(handler, id) ==
  [payments |-> PaymentsFor(handler, id),
   logs |-> IF handler = "GetDeliveryLogs" THEN LogsOf(delivery_logs, id) ELSE {}]

(* The client sends a request.                                             *)
Request(handler, id) ==
  /\ pc = "idle"
  /\ pc' = "auth"
  /\ asked' = [handler |-> handler, id |-> id]
  /\ reply' = NoReply

(* It asks for the next page until a page is short, and for the same page  *)
(* again after an error.                                                   *)
TurnPage ==
  /\ client.reads # "lookups" /\ ~complete
  /\ Request("List", 0)
  /\ wanted' = IF page = 1 THEN Ids(Selected(rows, client.merchant_id, client.status))
               ELSE wanted
  /\ UNCHANGED <<tables, client, known, page, listed, complete, cut, faults, build>>

LookUp(handler, id) ==
  /\ client.reads = "lookups"
  /\ Request(handler, id)
  /\ known' = Stored(handler, id)
  /\ UNCHANGED <<tables, client, listing, faults, build>>

(* GetMerchantByAPIKey, of the client's key.                               *)
RequireAPIKey ==
  /\ pc = "auth"
  /\ \/ active /\ NoFault /\ pc' = asked.handler /\ UNCHANGED reply
     \/ /\ Fault \/ (~active /\ NoFault)
        /\ Answer(401, {})
  /\ UNCHANGED <<tables, client, asked, known, listing, build>>

(* A payment that was not successful is hidden.                            *)
OwnSuccessful(id) ==
  {t \in GetByID(id) : t.merchant_id = client.merchant_id /\ t.status = "SUCCESSFUL"}

(* transaction.MerchantID != merchant.ID is a 404.                         *)
Own(id) == {t \in GetByID(id) : t.merchant_id = client.merchant_id}

GetTransaction ==
  /\ pc = "GetTransaction"
  /\ \/ Fault /\ Answer(404, {})
     \/ NoFault /\ Answer(IF Own(asked.id) = {} THEN 404 ELSE 200, Own(asked.id))
  /\ UNCHANGED <<tables, client, asked, known, listing, build>>

(* GetDeliveryLogs up to its second query.                                 *)
GetDeliveryLogs ==
  /\ pc = "GetDeliveryLogs"
  /\ \/ Fault /\ Answer(404, {})
     \/ NoFault /\ Own(asked.id) = {} /\ Answer(404, {})
     \/ NoFault /\ Own(asked.id) # {} /\ pc' = "logs" /\ UNCHANGED reply
  /\ UNCHANGED <<tables, client, asked, known, listing, build>>

(* Store.GetDeliveryLogs.  rows.Err() is not looked at: of an error while  *)
(* the rows are read, newest first, only the absence of the others tells.  *)
QueryDeliveryLogs ==
  /\ pc = "logs"
  /\ \/ Fault /\ Answer(500, {})
     \/ NoFault /\ Answer(200, LogsOf(delivery_logs, asked.id))
     \/ Fault /\ \E n \in DOMAIN delivery_logs :
          Answer(200, {i \in LogsOf(delivery_logs, asked.id) : i > n})
  /\ UNCHANGED <<tables, client, asked, known, listing, build>>

(* ListTransactions with external_id.                                      *)
LookUpOrder ==
  /\ pc = "GetByExternalID"
  /\ \/ Fault /\ Answer(404, {})
     \/ NoFault /\ GetByExternalID(asked.id) = {} /\ Answer(404, {})
     \/ NoFault /\ \E t \in GetByExternalID(asked.id) : Answer(200, {t})
  /\ UNCHANGED <<tables, client, asked, known, listing, build>>

(* ListTransactions without external_id, and ListDLQ, up to n rows: the    *)
(* query or the scan of a row fails, or all rows of the page are read, or  *)
(* an error ends the reading early and rows.Err() is not looked at.        *)
List ==
  /\ pc = "List"
  /\ \E s \in NewestFirst(Selected(rows, client.merchant_id, client.status)) :
       LET p == Page(s, client.limit, page)
           readable(n) == \A i \in 1..n : Scannable(p[i])
       IN \/ /\ Fault \/ (~readable(Len(p)) /\ NoFault)
             /\ Answer(500, {}) /\ UNCHANGED listing
          \/ \E n \in 0..Len(p) :
               /\ IF n < Len(p) THEN Fault ELSE NoFault
               /\ readable(n)
               /\ Answer(200, {})
               /\ listed' = listed \union {p[i].id : i \in 1..n}
               /\ cut' = (cut \/ n < Len(p))
               /\ complete' = (n < client.limit)
               /\ page' = IF n < client.limit THEN page ELSE page + 1
               /\ UNCHANGED wanted
  /\ UNCHANGED <<tables, client, asked, known, build>>

Metrics ==
  /\ pc = "Metrics"
  /\ \/ Fault /\ Answer(500, {})
     \/ NoFault /\ Answer(200, GetMetrics(rows))
  /\ UNCHANGED <<tables, client, asked, known, listing, build>>

Init ==
  /\ rows = {} /\ delivery_logs = <<>> /\ active = TRUE
  /\ client \in Clients
  /\ pc = "idle" /\ reply = NoReply
  /\ known = [payments |-> {}, logs |-> {}]
  /\ asked = [handler |-> "List", id |-> 0]
  /\ page = 1 /\ listed = {} /\ wanted = {} /\ complete = FALSE /\ cut = FALSE
  /\ faults = 0
  /\ build \in Builds

Next ==
  \/ \E p \in Payments \union Letters, now \in Instants : Insert(p, now)
  \/ \E t \in rows, status \in {"REQUEUED", "RESOLVED"} : UpdateDLQ(t, status)
  \/ \E t \in rows : InsertDeliveryLog(t)
  \/ SetMerchantActive
  \/ TurnPage
  \/ \E p \in Payments, handler \in {"GetTransaction", "GetDeliveryLogs"} :
       LookUp(handler, p.id)
  \/ \E p \in Payments : LookUp("GetByExternalID", p.external_id)
  \/ LookUp("Metrics", 0)
  \/ RequireAPIKey
  \/ GetTransaction \/ GetDeliveryLogs \/ QueryDeliveryLogs \/ LookUpOrder
  \/ List \/ Metrics

Spec == Init /\ [][Next]_vars

----------------------------------------------------------------------------
(* Properties.                                                             *)

SharesInstant(id) ==
  \E t, u \in rows :
    /\ t.id = id /\ u.id # id
    /\ t.merchant_id = u.merchant_id /\ t.created_at = u.created_at

(* A client that pages until a page is short has been shown every row that *)
(* was there when it began, although OFFSET counts from a moving start:    *)
(* rows are only added, whatever their created_at, so a row only moves to  *)
(* later pages.  Excepted are rows of one instant, whose order may change  *)
(* between two pages, and a page an error cut short, which looks like the  *)
(* last one.                                                               *)
PagingComplete ==
  complete /\ ~cut => \A id \in wanted \ listed : SharesInstant(id)

Answered(handlers) ==
  reply # NoReply /\ reply.code = 200 /\ asked.handler \in handlers

(* README.md:82, "Every merchant is an isolated tenant": no list, payment  *)
(* or order shows another merchant's row, nor one the filter excludes.     *)
OwnRowsOnly ==
  /\ \A t \in rows : t.id \in listed =>
       /\ t.merchant_id = client.merchant_id
       /\ client.status \in {AnyStatus, t.status}
  /\ Answered({"GetTransaction", "GetByExternalID"}) =>
       \A t \in reply.body : t.merchant_id = client.merchant_id

(* A reply tells of a moment between its request and now: the metrics have *)
(* counted what was stored before, an order is shown by its latest payment *)
(* and never by an older one, and no attempt is missing from a payment's   *)
(* deliveries unless an error cut them short.                              *)
ReplyIsCurrent ==
  /\ Answered({"Metrics"}) => \A status \in DOMAIN reply.body :
       /\ GetMetrics(known.payments)[status] <= reply.body[status]
       /\ reply.body[status] <= GetMetrics(rows)[status]
  /\ Answered({"GetByExternalID"}) =>
       \A t \in reply.body, u \in known.payments : t.created_at >= u.created_at
  /\ Answered({"GetDeliveryLogs"}) /\ faults = 0 =>
       known.logs \subseteq reply.body

(* handler.go:140, "Returns a single transaction scoped to the             *)
(* authenticated merchant": without errors, who asks for a payment that is *)
(* its own and stored, for its deliveries, though there are none yet, or   *)
(* for an order it has a payment of, is not told that there is none, even  *)
(* if it is deactivated while it asks.  Of the first two this holds once   *)
(* GetByID selects the owner; as it is, the owner is always told.          *)
OwnerCanReadOnceRepaired ==
  /\ reply # NoReply /\ reply.code = 404 /\ faults = 0
  /\ asked.handler \in {"GetTransaction", "GetDeliveryLogs"} =>
       "select merchant_id" \in build
  => known.payments = {}
=============================================================================
