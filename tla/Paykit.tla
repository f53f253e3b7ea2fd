-------------------------------- MODULE Paykit --------------------------------
(***************************************************************************)
(* The program: webhooks are taken in as Ingestion says, and each payment  *)
(* stored is told to its merchant's app as Delivery says.  The two share   *)
(* the tables, the process, and the call go payments.NotifyMerchant.       *)
(*                                                                         *)
(* A payment of Delivery is a row of transactions, which its               *)
(* provider_tx_id makes unique; what Delivery has as constants are columns *)
(* of the row.                                                             *)
(***************************************************************************)
EXTENDS Ingestion

CONSTANTS
  Slots,       \* the retry requests that can be in progress at a time
  NoId,        \* the ID 0 of a transaction that no row has
  NoJob,       \* not a job
  NoItem,      \* not a request for a row
  Builds,      \* the sets of repairs the program can be built with
  MaxRetries   \* bound on the retry requests

(* The rows that a webhook can make.                                       *)
PossibleRows == {RowOf(p) : p \in Payloads}

VARIABLES
  delivery_logs, delivery_dlq, worker, job, attempt, delivered, item, posts,
  received, retries, build

deliveryVars == <<delivery_logs, delivery_dlq, worker, job, attempt, delivered,
                  item, posts, received, retries, build>>

(* Ingestion's variables but the one that both components count.           *)
ingestionVars == <<database, requests, clock, jobs, acked, granted, abandoned>>

allVars == <<vars, deliveryVars>>

(* The columns of merchants that the notifier and the retries read.        *)
urls == [m \in MerchantIds |->
          IF m \in DOMAIN merchants THEN merchants[m].webhook_url ELSE NoUrl]
activity == [m \in MerchantIds |-> m \in DOMAIN merchants /\ merchants[m].active]

Delivery == INSTANCE Delivery WITH
  Payments <- PossibleRows,
  Merchants <- MerchantIds,
  Owner <- [t \in PossibleRows |-> t.merchant_id],
  Successful <- {t \in PossibleRows : t.status = "SUCCESSFUL"},
  webhookUrl <- urls,
  active <- activity,
  pc <- worker

ASSUME NotifierAssumption ==
  /\ NoId \notin PossibleRows
  /\ Slots \cap PossibleRows = {} /\ IsFiniteSet(Slots)
  /\ Builds \subseteq SUBSET Delivery!Repairs
  /\ MaxRetries \in Nat

----------------------------------------------------------------------------
(* The handler replies and starts no notifier.                             *)
NotifyForgotten(h) == Launch(h) /\ UNCHANGED deliveryVars

(* The notifier is started before the row is stored.                       *)
NotifyEarly(h) ==
  \/ /\ Launch(h) /\ UNCHANGED deliveryVars
  \/ /\ pc[h] = "insert" /\ worker[RowOf(payload[h])] = "idle"
     /\ UNCHANGED vars
     /\ Delivery!Launch(RowOf(payload[h]), webhookUrl[h])

(* The handler hands the row it stored, and the merchant it was given, to  *)
(* a notifier.                                                             *)
Notify(h) ==
  /\ Launch(h)
  /\ Delivery!Launch(RowOf(payload[h]), webhookUrl[h])

Serve(h) ==
  /\ \/ TierEnforcement(h) \/ CheckRequest(h) \/ CheckReplay(h) \/ Insert(h)
     \/ IncrementMerchantCallCount(h) \/ Respond(h)
  /\ UNCHANGED deliveryVars

(* MTN sends a webhook, or time passes.                                    *)
Await ==
  /\ (\E h \in Handlers, p \in Payloads : Send(h, p)) \/ Tick
  /\ UNCHANGED deliveryVars

(* The operator's and the portal's updates of merchants.                   *)
Administer ==
  /\ \/ \E m \in MerchantIds, url \in Urls : UpdateMerchantWebhookURL(m, url)
     \/ \E m \in MerchantIds, a \in BOOLEAN : SetMerchantActive(m, a)
     \/ \E m \in MerchantIds, quota \in Quotas : UpdateMerchantQuota(m, quota)
  /\ UNCHANGED deliveryVars

Work(w) == UNCHANGED ingestionVars /\ Delivery!Run(w)

Retry ==
  /\ UNCHANGED <<ingestionVars, faults>>
  /\ \E r \in Slots, m \in MerchantIds, id \in 1..(Len(delivery_dlq) + 1) :
       Delivery!Request(r, m, id)

(* Requests and goroutines end together.                                   *)
Stop == Crash /\ Delivery!Crash

(* The merchants have registered; Ingestion has them register.             *)
PaykitInit ==
  /\ merchants \in [MerchantIds -> {NewMerchant(url, DefaultQuota) : url \in Urls}]
  /\ granted = [m \in MerchantIds |-> DefaultQuota]
  /\ transactions = <<>>
  /\ pc = [h \in Handlers |-> "idle"]
  /\ payload = [h \in Handlers |-> NoPayload]
  /\ webhookUrl = [h \in Handlers |-> NoUrl]
  /\ code = [h \in Handlers |-> 0]
  /\ clock = 0 /\ jobs = <<>> /\ acked = {} /\ abandoned = {}
  /\ Delivery!Init

PaykitNext ==
  \/ Await
  \/ \E h \in Handlers : Serve(h) \/ Notify(h)
  \/ \E w \in Delivery!Workers : Work(w)
  \/ Retry
  \/ Administer
  \/ Stop

PaykitSpec == PaykitInit /\ [][PaykitNext]_allVars

(* The goroutines that can run do: the handlers', the notifiers', and the  *)
(* retries'.  Nothing is assumed of senders, apps, operators or faults.    *)
FairPaykit ==
  /\ PaykitSpec
  /\ \A h \in Handlers : WF_allVars(Serve(h) \/ Notify(h))
  /\ \A w \in Delivery!Workers : WF_allVars(Work(w))

----------------------------------------------------------------------------
(* Properties.                                                             *)

(* End to end: an app hears of a payment only if it is stored, SUCCESSFUL, *)
(* the app's merchant's, and from a webhook that MTN has signed.           *)
HeardIsGenuine ==
  \A d \in received :
    /\ d[1] \in Rows \cap SignedRows
    /\ d[1].status = "SUCCESSFUL"
    /\ d[1].merchant_id = d[2]

(* No payment is told for nothing: but for faults, each payment that has   *)
(* reached its merchant's app has been counted.                            *)
HeardIsBilled ==
  \A m \in DOMAIN merchants :
    Cardinality({d \in received : d[2] = m}) <= merchants[m].current_month_calls + faults

Settled(t) ==
  \/ <<t, t.merchant_id>> \in received
  \/ Delivery!RowsOf(t) # {}
  \/ job[t] # NoJob /\ job[t].webhook_url = NoUrl
  \/ faults > 0 \/ "returning id" \notin build

(* End to end: a SUCCESSFUL payment that is stored reaches its merchant's  *)
(* app or the dead letter queue; unless the merchant had no URL when it    *)
(* came in, or something failed.  This needs Insert to return the id: see  *)
(* the run Unquarantined.                                                  *)
StoredIsSettled ==
  \A t \in {row \in SignedRows : row.status = "SUCCESSFUL"} :
    t \in Rows ~> Settled(t)
=============================================================================
