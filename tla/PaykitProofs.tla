---------------------------- MODULE PaykitProofs ----------------------------
(***************************************************************************)
(* Theorems about Paykit.  Each of its steps is a step of Ingestion, a     *)
(* step of Delivery, or both, and looks to the other component like one of *)
(* the environment: the two inductive invariants carry over, and three     *)
(* invariants of the composition tie the goroutines to the webhooks.       *)
(***************************************************************************)
EXTENDS Paykit, LedgerProofs, BillingProofs

(* The theorems of Delivery, about the notifiers of Paykit.                *)
Notifier == INSTANCE AuditProofs WITH
  Payments <- PossibleRows,
  Merchants <- MerchantIds,
  Owner <- [t \in PossibleRows |-> t.merchant_id],
  Successful <- {t \in PossibleRows : t.status = "SUCCESSFUL"},
  webhookUrl <- urls,
  active <- activity,
  pc <- worker

(* What DeliveryProofs assumes of the constants.                           *)
LEMMA NotifierPayments == Notifier!PaymentsAssumption
<1>1. \A t \in PossibleRows : t.merchant_id \in MerchantIds
  BY PayloadsAssumption DEF PossibleRows, RowOf, WebhookPayload
<1>2. MerchantIds \subseteq Nat \ {0}
  BY BoundsAssumption DEF MerchantIds
<1>3. [t \in PossibleRows |-> t.merchant_id] \in [PossibleRows -> MerchantIds]
  BY <1>1
<1>4. {t \in PossibleRows : t.status = "SUCCESSFUL"} \subseteq PossibleRows
  OBVIOUS
<1> QED
  BY <1>2, <1>3, <1>4, NotifierAssumption, Zenon
  DEF Notifier!PaymentsAssumption, Notifier!IsFiniteSet, IsFiniteSet

LEMMA NotifierSettings == Notifier!SettingsAssumption
BY NotifierAssumption, BoundsAssumption
DEF Notifier!SettingsAssumption, Notifier!Repairs, Delivery!Repairs

----------------------------------------------------------------------------
(* The inductive invariant.                                                *)

(* The rows for which a notification has been launched.                    *)
Notified == {RowOf(jobs[i]) : i \in DOMAIN jobs}

(* A goroutine that has been used belongs to a job of Ingestion, and is    *)
(* for a webhook that MTN has signed.                                      *)
LinkInv ==
  /\ \A t \in PossibleRows : worker[t] # "idle" => t \in Notified
  /\ Notified \subseteq SignedRows

JobsOf(m) == {i \in DOMAIN jobs : jobs[i].merchant_id = m}

Launching(m) == {h \in Handlers : pc[h] = "launch" /\ payload[h].merchant_id = m}

(* Each notification launched, or about to be, has been counted; a count   *)
(* is lost by a fault only.                                                *)
CountedInv ==
  \A m \in DOMAIN merchants :
    Cardinality(JobsOf(m)) + Cardinality(Launching(m))
      <= merchants[m].current_month_calls + faults

WebhookInv == IInv /\ AllowedInv /\ NeverOvercharged /\ CountedInv

NotifierInv == Notifier!IInv /\ Notifier!LaunchedInv /\ Notifier!PaidInv

PaykitInv == WebhookInv /\ NotifierInv /\ LinkInv

----------------------------------------------------------------------------
(* The webhook side.                                                       *)

(* A step leaves the counter of faults, or adds one.                       *)
LEMMA FaultsGrow ==
  ASSUME [Next]_vars
  PROVE  faults' \in {faults, faults + 1}
<1> USE DEF NoFault, Fault
<1>1. ASSUME NEW h \in Handlers, Handle(h) PROVE faults' \in {faults, faults + 1}
  <2>1. CASE TierEnforcement(h) \/ CheckRequest(h) \/ CheckReplay(h)
    BY <2>1 DEF TierEnforcement, CheckRequest, CheckReplay
  <2>2. CASE Insert(h) \/ IncrementMerchantCallCount(h)
    BY <2>2 DEF Insert, IncrementMerchantCallCount
  <2>3. CASE Launch(h) \/ Respond(h)
    BY <2>3 DEF Launch, Respond
  <2> QED
    BY <1>1, <2>1, <2>2, <2>3 DEF Handle
<1>2. CASE \/ \E url \in Urls : CreateMerchant(url)
           \/ \E m \in MerchantIds, url \in Urls : UpdateMerchantWebhookURL(m, url)
           \/ \E m \in MerchantIds, a \in BOOLEAN : SetMerchantActive(m, a)
           \/ \E m \in MerchantIds, quota \in Quotas : UpdateMerchantQuota(m, quota)
  BY <1>2 DEF CreateMerchant, UpdateMerchantWebhookURL, SetMerchantActive,
              UpdateMerchantQuota
<1>3. CASE UNCHANGED vars \/ Crash \/ Tick \/ \E h \in Handlers, p \in Payloads : Send(h, p)
  BY <1>3 DEF vars, Crash, Tick, Send
<1> QED
  BY <1>1, <1>2, <1>3 DEF Next

(* Both sides of CountedInv are sizes of finite sets.                      *)
LEMMA CountedSets ==
  ASSUME TypeInv, NEW m
  PROVE  /\ IsFiniteSet(JobsOf(m)) /\ Cardinality(JobsOf(m)) \in Nat
         /\ IsFiniteSet(Launching(m)) /\ Cardinality(Launching(m)) \in Nat
<1>1. Launching(m) \subseteq Handlers
  BY DEF Launching
<1>2. DOMAIN jobs = 1..Len(jobs) /\ Len(jobs) \in Nat
  BY DEF TypeInv, TypeOK
<1>3. JobsOf(m) \subseteq 1..Len(jobs) /\ IsFiniteSet(1..Len(jobs))
  BY <1>2, FS_Interval DEF JobsOf
<1> QED
  BY <1>1, <1>3, HandlersAssumption, FS_Subset, FS_CardinalityType

LEMMA FaultNumber ==
  ASSUME TypeInv
  PROVE  faults \in Nat
BY BoundsAssumption DEF TypeInv, TypeOK

(* A step that launches nothing, brings no handler to the launch and takes *)
(* no call back keeps the bound.                                           *)
LEMMA CountedKept ==
  ASSUME TypeInv, CountedInv,
         jobs' = jobs, faults' \in {faults, faults + 1},
         DOMAIN merchants' = DOMAIN merchants,
         \A m \in DOMAIN merchants :
           merchants'[m].current_month_calls = merchants[m].current_month_calls,
         \A m \in DOMAIN merchants : Launching(m)' \subseteq Launching(m)
  PROVE  CountedInv'
<1>1. ASSUME NEW m \in DOMAIN merchants
      PROVE  Cardinality(JobsOf(m)') + Cardinality(Launching(m)')
               <= merchants'[m].current_month_calls + faults'
  <2>1. JobsOf(m)' = JobsOf(m)
    BY DEF JobsOf
  <2>2. Cardinality(Launching(m)') <= Cardinality(Launching(m))
        /\ Cardinality(Launching(m)') \in Nat
    BY CountedSets, FS_Subset, FS_CardinalityType
  <2> QED
    BY <2>1, <2>2, CountedSets, MerchantNumbers, FaultNumber DEF CountedInv
<1> QED
  BY <1>1 DEF CountedInv

(* The handler comes to the launch with a call counted or a fault.         *)
LEMMA CountedIncrement ==
  ASSUME TypeInv, CountedInv, NEW h \in Handlers, IncrementMerchantCallCount(h)
  PROVE  CountedInv'
<1> PICK k : k = payload[h].merchant_id
  OBVIOUS
<1> USE DEF Goto
<1>1. k \in DOMAIN merchants
  BY DEF IncrementMerchantCallCount, TypeInv, ServedTypeOK, Admission
<1>2. /\ jobs' = jobs /\ DOMAIN merchants' = DOMAIN merchants
      /\ \A m \in DOMAIN merchants \ {k} :
           merchants'[m].current_month_calls = merchants[m].current_month_calls
      /\ faults' \in {faults, faults + 1}
      /\ merchants'[k].current_month_calls + faults'
           >= merchants[k].current_month_calls + faults + 1
  BY <1>1, SelectMerchant, MerchantNumbers, FaultNumber
  DEF IncrementMerchantCallCount, TypeInv, MerchantRow, NoFault, Fault
<1>3. /\ pc[h] = "count" /\ pc'[h] = "launch" /\ payload' = payload
      /\ \A g \in Handlers \ {h} : pc'[g] = pc[g]
  BY DEF IncrementMerchantCallCount, TypeInv, TypeOK
<1>4. merchants'[k].current_month_calls \in Nat
  BY <1>1, SelectMerchant, MerchantNumbers DEF IncrementMerchantCallCount, TypeInv, MerchantRow
<1>5. ASSUME NEW m \in DOMAIN merchants
      PROVE  Cardinality(JobsOf(m)') + Cardinality(Launching(m)')
               <= merchants'[m].current_month_calls + faults'
  <2>1. /\ Cardinality(JobsOf(m)) + Cardinality(Launching(m))
             <= merchants[m].current_month_calls + faults
        /\ JobsOf(m)' = JobsOf(m)
    BY <1>2 DEF CountedInv, JobsOf
  <2>2. CASE m = k
    <3>1. h \notin Launching(m) /\ Launching(m)' = Launching(m) \union {h}
      BY <1>3, <2>2 DEF Launching
    <3>2. Cardinality(Launching(m)') = Cardinality(Launching(m)) + 1
      BY <3>1, CountedSets, FS_AddElement
    <3> QED
      BY <1>2, <1>4, <2>1, <2>2, <3>2, CountedSets, MerchantNumbers, FaultNumber
  <2>3. CASE m # k
    <3>1. Launching(m)' = Launching(m)
      BY <1>3, <2>3 DEF Launching
    <3> QED
      BY <1>2, <2>1, <2>3, <3>1, CountedSets, MerchantNumbers, FaultNumber
  <2> QED
    BY <2>2, <2>3
<1> QED
  BY <1>2, <1>5 DEF CountedInv

(* A handler that launches moves from one side of the sum to the other.    *)
LEMMA CountedLaunch ==
  ASSUME TypeInv, CountedInv, NEW h \in Handlers, Launch(h)
  PROVE  CountedInv'
<1> PICK job_ : job_ = [id |-> 0,
        provider_tx_id |-> payload[h].provider_tx_id,
        merchant_id |-> payload[h].merchant_id,
        status |-> payload[h].status,
        webhook_url |-> webhookUrl[h]]
  OBVIOUS
<1> DEFINE n == Len(jobs) + 1
<1>1. /\ pc[h] = "launch" /\ pc'[h] = "reply" /\ payload' = payload
      /\ \A g \in Handlers \ {h} : pc'[g] = pc[g]
      /\ merchants' = merchants /\ faults' = faults
      /\ jobs' = Append(jobs, job_)
  BY DEF Launch, Reply, database, TypeInv, TypeOK
<1>2. job_ \in Job /\ job_.merchant_id = payload[h].merchant_id
  <2>1. payload[h] \in Payloads /\ payload[h].provider_tx_id \in TxIds /\ webhookUrl[h] \in Urls
    BY <1>1 DEF TypeInv, TypeOK, ServedTypeOK
  <2> QED
    BY <2>1, PayloadType DEF Job
<1>3. jobs \in Seq(Job)
  BY DEF TypeInv, TypeOK
<1>4. /\ DOMAIN jobs' = DOMAIN jobs \union {n}
      /\ \A i \in DOMAIN jobs : jobs'[i] = jobs[i]
      /\ jobs'[n] = job_ /\ n \notin DOMAIN jobs
  BY <1>1, <1>2, <1>3, AppendRow
<1> HIDE DEF n
<1>5. ASSUME NEW m \in DOMAIN merchants
      PROVE  Cardinality(JobsOf(m)') + Cardinality(Launching(m)')
               = Cardinality(JobsOf(m)) + Cardinality(Launching(m))
  <2>1. CASE m = payload[h].merchant_id
    <3>1. JobsOf(m)' = JobsOf(m) \union {n} /\ n \notin JobsOf(m)
      BY <1>2, <1>4, <2>1 DEF JobsOf
    <3>2. h \in Launching(m) /\ Launching(m)' = Launching(m) \ {h}
      BY <1>1, <2>1 DEF Launching
    <3>3. Cardinality(JobsOf(m)') = Cardinality(JobsOf(m)) + 1
      BY <3>1, CountedSets, FS_AddElement
    <3>4. Cardinality(Launching(m)') = Cardinality(Launching(m)) - 1
      BY <3>2, CountedSets, FS_RemoveElement
    <3> QED
      BY <3>3, <3>4, CountedSets
  <2>2. CASE m # payload[h].merchant_id
    <3>1. JobsOf(m)' = JobsOf(m) /\ Launching(m)' = Launching(m)
      BY <1>1, <1>2, <1>4, <2>2 DEF JobsOf, Launching
    <3> QED
      BY <3>1
  <2> QED
    BY <2>1, <2>2
<1> QED
  BY <1>1, <1>5 DEF CountedInv

(* The steps of Ingestion, but for registrations.                          *)
LEMMA CountedNext ==
  ASSUME TypeInv, CountedInv, [Next]_vars, DOMAIN merchants' = DOMAIN merchants
  PROVE  CountedInv'
<1> USE DEF database, requests, Goto, Reply
<1>1. CASE UNCHANGED vars \/ Tick \/ Crash
  BY <1>1, CountedKept, FaultsGrow DEF vars, Tick, Crash, Launching
<1>2. ASSUME NEW h \in Handlers, NEW p \in Payloads, Send(h, p)
      PROVE  CountedInv'
  BY <1>2, CountedKept, FaultsGrow DEF Send, Launching, TypeInv, TypeOK
<1>3. ASSUME NEW h \in Handlers, Handle(h)
      PROVE  CountedInv'
  <2>1. CASE \/ TierEnforcement(h) \/ CheckRequest(h) \/ CheckReplay(h)
             \/ Insert(h) \/ Respond(h)
    <3>1. /\ UNCHANGED <<merchants, jobs>>
          /\ pc'[h] # "launch"
          /\ \A g \in Handlers \ {h} : pc'[g] = pc[g] /\ payload'[g] = payload[g]
      BY <2>1 DEF TierEnforcement, CheckRequest, CheckReplay, Insert, Respond, Idle,
                  TypeInv, TypeOK
    <3> QED
      BY <3>1, CountedKept, FaultsGrow DEF Launching
  <2> QED
    BY <1>3, <2>1, CountedIncrement, CountedLaunch DEF Handle
<1>4. CASE \/ \E m \in MerchantIds, url \in Urls : UpdateMerchantWebhookURL(m, url)
           \/ \E m \in MerchantIds, active \in BOOLEAN : SetMerchantActive(m, active)
           \/ \E m \in MerchantIds, quota \in Quotas : UpdateMerchantQuota(m, quota)
  <2>1. \A m \in DOMAIN merchants :
          merchants'[m].current_month_calls = merchants[m].current_month_calls
    BY <1>4, SelectMerchant DEF UpdateMerchantWebhookURL, SetMerchantActive,
         UpdateMerchantQuota, TypeInv, MerchantRow
  <2>2. UNCHANGED <<pc, payload, jobs>>
    BY <1>4 DEF UpdateMerchantWebhookURL, SetMerchantActive, UpdateMerchantQuota
  <2> QED
    BY <2>1, <2>2, CountedKept, FaultsGrow DEF Launching
<1>5. ~ \E url \in Urls : CreateMerchant(url)
  <2> SUFFICES ASSUME NEW url \in Urls, CreateMerchant(url) PROVE FALSE
    OBVIOUS
  <2>1. /\ merchants \in Seq(MerchantRow(Urls))
        /\ NewMerchant(url, DefaultQuota) \in MerchantRow(Urls)
    BY BoundsAssumption DEF TypeInv, TypeOK, NewMerchant, MerchantRow
  <2>2. Len(merchants) + 1 \in DOMAIN merchants' /\ Len(merchants) + 1 \notin DOMAIN merchants
    BY <2>1, AppendRow DEF CreateMerchant
  <2> QED
    BY <2>2
<1> QED
  BY <1>1, <1>2, <1>3, <1>4, <1>5 DEF Next

LEMMA WebhookNext ==
  ASSUME WebhookInv, [Next]_vars, DOMAIN merchants' = DOMAIN merchants
  PROVE  WebhookInv'
<1>1. IInv'
  BY TypeNext, SafetyNext DEF WebhookInv, IInv
<1>2. AllowedInv' /\ NeverOvercharged' /\ CountedInv'
  BY AllowedNext, BillingNext, CountedNext DEF WebhookInv, IInv
<1> QED
  BY <1>1, <1>2 DEF WebhookInv

(* A step of a notifier: to Ingestion, it can only count a fault.          *)
LEMMA WebhookFault ==
  ASSUME WebhookInv, UNCHANGED ingestionVars,
         faults' \in {faults, faults + 1}, faults' \in 0..MaxFaults
  PROVE  WebhookInv'
<1> USE DEF ingestionVars, database, requests
<1>1. TypeInv'
  BY DEF WebhookInv, IInv, TypeInv, TypeOK, ServedTypeOK
<1>2. SafetyInv'
  BY SafetyKept DEF WebhookInv, IInv
<1>3. AllowedInv'
  BY DEF WebhookInv, AllowedInv
<1>4. NeverOvercharged'
  BY DEF WebhookInv, NeverOvercharged, Counting, RowsOf
<1>5. CountedInv'
  BY CountedKept DEF WebhookInv, IInv, Launching
<1> QED
  BY <1>1, <1>2, <1>3, <1>4, <1>5 DEF WebhookInv, IInv

LEMMA WebhookInit == PaykitInit => WebhookInv
<1> SUFFICES ASSUME PaykitInit PROVE WebhookInv
  OBVIOUS
<1> USE DEF PaykitInit
<1>1. /\ merchants \in Seq(MerchantRow(Urls)) /\ Len(merchants) = MaxMerchants
      /\ granted \in Seq(Nat) /\ Len(granted) = MaxMerchants
      /\ \A m \in DOMAIN merchants : merchants[m].current_month_calls = 0
      /\ faults = 0
  <2>1. \A url \in Urls : /\ NewMerchant(url, DefaultQuota) \in MerchantRow(Urls)
                          /\ NewMerchant(url, DefaultQuota).current_month_calls = 0
    BY BoundsAssumption DEF NewMerchant, MerchantRow
  <2>2. merchants \in [1..MaxMerchants -> MerchantRow(Urls)] /\ MaxMerchants \in Nat
    BY <2>1, BoundsAssumption DEF MerchantIds
  <2>3. granted \in [1..MaxMerchants -> Nat]
    BY BoundsAssumption DEF MerchantIds
  <2>4. \A m \in DOMAIN merchants : merchants[m].current_month_calls = 0
    BY <2>1, <2>2 DEF MerchantIds
  <2>5. faults = 0
    BY DEF Delivery!Init
  <2> QED
    BY <2>2, <2>3, <2>4, <2>5
<1>2. TypeInv
  BY <1>1, BoundsAssumption DEF TypeInv, TypeOK, ServedTypeOK, Steps, Codes, Admission
<1>3. SafetyInv
  BY DEF SafetyInv, UniqueTransactions, Established, Holding, OneHolder,
         JobsMatchRows, OneNotificationPerTransaction, AcknowledgedIsRecorded
<1>4. AllowedInv
  BY DEF AllowedInv, Admission
<1>5. \A m : Counting(m) = {} /\ RowsOf(m) = {} /\ JobsOf(m) = {} /\ Launching(m) = {}
  BY DEF Counting, RowsOf, JobsOf, Launching
<1> HIDE DEF PaykitInit
<1>6. ASSUME NEW m
      PROVE  /\ Cardinality(Counting(m)) = 0 /\ Cardinality(RowsOf(m)) = 0
             /\ Cardinality(JobsOf(m)) = 0 /\ Cardinality(Launching(m)) = 0
  BY ONLY <1>5, FS_EmptySet
<1>7. NeverOvercharged /\ CountedInv
  BY <1>1, <1>6 DEF NeverOvercharged, CountedInv
<1> QED
  BY <1>2, <1>3, <1>4, <1>7 DEF WebhookInv, IInv

----------------------------------------------------------------------------
(* The notifier's side.                                                    *)

(* Delivery of Paykit is the module that DeliveryProofs is about.          *)
LEMMA SameInit == Delivery!Init => Notifier!Init
BY DEF Delivery!Init, Notifier!Init, Delivery!Workers, Notifier!Workers

LEMMA SameLaunch ==
  ASSUME NEW t, NEW url, Delivery!Launch(t, url)
  PROVE  Notifier!Launch(t, url)
BY DEF Delivery!Launch, Notifier!Launch, Delivery!Goto, Notifier!Goto,
       Delivery!tables, Notifier!tables

LEMMA SameRequest ==
  ASSUME NEW r, NEW m, NEW id, Delivery!Request(r, m, id)
  PROVE  Notifier!Request(r, m, id)
BY DEF Delivery!Request, Notifier!Request, Delivery!Goto, Notifier!Goto,
       Delivery!tables, Notifier!tables

LEMMA SameCrash == Delivery!Crash => Notifier!Crash
BY DEF Delivery!Crash, Notifier!Crash, Delivery!Workers, Notifier!Workers,
       Delivery!Fault, Notifier!Fault, Delivery!tables, Notifier!tables

LEMMA SameRun ==
  ASSUME NEW w, Delivery!Run(w)
  PROVE  Notifier!Run(w)
<1> USE DEF Delivery!NoFault, Notifier!NoFault, Delivery!Fault, Notifier!Fault,
        Delivery!Goto, Notifier!Goto, Delivery!tables, Notifier!tables,
        Delivery!Free, Notifier!Free, Delivery!Write, Notifier!Write,
        Delivery!ReferencesHold, Notifier!ReferencesHold,
        Delivery!InsertRow, Notifier!InsertRow
<1>1. ASSUME NEW ok, Delivery!Return(w, ok) PROVE Notifier!Return(w, ok)
  BY <1>1 DEF Delivery!Return, Notifier!Return
<1>2. CASE Delivery!Begin(w)
  BY <1>1, <1>2 DEF Delivery!Begin, Notifier!Begin, Delivery!Notifiable,
       Notifier!Notifiable, Notifier!Run
<1>3. CASE Delivery!Post(w)
  BY <1>3 DEF Delivery!Post, Notifier!Post, Notifier!Run
<1>4. CASE Delivery!LogAttempt(w)
  BY <1>1, <1>4 DEF Delivery!LogAttempt, Notifier!LogAttempt,
       Delivery!InsertDeliveryLog, Notifier!InsertDeliveryLog,
       Delivery!LogStatus, Notifier!LogStatus,
       Delivery!NextAttempt, Notifier!NextAttempt, Notifier!Run
<1>5. CASE Delivery!EnqueueDLQ(w)
  BY <1>1, <1>5 DEF Delivery!EnqueueDLQ, Notifier!EnqueueDLQ, Notifier!Run
<1>6. CASE w \in Slots /\ Delivery!GetDLQ(w)
  BY <1>6 DEF Delivery!GetDLQ, Notifier!GetDLQ, Delivery!Found, Notifier!Found,
       Notifier!Run
<1>7. CASE w \in Slots /\ Delivery!MarkDLQRequeued(w)
  BY <1>7 DEF Delivery!MarkDLQRequeued, Notifier!MarkDLQRequeued, Notifier!Run
<1>8. CASE w \in Slots /\ Delivery!LoadMerchant(w)
  BY <1>8 DEF Delivery!LoadMerchant, Notifier!LoadMerchant, Notifier!Run
<1>9. CASE w \in Slots /\ Delivery!LoadTransaction(w)
  BY <1>9 DEF Delivery!LoadTransaction, Notifier!LoadTransaction, Notifier!Run
<1>10. CASE w \in Slots /\ Delivery!ResolveDLQ(w)
  BY <1>10 DEF Delivery!ResolveDLQ, Notifier!ResolveDLQ, Notifier!Run
<1> QED
  BY <1>2, <1>3, <1>4, <1>5, <1>6, <1>7, <1>8, <1>9, <1>10 DEF Delivery!Run

LEMMA SameProperties ==
  /\ Delivery!Workers = Notifier!Workers
  /\ Notifier!DeliveredToOwner <=> Delivery!DeliveredToOwner
  /\ Notifier!ResolvedWasReceived <=> Delivery!ResolvedWasReceived
BY DEF Delivery!Workers, Notifier!Workers, Delivery!DeliveredToOwner,
       Notifier!DeliveredToOwner, Delivery!ResolvedWasReceived, Notifier!ResolvedWasReceived

(* A step of the rest of Paykit is one of the notifiers' environment.      *)
LEMMA NotifierEnvironment ==
  ASSUME NotifierInv, TypeInv', UNCHANGED deliveryVars
  PROVE  NotifierInv'
<1>1. /\ merchants' \in Seq(MerchantRow(Urls)) /\ faults' \in 0..MaxFaults
  BY DEF TypeInv, TypeOK
<1>2. \A m \in DOMAIN merchants' :
        merchants'[m].webhook_url \in Urls /\ merchants'[m].active \in BOOLEAN
  <2>1. \A m \in DOMAIN merchants' : merchants'[m] \in MerchantRow(Urls)
    BY <1>1
  <2> QED
    BY <2>1 DEF MerchantRow
<1>3. urls' \in [MerchantIds -> Urls] /\ activity' \in [MerchantIds -> BOOLEAN]
  BY <1>2, BoundsAssumption DEF urls, activity
<1>4. Notifier!Environment
  BY <1>1, <1>3 DEF Notifier!Environment, Notifier!tables, deliveryVars
<1>5. Notifier!IInv'
  BY <1>4, Notifier!EnvironmentIInv, NotifierPayments, NotifierSettings DEF NotifierInv
<1>6. Notifier!LaunchedInv'
  BY Notifier!LaunchedKept, NotifierPayments, NotifierSettings DEF NotifierInv, deliveryVars
<1>7. Notifier!PaidInv'
  BY Notifier!PaidUnmoved, NotifierPayments, NotifierSettings DEF NotifierInv, deliveryVars
<1> QED
  BY <1>5, <1>6, <1>7 DEF NotifierInv

LEMMA NotifierInit == PaykitInit => NotifierInv
<1>1. Notifier!Init => Notifier!IInv
  BY Notifier!InitIInv, NotifierPayments, NotifierSettings
<1>2. Notifier!Init => Notifier!LaunchedInv /\ Notifier!PaidInv
  BY Notifier!LettersInit, NotifierPayments, NotifierSettings
<1> QED
  BY <1>1, <1>2, SameInit DEF PaykitInit, NotifierInv

(* The steps of the notifiers and of the retries, and what they do to the  *)
(* goroutines of the notifiers.                                            *)
LEMMA NotifierRun ==
  ASSUME NotifierInv, NEW w \in Delivery!Workers, Delivery!Run(w)
  PROVE  /\ NotifierInv'
         /\ faults' \in {faults, faults + 1} /\ faults' \in 0..MaxFaults
         /\ \A t \in PossibleRows : worker'[t] # "idle" => worker[t] # "idle"
<1>1. w \in Notifier!Workers /\ Notifier!Run(w)
  BY SameRun, SameProperties
<1>2. [Notifier!Next]_(Notifier!vars)
  BY <1>1 DEF Notifier!Next
<1>3. Notifier!IInv'
  BY <1>2, Notifier!NextIInv, NotifierPayments, NotifierSettings DEF NotifierInv
<1>4. Notifier!LaunchedInv'
  BY <1>1, Notifier!LaunchedRun, NotifierPayments, NotifierSettings DEF NotifierInv
<1>5. faults' \in {faults, faults + 1}
  BY <1>2, Notifier!FaultsGrow, NotifierPayments, NotifierSettings
<1>6. faults' \in 0..MaxFaults
  BY <1>3 DEF Notifier!IInv, Notifier!TypeOK
<1>7. /\ \A v \in Notifier!Workers \ {w} : worker'[v] = worker[v]
      /\ worker[w] # "idle"
  BY <1>1, Notifier!RunMoves, Notifier!RunBusy, NotifierPayments, NotifierSettings DEF NotifierInv
<1>8. \A t \in PossibleRows : worker'[t] # "idle" => worker[t] # "idle"
  BY <1>7 DEF Notifier!Workers
<1>9. Notifier!PaidInv'
  BY <1>2, Notifier!PaidNext, NotifierPayments, NotifierSettings DEF NotifierInv
<1> QED
  BY <1>3, <1>4, <1>5, <1>6, <1>8, <1>9 DEF NotifierInv

LEMMA NotifierLaunch ==
  ASSUME NotifierInv, NEW t \in PossibleRows, NEW url \in Urls, Delivery!Launch(t, url)
  PROVE  /\ NotifierInv'
         /\ \A u \in PossibleRows : worker'[u] # "idle" => worker[u] # "idle" \/ u = t
<1>1. Notifier!Launch(t, url)
  BY SameLaunch
<1>2. Notifier!IInv'
  BY <1>1, Notifier!LaunchIInv, NotifierPayments, NotifierSettings DEF NotifierInv
<1>3. Notifier!LaunchedInv' /\ worker' = [worker EXCEPT ![t] = "notify"]
  BY <1>1, Notifier!LaunchedLaunch, NotifierPayments, NotifierSettings DEF NotifierInv
<1>4. worker \in [Notifier!Workers -> Notifier!Steps]
  BY DEF NotifierInv, Notifier!IInv, Notifier!TypeOK
<1>5. Notifier!PaidInv'
  BY <1>1, Notifier!PaidLaunch, NotifierPayments, NotifierSettings DEF NotifierInv
<1> QED
  BY <1>2, <1>3, <1>4, <1>5 DEF NotifierInv, Notifier!Workers

LEMMA NotifierRequest ==
  ASSUME NotifierInv, NEW r \in Slots, NEW m \in MerchantIds, NEW id \in Nat,
         Delivery!Request(r, m, id)
  PROVE  /\ NotifierInv'
         /\ \A t \in PossibleRows : worker'[t] = worker[t]
<1>1. Notifier!Request(r, m, id)
  BY SameRequest
<1>2. Notifier!IInv'
  BY <1>1, Notifier!RequestIInv, NotifierPayments, NotifierSettings DEF NotifierInv
<1>3. Notifier!LaunchedInv' /\ \A t \in PossibleRows : worker'[t] = worker[t]
  BY <1>1, Notifier!LaunchedRequest, NotifierPayments, NotifierSettings DEF NotifierInv
<1>4. Notifier!PaidInv'
  BY <1>1, Notifier!PaidRequest, NotifierPayments, NotifierSettings DEF NotifierInv
<1> QED
  BY <1>2, <1>3, <1>4 DEF NotifierInv

LEMMA NotifierCrash ==
  ASSUME NotifierInv, Delivery!Crash
  PROVE  /\ NotifierInv'
         /\ \A t \in PossibleRows : worker'[t] # "idle" => worker[t] # "idle"
<1>1. Notifier!Crash
  BY SameCrash
<1>2. Notifier!IInv'
  BY <1>1, Notifier!CrashIInv, NotifierPayments, NotifierSettings DEF NotifierInv
<1>3. /\ Notifier!LaunchedInv'
      /\ \A t \in PossibleRows : worker'[t] # "idle" <=> worker[t] # "idle"
  BY <1>1, Notifier!LaunchedCrash, NotifierPayments, NotifierSettings DEF NotifierInv
<1>4. Notifier!PaidInv'
  BY <1>1, Notifier!PaidCrash, NotifierPayments, NotifierSettings DEF NotifierInv
<1> QED
  BY <1>2, <1>3, <1>4 DEF NotifierInv

----------------------------------------------------------------------------
(* The steps of the composition.                                           *)

LEMMA LinkKept ==
  ASSUME LinkInv, jobs' = jobs,
         \A t \in PossibleRows : worker'[t] # "idle" => worker[t] # "idle"
  PROVE  LinkInv'
BY DEF LinkInv, Notified

LEMMA SameMerchants ==
  ASSUME TypeInv,
         \/ UNCHANGED vars \/ Tick \/ Crash
         \/ \E h \in Handlers, p \in Payloads : Send(h, p)
         \/ \E h \in Handlers : Handle(h)
         \/ \E m \in MerchantIds, url \in Urls : UpdateMerchantWebhookURL(m, url)
         \/ \E m \in MerchantIds, a \in BOOLEAN : SetMerchantActive(m, a)
         \/ \E m \in MerchantIds, quota \in Quotas : UpdateMerchantQuota(m, quota)
  PROVE  [Next]_vars /\ DOMAIN merchants' = DOMAIN merchants
<1>1. ASSUME NEW h \in Handlers, Handle(h) PROVE DOMAIN merchants' = DOMAIN merchants
  BY <1>1, TypeHandle
<1>2. CASE \/ UNCHANGED vars \/ Tick \/ Crash
           \/ \E h \in Handlers, p \in Payloads : Send(h, p)
  BY <1>2 DEF vars, Tick, Crash, Send, database, Next
<1>3. CASE \/ \E m \in MerchantIds, url \in Urls : UpdateMerchantWebhookURL(m, url)
           \/ \E m \in MerchantIds, a \in BOOLEAN : SetMerchantActive(m, a)
           \/ \E m \in MerchantIds, quota \in Quotas : UpdateMerchantQuota(m, quota)
  <2>1. DOMAIN merchants' = DOMAIN merchants
    BY <1>3 DEF UpdateMerchantWebhookURL, SetMerchantActive, UpdateMerchantQuota
  <2> QED
    BY <1>3, <2>1 DEF Next
<1> QED
  BY <1>1, <1>2, <1>3 DEF Next

(* A step of Ingestion that launches nothing.                              *)
LEMMA WebhookStep ==
  ASSUME PaykitInv, [Next]_vars, DOMAIN merchants' = DOMAIN merchants, jobs' = jobs,
         UNCHANGED deliveryVars
  PROVE  PaykitInv'
<1>1. WebhookInv'
  BY WebhookNext DEF PaykitInv
<1>2. NotifierInv'
  BY <1>1, NotifierEnvironment DEF PaykitInv, WebhookInv, IInv
<1>3. LinkInv'
  BY LinkKept DEF PaykitInv, deliveryVars
<1> QED
  BY <1>1, <1>2, <1>3 DEF PaykitInv

(* What a handler that is at the launch has established.                   *)
LEMMA AtLaunch ==
  ASSUME PaykitInv, NEW h \in Handlers, pc[h] = "launch"
  PROVE  /\ RowOf(payload[h]) \in PossibleRows /\ webhookUrl[h] \in Urls
         /\ RowOf(payload[h]) \in SignedRows \ Notified
<1>1. TypeInv /\ SafetyInv /\ AllowedInv
  BY DEF PaykitInv, WebhookInv, IInv
<1>2. payload[h] \in Payloads /\ webhookUrl[h] \in Urls
  BY <1>1 DEF TypeInv, TypeOK, ServedTypeOK
<1>3. IsGenuine(payload[h]) /\ IPWhitelist(payload[h])
  BY <1>1 DEF SafetyInv, Established, AllowedInv, Admission
<1>4. ~Launched(payload[h].provider_tx_id)
  BY <1>1 DEF SafetyInv, Established, Holding
<1>5. RowOf(payload[h]) \notin Notified
  BY <1>4 DEF Notified, Launched, RowOf
<1> QED
  BY <1>2, <1>3, <1>5, GenuineIsSigned DEF PossibleRows

LEMMA NotifyStep ==
  ASSUME PaykitInv, NEW h \in Handlers, Notify(h)
  PROVE  PaykitInv'
<1> DEFINE t == RowOf(payload[h])
<1>1. /\ Launch(h) /\ Delivery!Launch(t, webhookUrl[h])
      /\ pc[h] = "launch"
  BY DEF Notify, Launch
<1>2. t \in PossibleRows /\ webhookUrl[h] \in Urls /\ t \in SignedRows
  BY <1>1, AtLaunch
<1>3. WebhookInv'
  BY <1>1, SameMerchants, WebhookNext DEF PaykitInv, WebhookInv, IInv, Handle
<1>4. /\ NotifierInv'
      /\ \A u \in PossibleRows : worker'[u] # "idle" => worker[u] # "idle" \/ u = t
  BY <1>1, <1>2, NotifierLaunch DEF PaykitInv
<1>5. Notified' = Notified \union {t}
  <2> PICK job_ : job_ = [id |-> 0,
          provider_tx_id |-> payload[h].provider_tx_id,
          merchant_id |-> payload[h].merchant_id,
          status |-> payload[h].status,
          webhook_url |-> webhookUrl[h]]
    OBVIOUS
  <2>1. jobs' = Append(jobs, job_) /\ RowOf(job_) = t
    BY <1>1 DEF Launch, RowOf
  <2>2. jobs \in Seq(Job) /\ jobs' \in Seq(Job)
    BY <1>3 DEF PaykitInv, WebhookInv, IInv, TypeInv, TypeOK
  <2> HIDE DEF t
  <2>3. /\ DOMAIN jobs' = DOMAIN jobs \union {Len(jobs) + 1}
        /\ \A i \in DOMAIN jobs : jobs'[i] = jobs[i]
        /\ jobs'[Len(jobs) + 1] = job_
    BY <2>1, <2>2
  <2> QED
    BY <2>1, <2>3 DEF Notified
<1>6. LinkInv'
  BY <1>2, <1>4, <1>5 DEF PaykitInv, LinkInv, SignedRows, IPWhitelist
<1> QED
  BY <1>3, <1>4, <1>6 DEF PaykitInv

LEMMA WorkStep ==
  ASSUME PaykitInv, NEW w \in Delivery!Workers, Work(w)
  PROVE  PaykitInv'
<1>1. UNCHANGED ingestionVars /\ Delivery!Run(w)
  BY DEF Work
<1>2. /\ NotifierInv'
      /\ faults' \in {faults, faults + 1} /\ faults' \in 0..MaxFaults
      /\ \A t \in PossibleRows : worker'[t] # "idle" => worker[t] # "idle"
  BY <1>1, NotifierRun DEF PaykitInv
<1>3. WebhookInv'
  BY <1>1, <1>2, WebhookFault DEF PaykitInv
<1>4. LinkInv'
  BY <1>1, <1>2, LinkKept DEF PaykitInv, ingestionVars
<1> QED
  BY <1>2, <1>3, <1>4 DEF PaykitInv

LEMMA RetryStep ==
  ASSUME PaykitInv, Retry
  PROVE  PaykitInv'
<1>1. PICK r \in Slots, m \in MerchantIds, id \in 1..(Len(delivery_dlq) + 1) :
        Delivery!Request(r, m, id)
  BY DEF Retry
<1>2. UNCHANGED vars
  BY DEF Retry, ingestionVars, vars, database, requests
<1>3. id \in Nat
  <2>1. delivery_dlq \in Seq(Notifier!DLQRow)
    BY DEF PaykitInv, NotifierInv, Notifier!IInv, Notifier!TypeOK
  <2> QED
    BY <2>1
<1>4. NotifierInv' /\ \A t \in PossibleRows : worker'[t] = worker[t]
  BY <1>1, <1>3, NotifierRequest DEF PaykitInv
<1>5. WebhookInv'
  BY <1>2, SameMerchants, WebhookNext DEF PaykitInv, WebhookInv, IInv
<1>6. LinkInv'
  BY <1>2, <1>4, LinkKept DEF PaykitInv, vars
<1> QED
  BY <1>4, <1>5, <1>6 DEF PaykitInv

LEMMA StopStep ==
  ASSUME PaykitInv, Stop
  PROVE  PaykitInv'
<1>1. Crash /\ Delivery!Crash /\ jobs' = jobs
  BY DEF Stop, Crash
<1>2. /\ NotifierInv'
      /\ \A t \in PossibleRows : worker'[t] # "idle" => worker[t] # "idle"
  BY <1>1, NotifierCrash DEF PaykitInv
<1>3. WebhookInv'
  BY <1>1, SameMerchants, WebhookNext DEF PaykitInv, WebhookInv, IInv
<1>4. LinkInv'
  BY <1>1, <1>2, LinkKept DEF PaykitInv
<1> QED
  BY <1>2, <1>3, <1>4 DEF PaykitInv

LEMMA PaykitNextInv == PaykitInv /\ [PaykitNext]_allVars => PaykitInv'
<1> SUFFICES ASSUME PaykitInv, [PaykitNext]_allVars PROVE PaykitInv'
  OBVIOUS
<1>1. TypeInv
  BY DEF PaykitInv, WebhookInv, IInv
<1>2. CASE Await
  <2>1. UNCHANGED deliveryVars /\ jobs' = jobs
    BY <1>2 DEF Await, Send, Tick
  <2> QED
    BY <1>1, <1>2, <2>1, SameMerchants, WebhookStep DEF Await
<1>3. ASSUME NEW h \in Handlers, Serve(h) PROVE PaykitInv'
  <2>1. UNCHANGED deliveryVars /\ jobs' = jobs
    BY <1>3 DEF Serve, TierEnforcement, CheckRequest, CheckReplay, Insert,
                IncrementMerchantCallCount, Respond
  <2>2. Handle(h)
    BY <1>3 DEF Serve, Handle
  <2> QED
    BY <1>1, <2>1, <2>2, SameMerchants, WebhookStep
<1>4. CASE Administer
  <2>1. UNCHANGED deliveryVars /\ jobs' = jobs
    BY <1>4 DEF Administer, UpdateMerchantWebhookURL, SetMerchantActive, UpdateMerchantQuota
  <2> QED
    BY <1>1, <1>4, <2>1, SameMerchants, WebhookStep DEF Administer
<1>5. CASE UNCHANGED allVars
  <2>1. UNCHANGED deliveryVars /\ jobs' = jobs /\ UNCHANGED vars
    BY <1>5 DEF allVars, vars
  <2> QED
    BY <1>1, <2>1, SameMerchants, WebhookStep
<1> QED
  BY <1>2, <1>3, <1>4, <1>5, NotifyStep, WorkStep, RetryStep, StopStep DEF PaykitNext

LEMMA PaykitInvariance == PaykitSpec => []PaykitInv
<1>1. PaykitInit => PaykitInv
  <2> SUFFICES ASSUME PaykitInit PROVE PaykitInv
    OBVIOUS
  <2>1. LinkInv
    <3>1. \A t \in PossibleRows : worker[t] = "idle"
      BY DEF PaykitInit, Delivery!Init, Delivery!Workers
    <3>2. Notified = {}
      BY DEF PaykitInit, Notified
    <3> QED
      BY <3>1, <3>2 DEF LinkInv
  <2> QED
    BY <2>1, WebhookInit, NotifierInit DEF PaykitInv
<1> QED
  BY <1>1, PaykitNextInv, PTL DEF PaykitSpec

----------------------------------------------------------------------------
(* The theorems.                                                           *)

(* What an app has received was launched by a handler.                     *)
LEMMA HeardRow ==
  ASSUME PaykitInv, NEW d \in received
  PROVE  /\ d = <<d[1], d[2]>>
         /\ d[1] \in PossibleRows /\ d[1] \in Notified /\ d[1] \in Rows \cap SignedRows
         /\ d[1].status = "SUCCESSFUL" /\ d[1].merchant_id = d[2]
<1>1. d[1] \in PossibleRows
  BY NotifierPayments, NotifierSettings, Notifier!NamedPayments DEF PaykitInv, NotifierInv
<1>2. worker[d[1]] # "idle" /\ d[1].status = "SUCCESSFUL"
  BY DEF PaykitInv, NotifierInv, Notifier!LaunchedInv
<1>3. received \subseteq PossibleRows \X MerchantIds
  BY DEF PaykitInv, NotifierInv, Notifier!IInv, Notifier!TypeOK
<1>4. d = <<d[1], d[2]>>
  BY <1>3
<1>5. d[2] = d[1].merchant_id
  BY <1>1 DEF PaykitInv, NotifierInv, Notifier!IInv, Notifier!DeliveredToOwner
<1>6. d[1] \in Notified /\ d[1] \in SignedRows
  BY <1>1, <1>2 DEF PaykitInv, LinkInv
<1>7. Notified \subseteq Rows
  BY DEF PaykitInv, WebhookInv, IInv, SafetyInv, JobsMatchRows, Notified
<1> QED
  BY <1>1, <1>2, <1>4, <1>5, <1>6, <1>7

(* Whatever is repeated, interleaved, lost, retried or restarted between   *)
(* MTN's webhook and the POST, an app hears only of payments that are      *)
(* stored, SUCCESSFUL, its merchant's own, and signed by MTN.              *)
THEOREM HeardGenuine == PaykitSpec => []HeardIsGenuine
<1>1. PaykitInv => HeardIsGenuine
  BY HeardRow DEF HeardIsGenuine
<1> QED
  BY <1>1, PaykitInvariance, PTL

(* Each payment an app has heard of was counted to its merchant's quota,   *)
(* except for as many as there were faults: an IncrementMerchantCallCount  *)
(* that failed and was only logged.                                        *)
THEOREM HeardBilled == PaykitSpec => []HeardIsBilled
<1>1. ASSUME PaykitInv, NEW m \in DOMAIN merchants
      PROVE  Cardinality({d \in received : d[2] = m})
               <= merchants[m].current_month_calls + faults
  <2>1. TypeInv /\ CountedInv
    BY <1>1 DEF PaykitInv, WebhookInv, IInv
  <2> DEFINE D == {d \in received : d[2] = m}
             f == [d \in D |-> CHOOSE i \in JobsOf(m) : RowOf(jobs[i]) = d[1]]
  <2>2. ASSUME NEW d \in D
        PROVE  \E i \in JobsOf(m) : RowOf(jobs[i]) = d[1]
    <3>1. d[1] \in Notified /\ d[1].merchant_id = m
      BY <1>1, HeardRow
    <3>2. PICK i \in DOMAIN jobs : RowOf(jobs[i]) = d[1]
      BY <3>1 DEF Notified
    <3>3. jobs[i].merchant_id = d[1].merchant_id
      BY <3>2 DEF RowOf
    <3> QED
      BY <3>1, <3>2, <3>3 DEF JobsOf
  <2>3. ASSUME NEW d \in D
        PROVE  f[d] \in JobsOf(m) /\ RowOf(jobs[f[d]]) = d[1]
    BY <2>2
  <2>4. ASSUME NEW d \in D, NEW e \in D, f[d] = f[e]
        PROVE  d = e
    <3>1. d[1] = e[1] /\ d[2] = e[2]
      BY <2>3, <2>4
    <3>2. d = <<d[1], d[2]>> /\ e = <<e[1], e[2]>>
      BY <1>1, HeardRow
    <3> QED
      BY <3>1, <3>2
  <2>5. f \in Injection(D, JobsOf(m))
    <3>1. f \in [D -> JobsOf(m)]
      BY <2>3
    <3> QED
      BY <2>4, <3>1, Zenon DEF Injection, IsInjective
  <2>6. Cardinality(D) <= Cardinality(JobsOf(m)) /\ IsFiniteSet(D)
    BY <2>1, <2>5, CountedSets, FS_Injection
  <2> HIDE DEF f, D
  <2>7. Cardinality(D) <= merchants[m].current_month_calls + faults
    BY <2>1, <2>6, CountedSets, FS_CardinalityType, MerchantNumbers, FaultNumber
    DEF CountedInv
  <2> QED
    BY <2>7 DEF D
<1>2. PaykitInv => HeardIsBilled
  BY <1>1 DEF HeardIsBilled
<1> QED
  BY <1>2, PaykitInvariance, PTL

(* The bill stays right when the notifiers run beside the webhooks, and    *)
(* fail, and end with the process: no merchant is counted more calls than  *)
(* rows of its own.                                                        *)
THEOREM PaykitBilledOnce == PaykitSpec => []NeverOvercharged
<1>1. PaykitInv => NeverOvercharged
  BY DEF PaykitInv, WebhookInv
<1> QED
  BY <1>1, PaykitInvariance, PTL

(* What Delivery promises of its queue and of its POSTs holds of the       *)
(* notifiers that webhooks launch: a RESOLVED letter was received, and a   *)
(* payment is posted to the app of its own merchant.                       *)
THEOREM PaykitDelivers ==
  PaykitSpec => [](Delivery!ResolvedWasReceived /\ Delivery!DeliveredToOwner)
<1>1. PaykitInv => Delivery!ResolvedWasReceived /\ Delivery!DeliveredToOwner
  BY SameProperties DEF PaykitInv, NotifierInv, Notifier!IInv
<1> QED
  BY <1>1, PaykitInvariance, PTL

(* A step of Paykit is one of Ingestion, or leaves the ledger alone.       *)
LEMMA PaykitLedgerNext ==
  PaykitInv /\ [PaykitNext]_allVars => [Ledger!Next]_(Ledger!ledger)
<1> SUFFICES ASSUME PaykitInv, [PaykitNext]_allVars
             PROVE  [Ledger!Next]_(Ledger!ledger)
  OBVIOUS
<1>1. TypeInv /\ IInv /\ AllowedInv
  BY DEF PaykitInv, WebhookInv, IInv
<1>2. CASE \/ \E w \in Delivery!Workers : Work(w)
           \/ Retry \/ UNCHANGED allVars
  <2>1. UNCHANGED <<transactions, jobs, acked>>
    BY <1>2 DEF Work, Retry, ingestionVars, database, allVars, vars
  <2> QED
    BY <2>1, LedgerStutter
<1>3. CASE \/ Await \/ Administer \/ Stop
           \/ \E h \in Handlers : Serve(h) \/ Notify(h)
  <2>1. [Next]_vars
    <3>1. ASSUME NEW h \in Handlers, Serve(h) \/ Notify(h) PROVE Handle(h)
      BY <3>1 DEF Serve, Notify, Handle
    <3> QED
      BY <1>1, <1>3, <3>1, SameMerchants DEF Await, Administer, Stop
  <2> QED
    BY <1>1, <2>1, LedgerNext
<1> QED
  BY <1>2, <1>3 DEF PaykitNext

(* The whole program does what the ledger promises: the notifiers and the  *)
(* retries of dead letters never touch what is recorded, announced and     *)
(* acknowledged, and the step that launches a notifier announces once.     *)
THEOREM PaykitImplementsLedger == PaykitSpec => RefinesLedger
<1>1. PaykitInit => Ledger!Init
  <2> SUFFICES ASSUME PaykitInit PROVE Ledger!Init
    OBVIOUS
  <2>1. transactions = <<>> /\ jobs = <<>> /\ acked = {}
    BY DEF PaykitInit
  <2>2. Rows = {} /\ [i \in DOMAIN jobs |-> RowOf(jobs[i])] = <<>>
        /\ {p.provider_tx_id : p \in acked} = {}
    BY <2>1 DEF Rows
  <2> QED
    BY <2>2 DEF Ledger!Init
<1> QED
  BY <1>1, PaykitLedgerNext, PaykitInvariance, PTL
  DEF PaykitSpec, Ledger!Spec, RefinesLedger

LEMMA SameLetters ==
  /\ Notifier!Letters!Init => Delivery!Letters!Init
  /\ Notifier!Letters!Next => Delivery!Letters!Next
  /\ Delivery!Letters!deadLetters = <<posts, received, delivery_dlq>>
  /\ Notifier!Letters!deadLetters = <<posts, received, delivery_dlq>>
<1>1. Notifier!Letters!Init => Delivery!Letters!Init
  BY DEF Notifier!Letters!Init, Delivery!Letters!Init
<1>2. ASSUME NEW t PROVE Notifier!Letters!Quarantine(t) => Delivery!Letters!Quarantine(t)
  <2>1. Notifier!Letters!Cardinality(Notifier!Letters!LettersOf(t))
          = Delivery!Letters!Cardinality(Delivery!Letters!LettersOf(t))
    BY Zenon DEF Notifier!Letters!Cardinality, Delivery!Letters!Cardinality,
       Notifier!Letters!LettersOf, Delivery!Letters!LettersOf
  <2> QED
    BY <2>1, Zenon DEF Notifier!Letters!Quarantine, Delivery!Letters!Quarantine
<1>3. ASSUME NEW t PROVE Notifier!Letters!Try(t) => Delivery!Letters!Try(t)
  BY Zenon DEF Notifier!Letters!Try, Delivery!Letters!Try
<1>4. ASSUME NEW i
      PROVE  /\ Notifier!Letters!Reopen(i) => Delivery!Letters!Reopen(i)
             /\ Notifier!Letters!Resolve(i) => Delivery!Letters!Resolve(i)
  BY Zenon DEF Notifier!Letters!Reopen, Delivery!Letters!Reopen, Notifier!Letters!Resolve,
     Delivery!Letters!Resolve, Notifier!Letters!Mark, Delivery!Letters!Mark
<1>5. Notifier!Letters!Next => Delivery!Letters!Next
  BY <1>2, <1>3, <1>4, Zenon DEF Notifier!Letters!Next, Delivery!Letters!Next
<1> QED
  BY <1>1, <1>5 DEF Delivery!Letters!deadLetters, Notifier!Letters!deadLetters

(* The steps of the notifiers and the retries are those of DeadLetters;    *)
(* all others leave the queue and the POSTs as they are.                   *)
LEMMA PaykitLettersNext ==
  PaykitInv /\ [PaykitNext]_allVars
    => [Delivery!Letters!Next]_(Delivery!Letters!deadLetters)
<1> SUFFICES ASSUME PaykitInv, [PaykitNext]_allVars
             PROVE  Delivery!Letters!Next \/ UNCHANGED <<posts, received, delivery_dlq>>
  BY DEF Delivery!Letters!deadLetters
<1>1. ASSUME NEW w \in Delivery!Workers, Work(w)
      PROVE  Delivery!Letters!Next \/ UNCHANGED <<posts, received, delivery_dlq>>
  <2>1. [Notifier!Next]_(Notifier!vars)
    BY <1>1, SameRun, SameProperties DEF Work, Notifier!Next
  <2>2. [Notifier!Letters!Next]_(Notifier!Letters!deadLetters)
    BY <2>1, Notifier!LettersNext, NotifierPayments, NotifierSettings
    DEF PaykitInv, NotifierInv
  <2> QED
    BY <2>2, SameLetters DEF Notifier!Letters!deadLetters
<1>2. CASE Retry
  BY <1>2 DEF Retry, Delivery!Request, Delivery!tables
<1>3. ASSUME NEW h \in Handlers, Notify(h)
      PROVE  UNCHANGED <<posts, received, delivery_dlq>>
  BY <1>3, Zenon DEF Notify, Delivery!Launch, Delivery!tables
<1>4. CASE Stop
  BY <1>4 DEF Stop, Delivery!Crash, Delivery!tables
<1>5. CASE \/ Await \/ Administer \/ UNCHANGED allVars
           \/ \E h \in Handlers : Serve(h)
  BY <1>5 DEF Await, Administer, Serve, allVars, deliveryVars
<1> QED
  BY <1>1, <1>2, <1>3, <1>4, <1>5 DEF PaykitNext

(* From MTN's webhook to the queue: whatever handlers, notifications and   *)
(* retries do together, each dead letter of the composed system is for a   *)
(* SUCCESSFUL payment, has cost three POSTs of its own to the owner, and   *)
(* is RESOLVED by one that arrived only.                                   *)
THEOREM PaykitImplementsDeadLetters == PaykitSpec => Delivery!RefinesDeadLetters
<1>1. PaykitInit => Delivery!Letters!Init
  BY SameInit, SameLetters, Notifier!LettersInit, NotifierPayments, NotifierSettings
  DEF PaykitInit
<1> QED
  BY <1>1, PaykitLettersNext, PaykitInvariance, PTL
  DEF PaykitSpec, Delivery!Letters!Spec, Delivery!RefinesDeadLetters
=============================================================================
