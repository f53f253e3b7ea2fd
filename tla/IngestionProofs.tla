-------------------------- MODULE IngestionProofs --------------------------
(***************************************************************************)
(* Theorems about Ingestion, for every value of its constants.             *)
(***************************************************************************)
EXTENDS Ingestion, TLAPS, FiniteSetTheorems

----------------------------------------------------------------------------
(* Tables: what an append and an update of a row do to a sequence.         *)

(* INSERT keeps the rows there are, and adds one.                          *)
LEMMA AppendRow ==
  ASSUME NEW S, NEW s \in Seq(S), NEW e \in S
  PROVE  /\ Append(s, e) \in Seq(S)
         /\ Len(Append(s, e)) = Len(s) + 1
         /\ DOMAIN Append(s, e) = DOMAIN s \union {Len(s) + 1}
         /\ \A i \in DOMAIN s : Append(s, e)[i] = s[i]
         /\ Append(s, e)[Len(s) + 1] = e
         /\ Len(s) + 1 \notin DOMAIN s
  OBVIOUS

(* UPDATE of one row keeps the table's length.                             *)
LEMMA UpdateRow ==
  ASSUME NEW S, NEW s \in Seq(S), NEW i \in DOMAIN s, NEW e \in S
  PROVE  /\ [s EXCEPT ![i] = e] \in Seq(S)
         /\ Len([s EXCEPT ![i] = e]) = Len(s)
         /\ DOMAIN [s EXCEPT ![i] = e] = DOMAIN s
  OBVIOUS

(* The rows that the UPDATE statements write.                              *)
LEMMA UpdatedRowType ==
  ASSUME NEW row \in MerchantRow(Urls)
  PROVE  /\ \A url \in Urls :
              [row EXCEPT !.webhook_url = url] \in MerchantRow(Urls)
         /\ \A active \in BOOLEAN :
              [row EXCEPT !.active = active] \in MerchantRow(Urls)
         /\ \A quota \in Nat :
              [row EXCEPT !.max_monthly_calls = quota] \in MerchantRow(Urls)
         /\ [row EXCEPT !.current_month_calls = @ + 1] \in MerchantRow(Urls)
BY DEF MerchantRow

LEMMA SelectMerchant ==
  ASSUME TypeOK, NEW m \in DOMAIN merchants
  PROVE  merchants[m] \in MerchantRow(Urls)
<1>1. merchants \in Seq(MerchantRow(Urls))
  BY DEF TypeOK
<1> QED
  BY <1>1

(* UPDATE merchants SET ... WHERE id = m.                                  *)
LEMMA UpdateMerchant ==
  ASSUME TypeOK, NEW m \in DOMAIN merchants, NEW row \in MerchantRow(Urls)
  PROVE  /\ [merchants EXCEPT ![m] = row] \in Seq(MerchantRow(Urls))
         /\ Len([merchants EXCEPT ![m] = row]) = Len(merchants)
         /\ DOMAIN [merchants EXCEPT ![m] = row] = DOMAIN merchants
<1>1. merchants \in Seq(MerchantRow(Urls))
  BY DEF TypeOK
<1> QED
  BY <1>1, UpdateRow

----------------------------------------------------------------------------
(* Type correctness.  A handler past "idle" serves a payload whose         *)
(* merchant, once TierEnforcement has found it, is in the table: without   *)
(* this the counter that IncrementMerchantCallCount raises need not exist, *)
(* nor the row that Insert appends have a transactionId.                   *)

Admission == {"check", "replay", "insert", "count", "launch"}

ServedTypeOK ==
  \A h \in Handlers :
    /\ pc[h] # "idle" => payload[h] \in Payloads
    /\ pc[h] \in Admission => payload[h].merchant_id \in DOMAIN merchants
    /\ pc[h] \in {"insert", "count", "launch"} => payload[h].provider_tx_id \in TxIds

TypeInv == TypeOK /\ ServedTypeOK

(* A payload's row is a row of the table.                                  *)
LEMMA RowType ==
  ASSUME NEW p \in Payloads, p.provider_tx_id \in TxIds
  PROVE  RowOf(p) \in TransactionRow(TxIds, MerchantIds)
BY PayloadsAssumption DEF RowOf, TransactionRow, WebhookPayload

LEMMA TypeInit == Init => TypeInv
BY BoundsAssumption DEF Init, TypeInv, TypeOK, ServedTypeOK, Steps, Codes, Admission

(* The operations on merchants.                                            *)
LEMMA TypeMerchants ==
  ASSUME TypeInv,
         \/ \E url \in Urls : CreateMerchant(url)
         \/ \E m \in MerchantIds, url \in Urls : UpdateMerchantWebhookURL(m, url)
         \/ \E m \in MerchantIds, active \in BOOLEAN : SetMerchantActive(m, active)
         \/ \E m \in MerchantIds, quota \in Quotas : UpdateMerchantQuota(m, quota)
  PROVE  /\ TypeInv'
         /\ DOMAIN merchants \subseteq DOMAIN merchants'
<1> USE DEF TypeInv, database, requests
<1>1. ASSUME NEW url \in Urls, CreateMerchant(url)
      PROVE  TypeInv' /\ DOMAIN merchants \subseteq DOMAIN merchants'
  <2>1. NewMerchant(url, DefaultQuota) \in MerchantRow(Urls)
    BY BoundsAssumption DEF NewMerchant, MerchantRow
  <2>2. /\ merchants' \in Seq(MerchantRow(Urls)) /\ Len(merchants') = Len(merchants) + 1
        /\ granted' \in Seq(Nat) /\ Len(granted') = Len(merchants')
        /\ DOMAIN merchants \subseteq DOMAIN merchants'
    BY <1>1, <2>1, AppendRow, BoundsAssumption DEF CreateMerchant, TypeOK
  <2> QED
    BY <1>1, <2>2, BoundsAssumption DEF CreateMerchant, TypeOK, ServedTypeOK
<1>2. ASSUME NEW m \in MerchantIds, NEW url \in Urls, UpdateMerchantWebhookURL(m, url)
      PROVE  TypeInv' /\ DOMAIN merchants \subseteq DOMAIN merchants'
  <2>1. m \in DOMAIN merchants
    BY <1>2 DEF UpdateMerchantWebhookURL, GetMerchantByID
  <2>2. merchants' = [merchants EXCEPT ![m] = [merchants[m] EXCEPT !.webhook_url = url]]
    BY <1>2 DEF UpdateMerchantWebhookURL
  <2>3. /\ merchants' \in Seq(MerchantRow(Urls)) /\ Len(merchants') = Len(merchants)
        /\ DOMAIN merchants' = DOMAIN merchants
    <3>1. [merchants[m] EXCEPT !.webhook_url = url] \in MerchantRow(Urls)
      BY <2>1, SelectMerchant, UpdatedRowType
    <3> QED
      BY <2>1, <2>2, <3>1, UpdateMerchant
  <2>4. UNCHANGED <<transactions, requests, clock, jobs, acked, faults,
                    granted, abandoned>>
    BY <1>2 DEF UpdateMerchantWebhookURL
  <2> QED
    <3>1. TypeOK'
      BY <2>3, <2>4, BoundsAssumption DEF TypeOK
    <3>2. ServedTypeOK'
      BY <2>3, <2>4 DEF ServedTypeOK
    <3> QED BY <2>3, <3>1, <3>2
<1>3. ASSUME NEW m \in MerchantIds, NEW active \in BOOLEAN, SetMerchantActive(m, active)
      PROVE  TypeInv' /\ DOMAIN merchants \subseteq DOMAIN merchants'
  <2>1. merchants' = [merchants EXCEPT ![m] = [merchants[m] EXCEPT !.active = active]]
    BY <1>3 DEF SetMerchantActive
  <2>2. /\ merchants' \in Seq(MerchantRow(Urls)) /\ Len(merchants') = Len(merchants)
        /\ DOMAIN merchants' = DOMAIN merchants
    <3>1. m \in DOMAIN merchants
      BY <1>3 DEF SetMerchantActive
    <3>2. [merchants[m] EXCEPT !.active = active] \in MerchantRow(Urls)
      BY <3>1, SelectMerchant, UpdatedRowType
    <3> QED
      BY <2>1, <3>1, <3>2, UpdateMerchant
  <2>4. UNCHANGED <<transactions, requests, clock, jobs, acked, faults,
                    granted, abandoned>>
    BY <1>3 DEF SetMerchantActive
  <2> QED
    BY <2>2, <2>4, BoundsAssumption DEF TypeOK, ServedTypeOK
<1>4. ASSUME NEW m \in MerchantIds, NEW quota \in Quotas, UpdateMerchantQuota(m, quota)
      PROVE  TypeInv' /\ DOMAIN merchants \subseteq DOMAIN merchants'
  <2>1. merchants' =
          [merchants EXCEPT ![m] = [merchants[m] EXCEPT !.max_monthly_calls = quota]]
    BY <1>4 DEF UpdateMerchantQuota
  <2>2. quota \in Nat
    BY BoundsAssumption
  <2>3. /\ merchants' \in Seq(MerchantRow(Urls)) /\ Len(merchants') = Len(merchants)
        /\ DOMAIN merchants' = DOMAIN merchants
    <3>1. m \in DOMAIN merchants
      BY <1>4 DEF UpdateMerchantQuota
    <3>2. [merchants[m] EXCEPT !.max_monthly_calls = quota] \in MerchantRow(Urls)
      BY <2>2, <3>1, SelectMerchant, UpdatedRowType
    <3> QED
      BY <2>1, <3>1, <3>2, UpdateMerchant
  <2>4. granted' \in Seq(Nat) /\ Len(granted') = Len(granted)
    BY <1>4, <2>2, UpdateRow DEF TypeOK, UpdateMerchantQuota
  <2>5. UNCHANGED <<transactions, requests, clock, jobs, acked, faults, abandoned>>
    BY <1>4 DEF UpdateMerchantQuota
  <2> QED
    BY <2>3, <2>4, <2>5, BoundsAssumption DEF TypeOK, ServedTypeOK
<1> QED
  BY <1>1, <1>2, <1>3, <1>4

(* What a request in hand says: its fields have the types of the columns.  *)
LEMMA PayloadType ==
  ASSUME NEW p \in Payloads
  PROVE  /\ p.merchant_id \in MerchantIds /\ p.status \in TxStatus
         /\ p.provider_tx_id # NoTxId => p.provider_tx_id \in TxIds
BY PayloadsAssumption DEF WebhookPayload

(* Where a handler goes.                                                   *)
LEMMA TypeGoto ==
  ASSUME TypeOK, NEW h \in Handlers,
         \/ \E step \in Steps : Goto(h, step)
         \/ \E status \in Codes : Reply(h, status)
  PROVE  pc' \in [Handlers -> Steps] /\ code' \in [Handlers -> Codes]
BY DEF TypeOK, Goto, Reply, Steps

(* The steps of a handler.                                                 *)
LEMMA TypeHandle ==
  ASSUME TypeInv, NEW h \in Handlers, Handle(h)
  PROVE  TypeInv' /\ DOMAIN merchants' = DOMAIN merchants
<1> USE DEF TypeInv, database, requests, Reply, Goto, NoFault, Fault
<1>1. CASE TierEnforcement(h)
  <2>1. webhookUrl' \in [Handlers -> Urls]
    <3>1. \A m \in GetMerchantByID(merchants, payload[h].merchant_id) :
            m.webhook_url \in Urls
      BY SelectMerchant DEF GetMerchantByID, MerchantRow
    <3> QED
      BY <1>1, <3>1 DEF TierEnforcement, TypeOK
  <2>2. /\ UNCHANGED <<database, payload, clock, jobs, acked, granted, abandoned>>
        /\ faults' \in 0..MaxFaults
    BY <1>1, BoundsAssumption DEF TierEnforcement, TypeOK
  <2>3. \/ Reply(h, 400) \/ Reply(h, 403) \/ Reply(h, 404) \/ Reply(h, 429)
        \/ Goto(h, "check") /\ payload[h].merchant_id \in DOMAIN merchants
    BY <1>1 DEF TierEnforcement, GetMerchantByID
  <2>4. TypeOK'
    <3>1. pc' \in [Handlers -> Steps] /\ code' \in [Handlers -> Codes]
      <4> HIDE DEF Goto, Reply
      <4> QED
        BY <2>3, TypeGoto DEF Steps, Codes
    <3> QED
      BY <2>1, <2>2, <3>1 DEF TypeOK
  <2>5. pc[h] # "idle" /\ pc' = [pc EXCEPT ![h] = pc'[h]] /\ pc'[h] \in {"reply", "check"}
    BY <1>1, <2>3 DEF TierEnforcement, TypeOK
  <2>6. pc'[h] = "check" => payload[h].merchant_id \in DOMAIN merchants
    BY <2>3 DEF TypeOK
  <2>7. ServedTypeOK'
    BY <2>2, <2>5, <2>6 DEF ServedTypeOK, TypeOK, Admission
  <2> QED
    BY <2>2, <2>4, <2>7
<1>2. CASE CheckRequest(h)
  <2>1. /\ UNCHANGED <<database, payload, webhookUrl, clock, jobs, acked,
                       faults, granted, abandoned>>
        /\ Reply(h, 400) \/ Reply(h, 401) \/ Goto(h, "replay")
        /\ pc[h] = "check"
    BY <1>2 DEF CheckRequest
  <2>2. TypeOK'
    <3>1. pc' \in [Handlers -> Steps] /\ code' \in [Handlers -> Codes]
      <4> HIDE DEF Goto, Reply
      <4> QED
        BY <2>1, TypeGoto DEF Steps, Codes
    <3> QED
      BY <2>1, <3>1 DEF TypeOK
  <2>3. ServedTypeOK'
    BY <2>1 DEF ServedTypeOK, TypeOK, Admission
  <2> QED
    BY <2>1, <2>2, <2>3
<1>3. CASE CheckReplay(h)
  <2>1. /\ UNCHANGED <<database, payload, webhookUrl, clock, jobs, acked,
                       granted, abandoned>>
        /\ \/ Reply(h, 500) \/ Reply(h, 200) \/ Reply(h, 422)
           \/ Goto(h, "insert") /\ payload[h].provider_tx_id # NoTxId
        /\ pc[h] = "replay"
    BY <1>3 DEF CheckReplay, ReplayCode
  <2>2. faults' \in 0..MaxFaults
    BY <1>3, BoundsAssumption DEF CheckReplay, TypeOK
  <2>3. TypeOK'
    <3>1. pc' \in [Handlers -> Steps] /\ code' \in [Handlers -> Codes]
      <4> HIDE DEF Goto, Reply
      <4> QED
        BY <2>1, TypeGoto DEF Steps, Codes
    <3> QED
      BY <2>1, <2>2, <3>1 DEF TypeOK
  <2>4. ServedTypeOK'
    BY <2>1, PayloadType DEF ServedTypeOK, TypeOK, Admission
  <2> QED
    BY <2>1, <2>3, <2>4
<1>4. CASE Insert(h)
  <2>1. /\ UNCHANGED <<merchants, payload, webhookUrl, clock, jobs, acked,
                       granted, abandoned>>
        /\ Reply(h, 500) \/ Goto(h, "count")
        /\ pc[h] = "insert"
        /\ transactions' \in {transactions, Append(transactions, RowOf(payload[h]))}
    BY <1>4 DEF Insert, InsertErrorCode
  <2>2. faults' \in 0..MaxFaults
    BY <1>4, BoundsAssumption DEF Insert, TypeOK
  <2>3. transactions' \in Seq(TransactionRow(TxIds, MerchantIds))
    <3>1. RowOf(payload[h]) \in TransactionRow(TxIds, MerchantIds)
      BY <2>1, RowType DEF ServedTypeOK
    <3>2. transactions \in Seq(TransactionRow(TxIds, MerchantIds))
      BY DEF TypeOK
    <3> QED
      BY <2>1, <3>1, <3>2, AppendRow
  <2>4. TypeOK'
    <3>1. pc' \in [Handlers -> Steps] /\ code' \in [Handlers -> Codes]
      <4> HIDE DEF Goto, Reply
      <4> QED
        BY <2>1, TypeGoto DEF Steps, Codes
    <3> QED
      BY <2>1, <2>2, <2>3, <3>1 DEF TypeOK
  <2>5. ServedTypeOK'
    BY <2>1 DEF ServedTypeOK, TypeOK, Admission
  <2> QED
    BY <2>1, <2>4, <2>5
<1>5. CASE IncrementMerchantCallCount(h)
  <2> DEFINE m == payload[h].merchant_id
             row == [merchants[m] EXCEPT !.current_month_calls = @ + 1]
  <2>1. /\ UNCHANGED <<transactions, payload, webhookUrl, clock, jobs, acked,
                       granted, abandoned>>
        /\ Goto(h, "launch")
        /\ pc[h] = "count"
        /\ merchants' \in {merchants, [merchants EXCEPT ![m] = row]}
    BY <1>5 DEF IncrementMerchantCallCount
  <2>2. faults' \in 0..MaxFaults
    BY <1>5, BoundsAssumption DEF IncrementMerchantCallCount, TypeOK
  <2>3. /\ merchants' \in Seq(MerchantRow(Urls)) /\ Len(merchants') = Len(merchants)
        /\ DOMAIN merchants' = DOMAIN merchants
    <3>1. m \in DOMAIN merchants
      BY <2>1 DEF ServedTypeOK, Admission
    <3>2. row \in MerchantRow(Urls)
      BY <3>1, SelectMerchant, UpdatedRowType
    <3> HIDE DEF row, m
    <3>3. /\ [merchants EXCEPT ![m] = row] \in Seq(MerchantRow(Urls))
          /\ Len([merchants EXCEPT ![m] = row]) = Len(merchants)
          /\ DOMAIN [merchants EXCEPT ![m] = row] = DOMAIN merchants
      BY <3>1, <3>2, UpdateMerchant
    <3>4. merchants \in Seq(MerchantRow(Urls))
      BY DEF TypeOK
    <3> QED
      BY <2>1, <3>3, <3>4
  <2>4. TypeOK'
    <3>1. pc' \in [Handlers -> Steps] /\ code' \in [Handlers -> Codes]
      <4> HIDE DEF Goto, Reply
      <4> QED
        BY <2>1, TypeGoto DEF Steps, Codes
    <3> QED
      BY <2>1, <2>2, <2>3, <3>1 DEF TypeOK
  <2>5. ServedTypeOK'
    BY <2>1, <2>3 DEF ServedTypeOK, TypeOK, Admission
  <2> QED
    BY <2>3, <2>4, <2>5
<1>6. CASE Launch(h)
  <2> DEFINE job == [id |-> 0,
                     provider_tx_id |-> payload[h].provider_tx_id,
                     merchant_id |-> payload[h].merchant_id,
                     status |-> payload[h].status,
                     webhook_url |-> webhookUrl[h]]
  <2>1. /\ UNCHANGED <<database, payload, webhookUrl, clock, acked, faults,
                       granted, abandoned>>
        /\ Reply(h, 200)
        /\ pc[h] = "launch"
        /\ jobs' = Append(jobs, job)
    BY <1>6 DEF Launch
  <2>2. jobs' \in Seq(Job)
    <3>1. payload[h] \in Payloads /\ payload[h].provider_tx_id \in TxIds
      BY <2>1 DEF ServedTypeOK
    <3>2. job \in Job
      BY <3>1, PayloadType DEF Job, TypeOK
    <3> HIDE DEF job
    <3> QED
      BY <2>1, <3>2, AppendRow DEF TypeOK
  <2>3. TypeOK'
    BY <2>1, <2>2 DEF TypeOK, Steps, Codes
  <2>4. ServedTypeOK'
    BY <2>1 DEF ServedTypeOK, TypeOK, Admission
  <2> QED
    BY <2>1, <2>3, <2>4
<1>7. CASE Respond(h)
  <2>1. /\ UNCHANGED <<database, clock, jobs, granted, abandoned>>
        /\ Idle(h)
        /\ pc[h] = "reply"
        /\ acked' \in {acked, acked \union {payload[h]}}
    BY <1>7 DEF Respond
  <2>2. faults' \in 0..MaxFaults
    BY <1>7, BoundsAssumption DEF Respond, TypeOK
  <2>3. acked' \in SUBSET Payloads
    BY <2>1 DEF TypeOK, ServedTypeOK
  <2>4. TypeOK'
    BY <2>1, <2>2, <2>3, BoundsAssumption DEF TypeOK, Steps, Codes, Idle
  <2>5. ServedTypeOK'
    BY <2>1 DEF ServedTypeOK, TypeOK, Admission, Idle
  <2> QED
    BY <2>1, <2>4, <2>5
<1> QED
  BY <1>1, <1>2, <1>3, <1>4, <1>5, <1>6, <1>7 DEF Handle

(* The steps of the environment.                                           *)
LEMMA TypeEnvironment ==
  ASSUME TypeInv,
         \/ \E h \in Handlers, p \in Payloads : Send(h, p)
         \/ Crash
         \/ Tick
  PROVE  TypeInv' /\ DOMAIN merchants' = DOMAIN merchants
<1> USE DEF TypeInv, database, requests, Fault
<1>1. ASSUME NEW h \in Handlers, NEW p \in Payloads, Send(h, p)
      PROVE  TypeInv' /\ DOMAIN merchants' = DOMAIN merchants
  <2>1. TypeOK'
    BY <1>1 DEF Send, TypeOK, Steps
  <2>2. ServedTypeOK'
    BY <1>1 DEF Send, TypeOK, ServedTypeOK, Admission
  <2> QED
    BY <1>1, <2>1, <2>2 DEF Send
<1>2. CASE Crash
  BY <1>2, BoundsAssumption DEF Crash, TypeOK, ServedTypeOK, Steps, Codes, Admission
<1>3. CASE Tick
  BY <1>3, BoundsAssumption DEF Tick, TypeOK, ServedTypeOK
<1> QED
  BY <1>1, <1>2, <1>3

LEMMA TypeNext == TypeInv /\ [Next]_vars => TypeInv'
<1> SUFFICES ASSUME TypeInv, [Next]_vars
             PROVE  TypeInv'
  OBVIOUS
<1>1. CASE UNCHANGED vars
  BY <1>1 DEF TypeInv, vars, TypeOK, ServedTypeOK
<1>2. CASE Next
  BY <1>2, TypeMerchants, TypeHandle, TypeEnvironment DEF Next
<1> QED
  BY <1>1, <1>2

(* Every reachable state is well typed, however many requests, merchants   *)
(* and payments there are.                                                 *)
THEOREM TypeCorrect == Spec => []TypeOK
<1>1. Init => TypeInv
  BY TypeInit
<1>2. TypeInv /\ [Next]_vars => TypeInv'
  BY TypeNext
<1>3. TypeInv => TypeOK
  BY DEF TypeInv
<1> QED
  BY <1>1, <1>2, <1>3, PTL DEF Spec

----------------------------------------------------------------------------
(* The inductive invariant behind the safety properties.                   *)

(* UNIQUE (provider_tx_id).                                                *)
UniqueTransactions ==
  \A i, j \in DOMAIN transactions :
    transactions[i].provider_tx_id = transactions[j].provider_tx_id => i = j

Holding(h) == pc[h] \in {"count", "launch"}

(* What a handler has established by the step it has reached.              *)
Established ==
  \A h \in Handlers :
    /\ pc[h] \in {"replay", "insert", "count", "launch"} => IsGenuine(payload[h])
    /\ Holding(h) => /\ RowOf(payload[h]) \in Rows
                     /\ ~Launched(payload[h].provider_tx_id)
    /\ pc[h] = "reply" /\ code[h] = 200
         => IsGenuine(payload[h]) /\ Exists(transactions, payload[h].provider_tx_id)

(* Of the handlers that serve a transaction, one at most has inserted it.  *)
OneHolder ==
  \A g, h \in Handlers :
    /\ Holding(g) /\ Holding(h)
    /\ payload[g].provider_tx_id = payload[h].provider_tx_id
    => g = h

(* A notification repeats the row recorded.                                *)
JobsMatchRows == \A i \in DOMAIN jobs : RowOf(jobs[i]) \in Rows

SafetyInv ==
  /\ UniqueTransactions
  /\ Established
  /\ OneHolder
  /\ JobsMatchRows
  /\ OneNotificationPerTransaction
  /\ AcknowledgedIsRecorded

(* A transaction exists when a row says so.                                *)
LEMMA ExistsRow ==
  ASSUME NEW tx
  PROVE  Exists(transactions, tx) <=> \E r \in Rows : r.provider_tx_id = tx
BY DEF Exists, Rows

LEMMA SafetyInit == Init => SafetyInv
BY DEF Init, SafetyInv, UniqueTransactions, Established, Holding, OneHolder,
       JobsMatchRows, OneNotificationPerTransaction, AcknowledgedIsRecorded

(* A step that leaves the rows, the jobs and what has been acknowledged as *)
(* they are, and gives no handler a new claim, keeps the invariant.        *)
LEMMA SafetyKept ==
  ASSUME SafetyInv,
         UNCHANGED <<transactions, jobs, acked>>,
         \A h \in Handlers :
           \/ pc'[h] = pc[h] /\ payload'[h] = payload[h] /\ code'[h] = code[h]
           \/ pc'[h] \in {"idle", "tier", "check"}
           \/ pc'[h] \in {"replay", "insert"} /\ IsGenuine(payload'[h])
           \/ pc'[h] = "reply" /\ code'[h] # 200
           \/ /\ pc'[h] = "reply" /\ IsGenuine(payload'[h])
              /\ Exists(transactions, payload'[h].provider_tx_id)
           \/ pc'[h] = "launch" /\ pc[h] = "count" /\ payload'[h] = payload[h]
  PROVE  SafetyInv'
<1> USE DEF SafetyInv
<1>1. UniqueTransactions'
  BY DEF UniqueTransactions
<1>2. Established'
  BY DEF Established, Holding, Rows, Launched, Exists, IsGenuine
<1>3. OneHolder'
  BY DEF OneHolder, Holding
<1>4. JobsMatchRows'
  BY DEF JobsMatchRows, Rows
<1>5. OneNotificationPerTransaction'
  BY DEF OneNotificationPerTransaction
<1>6. AcknowledgedIsRecorded'
  BY DEF AcknowledgedIsRecorded, Exists
<1> QED
  BY <1>1, <1>2, <1>3, <1>4, <1>5, <1>6

(* INSERT INTO transactions adds one row to the set of rows.               *)
LEMMA RowsAppended ==
  ASSUME TypeInv, NEW row \in TransactionRow(TxIds, MerchantIds),
         transactions' = Append(transactions, row)
  PROVE  Rows' = Rows \union {row}
<1>1. transactions \in Seq(TransactionRow(TxIds, MerchantIds))
  BY DEF TypeInv, TypeOK
<1> QED
  BY <1>1, AppendRow DEF Rows

(* A handler that inserts its row: the constraint has just told it that no *)
(* row, hence no other holder and no job, has its transaction.             *)
LEMMA SafetyInsert ==
  ASSUME TypeInv, SafetyInv, NEW h \in Handlers, Insert(h),
         transactions' = Append(transactions, RowOf(payload[h])),
         Insertable(payload[h])
  PROVE  SafetyInv'
<1> DEFINE p == payload[h]
           row == RowOf(p)
<1> USE DEF Reply, Goto
<1>1. /\ p \in Payloads /\ p.provider_tx_id \in TxIds
      /\ row \in TransactionRow(TxIds, MerchantIds)
  BY RowType DEF Insert, TypeInv, ServedTypeOK
<1>2. Rows' = Rows \union {row}
  BY <1>1, RowsAppended
<1>3. \A r \in Rows : r.provider_tx_id # p.provider_tx_id
  BY ExistsRow DEF Insertable, ConstraintsHold, RowOf
<1>4. /\ UNCHANGED <<payload, jobs, acked>>
      /\ \A g \in Handlers \ {h} : pc'[g] = pc[g] /\ code'[g] = code[g]
      /\ pc[h] = "insert"
      /\ pc'[h] = "count" \/ (pc'[h] = "reply" /\ code'[h] # 200)
  BY DEF Insert, InsertErrorCode, TypeInv, TypeOK
<1>5. \A tx : Exists(transactions, tx) => Exists(transactions', tx)
  BY <1>2, ExistsRow DEF Exists, Rows
<1>6. ~Launched(p.provider_tx_id)
  BY <1>3 DEF Launched, SafetyInv, JobsMatchRows, RowOf
<1>7. UniqueTransactions'
  <2>1. transactions \in Seq(TransactionRow(TxIds, MerchantIds))
    BY DEF TypeInv, TypeOK
  <2>2. /\ DOMAIN transactions' = DOMAIN transactions \union {Len(transactions) + 1}
        /\ \A i \in DOMAIN transactions : transactions'[i] = transactions[i]
        /\ transactions'[Len(transactions) + 1] = row
    BY <1>1, <2>1, AppendRow
  <2>3. \A i \in DOMAIN transactions : transactions[i].provider_tx_id # p.provider_tx_id
    BY <1>3 DEF Rows
  <2>4. row.provider_tx_id = p.provider_tx_id
    BY DEF RowOf
  <2> QED
    BY <2>2, <2>3, <2>4 DEF SafetyInv, UniqueTransactions
<1>8. Established'
  <2> SUFFICES ASSUME NEW g \in Handlers
               PROVE  /\ pc'[g] \in {"replay", "insert", "count", "launch"}
                           => IsGenuine(payload[g])
                      /\ Holding(g)' => /\ RowOf(payload[g]) \in Rows'
                                        /\ ~Launched(payload[g].provider_tx_id)
                      /\ pc'[g] = "reply" /\ code'[g] = 200
                           => /\ IsGenuine(payload[g])
                              /\ Exists(transactions', payload[g].provider_tx_id)
    BY <1>4 DEF Established, Holding, Launched, IsGenuine, RowOf
  <2>1. CASE g = h
    BY <1>2, <1>4, <1>6, <2>1 DEF SafetyInv, Established, Holding, Launched
  <2>2. CASE g # h
    BY <1>2, <1>4, <1>5, <2>2 DEF SafetyInv, Established, Holding, Launched
  <2> QED
    BY <2>1, <2>2
<1>9. OneHolder'
  <2>1. \A g \in Handlers : Holding(g) => payload[g].provider_tx_id # p.provider_tx_id
    BY <1>3 DEF SafetyInv, Established, RowOf
  <2> QED
    BY <1>4, <2>1 DEF SafetyInv, OneHolder, Holding
<1>10. JobsMatchRows' /\ OneNotificationPerTransaction' /\ AcknowledgedIsRecorded'
  BY <1>2, <1>4, <1>5 DEF SafetyInv, JobsMatchRows, OneNotificationPerTransaction,
                          AcknowledgedIsRecorded
<1> QED
  BY <1>7, <1>8, <1>9, <1>10 DEF SafetyInv

(* A handler that launches: nobody else holds its transaction and nobody   *)
(* has launched it.                                                        *)
LEMMA SafetyLaunch ==
  ASSUME TypeInv, SafetyInv, NEW h \in Handlers, Launch(h)
  PROVE  SafetyInv'
<1> DEFINE p == payload[h]
           job == [id |-> 0, provider_tx_id |-> p.provider_tx_id,
                   merchant_id |-> p.merchant_id, status |-> p.status,
                   webhook_url |-> webhookUrl[h]]
<1> USE DEF Reply, database
<1>1. /\ UNCHANGED <<transactions, payload, acked>>
      /\ \A g \in Handlers \ {h} : pc'[g] = pc[g] /\ code'[g] = code[g]
      /\ pc[h] = "launch" /\ pc'[h] = "reply"
      /\ jobs' = Append(jobs, job)
  BY DEF Launch, TypeInv, TypeOK
<1>2. p \in Payloads /\ job \in Job
  BY <1>1, PayloadType DEF TypeInv, TypeOK, ServedTypeOK, Job
<1>3. /\ DOMAIN jobs' = DOMAIN jobs \union {Len(jobs) + 1}
      /\ \A i \in DOMAIN jobs : jobs'[i] = jobs[i]
      /\ jobs'[Len(jobs) + 1] = job
  <2> HIDE DEF job
  <2> QED
    BY <1>1, <1>2, AppendRow DEF TypeInv, TypeOK
<1>4. RowOf(p) \in Rows /\ ~Launched(p.provider_tx_id)
  BY <1>1 DEF SafetyInv, Established, Holding
<1>5. RowOf(job) = RowOf(p) /\ job.provider_tx_id = p.provider_tx_id
  BY DEF RowOf
<1> HIDE DEF job
<1>6. \A tx : Launched(tx)' <=> Launched(tx) \/ tx = p.provider_tx_id
  BY <1>3, <1>5 DEF Launched
<1>7. Rows' = Rows
  BY <1>1 DEF Rows
<1>8. Established'
  <2> SUFFICES ASSUME NEW g \in Handlers
               PROVE  /\ pc'[g] \in {"replay", "insert", "count", "launch"}
                           => IsGenuine(payload[g])
                      /\ Holding(g)' => /\ RowOf(payload[g]) \in Rows
                                        /\ ~Launched(payload[g].provider_tx_id)'
                      /\ pc'[g] = "reply" /\ code'[g] = 200
                           => /\ IsGenuine(payload[g])
                              /\ Exists(transactions, payload[g].provider_tx_id)
    BY <1>1, <1>7 DEF Established, Holding, IsGenuine, RowOf
  <2>1. CASE g = h
    <3>1. IsGenuine(p) /\ Exists(transactions, p.provider_tx_id)
      BY <1>1, <1>4, ExistsRow DEF RowOf, SafetyInv, Established
    <3> QED
      BY <1>1, <2>1, <3>1 DEF Holding
  <2>2. CASE g # h
    <3>1. Holding(g) => payload[g].provider_tx_id # p.provider_tx_id
      BY <1>1, <2>2 DEF SafetyInv, OneHolder, Holding
    <3> QED
      BY <1>1, <1>6, <2>2, <3>1 DEF SafetyInv, Established, Holding
  <2> QED
    BY <2>1, <2>2
<1>9. OneHolder' /\ UniqueTransactions' /\ AcknowledgedIsRecorded'
  BY <1>1 DEF SafetyInv, OneHolder, Holding, UniqueTransactions,
              AcknowledgedIsRecorded, Exists
<1>10. JobsMatchRows'
  BY <1>3, <1>4, <1>5, <1>7 DEF SafetyInv, JobsMatchRows
<1>11. OneNotificationPerTransaction'
  BY <1>3, <1>4, <1>5 DEF SafetyInv, OneNotificationPerTransaction, Launched
<1> QED
  BY <1>8, <1>9, <1>10, <1>11 DEF SafetyInv

LEMMA SafetyNext == TypeInv /\ SafetyInv /\ [Next]_vars => SafetyInv'
<1> SUFFICES ASSUME TypeInv, SafetyInv, [Next]_vars
             PROVE  SafetyInv'
  OBVIOUS
<1> USE DEF database, requests, Reply, Goto
<1>1. CASE UNCHANGED vars
  BY <1>1, SafetyKept DEF vars
<1>2. CASE \/ \E url \in Urls : CreateMerchant(url)
           \/ \E m \in MerchantIds, url \in Urls : UpdateMerchantWebhookURL(m, url)
           \/ \E m \in MerchantIds, active \in BOOLEAN : SetMerchantActive(m, active)
           \/ \E m \in MerchantIds, quota \in Quotas : UpdateMerchantQuota(m, quota)
           \/ Tick
  <2>1. UNCHANGED <<transactions, jobs, acked, pc, payload, code>>
    BY <1>2 DEF CreateMerchant, UpdateMerchantWebhookURL, SetMerchantActive,
                UpdateMerchantQuota, Tick
  <2> QED
    BY <2>1, SafetyKept
<1>3. CASE Crash
  BY <1>3, SafetyKept DEF Crash
<1>4. ASSUME NEW h \in Handlers, NEW p \in Payloads, Send(h, p)
      PROVE  SafetyInv'
  BY <1>4, SafetyKept DEF Send, TypeInv, TypeOK
<1>5. ASSUME NEW h \in Handlers, Handle(h)
      PROVE  SafetyInv'
  <2>1. CASE TierEnforcement(h)
    BY <2>1, SafetyKept DEF TierEnforcement, TypeInv, TypeOK
  <2>2. CASE CheckRequest(h)
    BY <2>2, SafetyKept DEF CheckRequest, TypeInv, TypeOK
  <2>3. CASE CheckReplay(h)
    <3>1. IsGenuine(payload[h])
      BY <2>3 DEF CheckReplay, SafetyInv, Established
    <3> QED
      BY <2>3, <3>1, SafetyKept DEF CheckReplay, ReplayCode, TypeInv, TypeOK
  <2>4. CASE Insert(h)
    <3>1. CASE UNCHANGED transactions
      BY <2>4, <3>1, SafetyKept DEF Insert, InsertErrorCode, TypeInv, TypeOK
    <3>2. CASE /\ transactions' = Append(transactions, RowOf(payload[h]))
               /\ Insertable(payload[h])
      BY <2>4, <3>2, SafetyInsert
    <3> QED
      BY <2>4, <3>1, <3>2 DEF Insert
  <2>5. CASE IncrementMerchantCallCount(h)
    BY <2>5, SafetyKept DEF IncrementMerchantCallCount, TypeInv, TypeOK
  <2>6. CASE Launch(h)
    BY <2>6, SafetyLaunch
  <2>7. CASE Respond(h)
    <3>1. /\ UNCHANGED <<transactions, jobs>>
          /\ pc'[h] = "idle" /\ pc[h] = "reply"
          /\ \A g \in Handlers \ {h} :
               pc'[g] = pc[g] /\ payload'[g] = payload[g] /\ code'[g] = code[g]
      BY <2>7 DEF Respond, Idle, TypeInv, TypeOK
    <3>2. AcknowledgedIsRecorded'
      BY <2>7 DEF Respond, SafetyInv, Established, AcknowledgedIsRecorded, Exists
    <3>3. UniqueTransactions' /\ JobsMatchRows' /\ OneNotificationPerTransaction'
      BY <3>1 DEF SafetyInv, UniqueTransactions, JobsMatchRows, Rows,
                  OneNotificationPerTransaction
    <3>4. OneHolder'
      BY <3>1 DEF SafetyInv, OneHolder, Holding
    <3>5. Established'
      BY <3>1 DEF SafetyInv, Established, Holding, Rows, Launched, Exists, IsGenuine, RowOf
    <3> QED
      BY <3>2, <3>3, <3>4, <3>5 DEF SafetyInv
  <2> QED
    BY <1>5, <2>1, <2>2, <2>3, <2>4, <2>5, <2>6, <2>7 DEF Handle
<1> QED
  BY <1>1, <1>2, <1>3, <1>4, <1>5 DEF Next

IInv == TypeInv /\ SafetyInv

LEMMA Invariance == Spec => []IInv
<1>1. Init => IInv
  BY TypeInit, SafetyInit DEF IInv
<1>2. IInv /\ [Next]_vars => IInv'
  BY TypeNext, SafetyNext DEF IInv
<1> QED
  BY <1>1, <1>2, PTL DEF Spec

(* However many handlers race for a payment, its merchant is notified of   *)
(* it once at most.                                                        *)
THEOREM NotifiedOnce == Spec => []OneNotificationPerTransaction
<1>1. IInv => OneNotificationPerTransaction
  BY DEF IInv, SafetyInv
<1> QED
  BY <1>1, Invariance, PTL

(* MTN has been answered 200 only for payments that are stored.            *)
THEOREM AcknowledgedRecorded == Spec => []AcknowledgedIsRecorded
<1>1. IInv => AcknowledgedIsRecorded
  BY DEF IInv, SafetyInv
<1> QED
  BY <1>1, Invariance, PTL

----------------------------------------------------------------------------
(* The quota.  The bound is inductive once it is known that no limit in    *)
(* force is above the largest one granted.                                 *)

QuotaInv ==
  /\ \A m \in DOMAIN merchants : merchants[m].max_monthly_calls <= granted[m]
  /\ QuotaOvershootBounded

(* The requests of a merchant that are on their way are at most Handlers.  *)
LEMMA AdmittedSize ==
  ASSUME NEW m
  PROVE  /\ IsFiniteSet(Admitted(m)) /\ Cardinality(Admitted(m)) \in Nat
         /\ Cardinality(Admitted(m)) <= Cardinality(Handlers)
         /\ Cardinality(Handlers) \in Nat \ {0}
<1>1. Admitted(m) \subseteq Handlers
  BY DEF Admitted
<1> QED
  BY <1>1, HandlersAssumption, FS_Subset, FS_CardinalityType, FS_EmptySet

(* The numbers that the bound compares.                                    *)
LEMMA MerchantNumbers ==
  ASSUME TypeInv, NEW m \in DOMAIN merchants
  PROVE  /\ merchants[m].current_month_calls \in Nat
         /\ merchants[m].max_monthly_calls \in Nat
         /\ granted[m] \in Nat
         /\ DOMAIN granted = DOMAIN merchants
BY SelectMerchant DEF TypeInv, TypeOK, MerchantRow

(* A step that moves no counter and admits nobody keeps the bound.         *)
LEMMA QuotaKept ==
  ASSUME TypeInv, QuotaInv, UNCHANGED <<merchants, granted>>,
         \A m \in DOMAIN merchants : Admitted(m)' \subseteq Admitted(m)
  PROVE  QuotaInv'
<1>1. ASSUME NEW m \in DOMAIN merchants
      PROVE  Cardinality(Admitted(m)') <= Cardinality(Admitted(m))
  BY AdmittedSize, FS_Subset
<1>2. ASSUME NEW m \in DOMAIN merchants
      PROVE  /\ IsFiniteSet(Admitted(m)') /\ Cardinality(Admitted(m)') \in Nat
  BY AdmittedSize, FS_Subset, FS_CardinalityType
<1>3. ASSUME NEW m \in DOMAIN merchants
      PROVE  merchants[m].current_month_calls + Cardinality(Admitted(m)')
               <= granted[m] + Cardinality(Handlers) - 1
  BY <1>1, <1>2, AdmittedSize, MerchantNumbers DEF QuotaInv, QuotaOvershootBounded
<1> QED
  BY <1>3 DEF QuotaInv, QuotaOvershootBounded

(* AdmittedSize, of the next state.                                        *)
LEMMA AdmittedSizeNext ==
  ASSUME NEW m
  PROVE  /\ IsFiniteSet(Admitted(m)') /\ Cardinality(Admitted(m)') \in Nat
         /\ Cardinality(Admitted(m)') <= Cardinality(Handlers)
         /\ Cardinality(Handlers) \in Nat \ {0}
<1>1. Admitted(m)' \subseteq Handlers
  BY DEF Admitted
<1> QED
  BY <1>1, HandlersAssumption, FS_Subset, FS_CardinalityType, FS_EmptySet

(* Registration and the updates of a merchant admit nobody and leave the   *)
(* counter alone; a new merchant starts at 0 with a limit of 1 at least.   *)
LEMMA QuotaMerchants ==
  ASSUME TypeInv, QuotaInv,
         \/ \E url \in Urls : CreateMerchant(url)
         \/ \E m \in MerchantIds, url \in Urls : UpdateMerchantWebhookURL(m, url)
         \/ \E m \in MerchantIds, active \in BOOLEAN : SetMerchantActive(m, active)
         \/ \E m \in MerchantIds, quota \in Quotas : UpdateMerchantQuota(m, quota)
  PROVE  QuotaInv'
<1> USE DEF requests
<1>1. \A m : Admitted(m)' = Admitted(m)
  BY DEF Admitted, CreateMerchant, UpdateMerchantWebhookURL, SetMerchantActive,
         UpdateMerchantQuota
<1>2. ASSUME NEW url \in Urls, CreateMerchant(url)
      PROVE  QuotaInv'
  <2> DEFINE n == Len(merchants) + 1
  <2>1. /\ DOMAIN merchants' = DOMAIN merchants \union {n}
        /\ \A m \in DOMAIN merchants : merchants'[m] = merchants[m]
        /\ merchants'[n] = NewMerchant(url, DefaultQuota)
    <3>1. NewMerchant(url, DefaultQuota) \in MerchantRow(Urls)
      BY BoundsAssumption DEF NewMerchant, MerchantRow
    <3> QED
      BY <1>2, <3>1, AppendRow DEF CreateMerchant, TypeInv, TypeOK
  <2>2. /\ \A m \in DOMAIN merchants : granted'[m] = granted[m]
        /\ granted'[n] = DefaultQuota
    <3>1. granted \in Seq(Nat) /\ Len(granted) = Len(merchants)
          /\ DOMAIN granted = DOMAIN merchants
      BY DEF TypeInv, TypeOK
    <3> QED
      BY <1>2, <3>1, AppendRow, BoundsAssumption DEF CreateMerchant
  <2>3. /\ merchants'[n].max_monthly_calls = DefaultQuota
        /\ merchants'[n].current_month_calls = 0
    BY <2>1 DEF NewMerchant
  <2>4. \A m : 0 + Cardinality(Admitted(m)') <= DefaultQuota + Cardinality(Handlers) - 1
    BY AdmittedSizeNext, BoundsAssumption
  <2> HIDE DEF n
  <2>5. ASSUME NEW m \in DOMAIN merchants'
        PROVE  /\ merchants'[m].max_monthly_calls <= granted'[m]
               /\ merchants'[m].current_month_calls + Cardinality(Admitted(m)')
                    <= granted'[m] + Cardinality(Handlers) - 1
    <3>1. CASE m = n
      BY <2>2, <2>3, <2>4, <3>1, BoundsAssumption
    <3>2. CASE m \in DOMAIN merchants
      BY <1>1, <2>1, <2>2, <3>2 DEF QuotaInv, QuotaOvershootBounded
    <3> QED
      BY <2>1, <3>1, <3>2
  <2> QED
    BY <2>5 DEF QuotaInv, QuotaOvershootBounded
<1>3. ASSUME NEW k \in DOMAIN merchants, UNCHANGED granted,
             \/ \E url \in Urls : merchants' = [merchants EXCEPT ![k].webhook_url = url]
             \/ \E active \in BOOLEAN : merchants' = [merchants EXCEPT ![k].active = active]
      PROVE  QuotaInv'
  <2>1. /\ DOMAIN merchants' = DOMAIN merchants
        /\ \A m \in DOMAIN merchants :
             /\ merchants'[m].max_monthly_calls = merchants[m].max_monthly_calls
             /\ merchants'[m].current_month_calls = merchants[m].current_month_calls
    BY <1>3, SelectMerchant DEF TypeInv, MerchantRow
  <2> QED
    BY <1>1, <1>3, <2>1 DEF QuotaInv, QuotaOvershootBounded
<1>4. ASSUME NEW k \in MerchantIds, NEW quota \in Quotas, UpdateMerchantQuota(k, quota)
      PROVE  QuotaInv'
  <2>1. k \in DOMAIN merchants /\ quota \in Nat
    BY <1>4, BoundsAssumption DEF UpdateMerchantQuota
  <2>2. /\ DOMAIN merchants' = DOMAIN merchants
        /\ \A m \in DOMAIN merchants :
             /\ merchants'[m].max_monthly_calls =
                  IF m = k THEN quota ELSE merchants[m].max_monthly_calls
             /\ merchants'[m].current_month_calls = merchants[m].current_month_calls
    BY <1>4, <2>1, SelectMerchant DEF UpdateMerchantQuota, TypeInv, MerchantRow
  <2>3. \A m \in DOMAIN merchants :
          granted'[m] = IF m = k /\ quota > granted[m] THEN quota ELSE granted[m]
    BY <1>4, <2>1, MerchantNumbers DEF UpdateMerchantQuota
  <2>4. ASSUME NEW m \in DOMAIN merchants
        PROVE  /\ merchants'[m].max_monthly_calls <= granted'[m]
               /\ merchants'[m].current_month_calls + Cardinality(Admitted(m))
                    <= granted'[m] + Cardinality(Handlers) - 1
    BY <2>1, <2>2, <2>3, AdmittedSize, MerchantNumbers DEF QuotaInv, QuotaOvershootBounded
  <2> QED
    BY <1>1, <2>2, <2>4 DEF QuotaInv, QuotaOvershootBounded
<1>5. ASSUME NEW m \in MerchantIds, NEW url \in Urls, UpdateMerchantWebhookURL(m, url)
      PROVE  QuotaInv'
  BY <1>3, <1>5 DEF UpdateMerchantWebhookURL, GetMerchantByID
<1>6. ASSUME NEW m \in MerchantIds, NEW active \in BOOLEAN, SetMerchantActive(m, active)
      PROVE  QuotaInv'
  BY <1>3, <1>6 DEF SetMerchantActive
<1> QED
  BY <1>2, <1>4, <1>5, <1>6

(* The admission of one more request: the merchant was below its limit, so *)
(* even with every handler on its way the bound is met.                    *)
LEMMA QuotaAdmit ==
  ASSUME TypeInv, QuotaInv, NEW h \in Handlers, TierEnforcement(h)
  PROVE  QuotaInv'
<1> DEFINE k == payload[h].merchant_id
<1> USE DEF database, Reply, Goto
<1>1. /\ UNCHANGED <<merchants, granted>>
      /\ \A m : m # k => Admitted(m)' \subseteq Admitted(m)
  BY DEF TierEnforcement, Admitted, TypeInv, TypeOK
<1>2. CASE pc'[h] = "reply"
  <2>1. \A m : Admitted(m)' \subseteq Admitted(m)
    BY <1>2 DEF TierEnforcement, Admitted, TypeInv, TypeOK
  <2> QED
    BY <1>1, <2>1, QuotaKept
<1>3. CASE pc'[h] # "reply"
  <2>1. /\ k \in DOMAIN merchants
        /\ merchants[k].current_month_calls < merchants[k].max_monthly_calls
    BY <1>3 DEF TierEnforcement, GetMerchantByID, WithinQuota, TypeInv, TypeOK
  <2>2. ASSUME NEW m \in DOMAIN merchants
        PROVE  merchants[m].current_month_calls + Cardinality(Admitted(m)')
                 <= granted[m] + Cardinality(Handlers) - 1
    <3>1. CASE m = k
      BY <2>1, <3>1, AdmittedSizeNext, MerchantNumbers DEF QuotaInv
    <3>2. CASE m # k
      <4>1. Cardinality(Admitted(m)') <= Cardinality(Admitted(m))
        BY <1>1, <3>2, AdmittedSize, FS_Subset
      <4> QED
        BY <4>1, AdmittedSize, AdmittedSizeNext, MerchantNumbers
        DEF QuotaInv, QuotaOvershootBounded
    <3> QED
      BY <3>1, <3>2
  <2> QED
    BY <1>1, <2>2 DEF QuotaInv, QuotaOvershootBounded
<1> QED
  BY <1>2, <1>3

(* A call is counted: the request that is counted leaves the way.          *)
LEMMA QuotaCount ==
  ASSUME TypeInv, QuotaInv, NEW h \in Handlers, IncrementMerchantCallCount(h)
  PROVE  QuotaInv'
<1> PICK k : k = payload[h].merchant_id
  OBVIOUS
<1> USE DEF Goto
<1>1. k \in DOMAIN merchants
  BY DEF IncrementMerchantCallCount, TypeInv, ServedTypeOK, Admission
<1>2. /\ granted' = granted /\ DOMAIN merchants' = DOMAIN merchants
      /\ \A m \in DOMAIN merchants :
           /\ merchants'[m].max_monthly_calls = merchants[m].max_monthly_calls
           /\ merchants'[m].current_month_calls \in
                {merchants[m].current_month_calls,
                 IF m = k THEN merchants[m].current_month_calls + 1
                          ELSE merchants[m].current_month_calls}
  BY <1>1, SelectMerchant DEF IncrementMerchantCallCount, TypeInv, MerchantRow
<1>3. ASSUME NEW m
      PROVE  /\ m = k => h \in Admitted(m) /\ Admitted(m)' = Admitted(m) \ {h}
             /\ m # k => Admitted(m)' = Admitted(m)
  <2>1. /\ pc[h] = "count" /\ pc'[h] = "launch" /\ payload' = payload
        /\ \A g \in Handlers \ {h} : pc'[g] = pc[g]
    BY DEF IncrementMerchantCallCount, TypeInv, TypeOK
  <2>2. Admitted(m)' = {g \in Handlers :
           /\ pc'[g] \in {"check", "replay", "insert", "count"}
           /\ payload[g].merchant_id = m}
    BY <2>1 DEF Admitted
  <2> QED
    BY <2>1, <2>2 DEF Admitted
<1>4. ASSUME NEW m \in DOMAIN merchants
      PROVE  merchants'[m].current_month_calls + Cardinality(Admitted(m)')
               <= granted[m] + Cardinality(Handlers) - 1
  <2>1. /\ merchants[m].current_month_calls + Cardinality(Admitted(m))
             <= granted[m] + Cardinality(Handlers) - 1
        /\ merchants[m].current_month_calls \in Nat /\ granted[m] \in Nat
        /\ Cardinality(Admitted(m)) \in Nat /\ Cardinality(Handlers) \in Nat
    BY AdmittedSize, MerchantNumbers DEF QuotaInv, QuotaOvershootBounded
  <2>2. CASE m = k
    <3>1. Cardinality(Admitted(m)') = Cardinality(Admitted(m)) - 1
      BY <1>3, <2>2, AdmittedSize, FS_RemoveElement
    <3> QED
      BY <1>2, <2>1, <2>2, <3>1
  <2>3. CASE m # k
    BY <1>2, <1>3, <2>1, <2>3
  <2> QED
    BY <2>2, <2>3
<1> QED
  BY <1>2, <1>4 DEF QuotaInv, QuotaOvershootBounded

LEMMA QuotaNext == TypeInv /\ QuotaInv /\ [Next]_vars => QuotaInv'
<1> SUFFICES ASSUME TypeInv, QuotaInv, [Next]_vars
             PROVE  QuotaInv'
  OBVIOUS
<1> USE DEF database, requests, Reply, Goto
<1>1. CASE UNCHANGED vars
  BY <1>1, QuotaKept DEF vars, Admitted
<1>2. CASE Tick
  BY <1>2, QuotaKept DEF Tick, Admitted
<1>3. CASE Crash
  BY <1>3, QuotaKept DEF Crash, Admitted
<1>4. ASSUME NEW h \in Handlers, NEW p \in Payloads, Send(h, p)
      PROVE  QuotaInv'
  BY <1>4, QuotaKept DEF Send, Admitted, TypeInv, TypeOK
<1>5. ASSUME NEW h \in Handlers, Handle(h)
      PROVE  QuotaInv'
  <2>1. CASE CheckRequest(h) \/ CheckReplay(h) \/ Insert(h)
    <3>1. /\ UNCHANGED <<merchants, granted, payload>>
          /\ pc[h] \in {"check", "replay", "insert"}
          /\ \A g \in Handlers \ {h} : pc'[g] = pc[g]
      BY <2>1 DEF CheckRequest, CheckReplay, Insert, TypeInv, TypeOK
    <3> QED
      BY <3>1, QuotaKept DEF Admitted
  <2>2. CASE Launch(h) \/ Respond(h)
    <3>1. /\ UNCHANGED <<merchants, granted>>
          /\ pc'[h] \in {"reply", "idle"}
          /\ \A g \in Handlers \ {h} : pc'[g] = pc[g] /\ payload'[g] = payload[g]
      BY <2>2 DEF Launch, Respond, Idle, TypeInv, TypeOK
    <3> QED
      BY <3>1, QuotaKept DEF Admitted
  <2> QED
    BY <1>5, <2>1, <2>2, QuotaAdmit, QuotaCount DEF Handle
<1> QED
  BY <1>1, <1>2, <1>3, <1>4, <1>5, QuotaMerchants DEF Next

(* For any number of handlers N, a merchant is charged at most N - 1 calls *)
(* beyond the largest limit it has had.                                    *)
THEOREM QuotaOvershoot == Spec => []QuotaOvershootBounded
<1>1. Init => QuotaInv
  BY DEF Init, QuotaInv, QuotaOvershootBounded
<1>2. IInv /\ QuotaInv /\ [Next]_vars => QuotaInv'
  BY QuotaNext DEF IInv
<1>3. QuotaInv => QuotaOvershootBounded
  BY DEF QuotaInv
<1> QED
  BY <1>1, <1>2, <1>3, Invariance, PTL DEF Spec
=============================================================================
