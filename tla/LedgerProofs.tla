---------------------------- MODULE LedgerProofs ----------------------------
(***************************************************************************)
(* Ingestion implements PaymentLedger, and makes orphans by faults only:   *)
(* step simulation under the invariant of IngestionProofs.                 *)
(***************************************************************************)
EXTENDS IngestionProofs

(* The abstract state as expressions of the concrete one.                  *)
Announced == [i \in DOMAIN jobs |-> RowOf(jobs[i])]
Acknowledged == {p.provider_tx_id : p \in acked}

LEMMA LedgerInit == Init => Ledger!Init
<1> SUFFICES ASSUME Init
             PROVE  Ledger!Init
  OBVIOUS
<1>1. Rows = {}
  BY DEF Init, Rows
<1>2. [i \in DOMAIN jobs |-> RowOf(jobs[i])] = <<>>
  BY DEF Init
<1>3. {p.provider_tx_id : p \in acked} = {}
  BY DEF Init
<1> QED
  BY <1>1, <1>2, <1>3 DEF Ledger!Init

(* The address of a request that was let in, or answered 200, is allowed.  *)
AllowedInv ==
  \A h \in Handlers :
    pc[h] \in Admission \/ (pc[h] = "reply" /\ code[h] = 200) => IPWhitelist(payload[h])

LEMMA AllowedNext == TypeInv /\ AllowedInv /\ [Next]_vars => AllowedInv'
<1> SUFFICES ASSUME TypeInv, AllowedInv, [Next]_vars
             PROVE  AllowedInv'
  OBVIOUS
<1> USE DEF AllowedInv, Admission, IPWhitelist, database, requests
<1>1. CASE UNCHANGED <<pc, payload, code>>
  BY <1>1
<1>2. ASSUME NEW h \in Handlers, NEW p \in Payloads, Send(h, p)
      PROVE  AllowedInv'
  <2>1. /\ pc \in [Handlers -> Steps] /\ payload \in [Handlers -> Payloads \union {NoPayload}]
        /\ pc' = [pc EXCEPT ![h] = "tier"] /\ payload' = [payload EXCEPT ![h] = p]
        /\ code' = code
    BY <1>2 DEF Send, TypeInv, TypeOK
  <2>2. pc'[h] = "tier" /\ \A g \in Handlers \ {h} : pc'[g] = pc[g] /\ payload'[g] = payload[g]
    BY <2>1
  <2> QED
    BY <2>1, <2>2
<1>3. CASE Crash
  BY <1>3 DEF Crash
<1>4. ASSUME NEW h \in Handlers, Handle(h)
      PROVE  AllowedInv'
  <2>1. /\ pc \in [Handlers -> Steps] /\ code \in [Handlers -> Codes]
        /\ payload \in [Handlers -> Payloads \union {NoPayload}]
    BY DEF TypeInv, TypeOK
  <2>2. SUFFICES \/ /\ payload' = payload
                    /\ \A g \in Handlers \ {h} : pc'[g] = pc[g] /\ code'[g] = code[g]
                    /\ \/ IPWhitelist(payload[h])
                       \/ pc'[h] = "reply" /\ code'[h] # 200
                 \/ Respond(h)
    <3>1. CASE Respond(h)
      BY <2>1, <3>1 DEF Respond, Idle
    <3> QED
      BY <2>1, <2>2, <3>1
  <2> USE DEF Goto, Reply
  <2>3. CASE TierEnforcement(h)
    BY <2>1, <2>3 DEF TierEnforcement, Addressed
  <2>4. CASE \/ CheckRequest(h) \/ CheckReplay(h) \/ Insert(h)
             \/ IncrementMerchantCallCount(h) \/ Launch(h)
    <3>1. pc[h] \in Admission
      BY <2>4 DEF CheckRequest, CheckReplay, Insert, IncrementMerchantCallCount, Launch
    <3>2. IPWhitelist(payload[h])
      BY <3>1
    <3>3. /\ payload' = payload
          /\ \A g \in Handlers \ {h} : pc'[g] = pc[g] /\ code'[g] = code[g]
      BY <2>1, <2>4
      DEF CheckRequest, CheckReplay, Insert, IncrementMerchantCallCount, Launch
    <3> QED
      BY <3>2, <3>3
  <2> QED
    BY <1>4, <2>3, <2>4 DEF Handle
<1>5. CASE \/ \E url \in Urls : CreateMerchant(url)
           \/ \E m \in MerchantIds, url \in Urls : UpdateMerchantWebhookURL(m, url)
           \/ \E m \in MerchantIds, active \in BOOLEAN : SetMerchantActive(m, active)
           \/ \E m \in MerchantIds, quota \in Quotas : UpdateMerchantQuota(m, quota)
           \/ Tick
  <2>1. UNCHANGED <<pc, payload, code>>
    BY <1>5 DEF CreateMerchant, UpdateMerchantWebhookURL, SetMerchantActive,
       UpdateMerchantQuota, Tick
  <2> QED
    BY <1>1, <2>1
<1> QED
  BY <1>1, <1>2, <1>3, <1>4, <1>5 DEF Next, vars

(* A payload let in that passes the handler's checks is signed by MTN and  *)
(* comes from its networks.                                                *)
LEMMA GenuineIsSigned ==
  ASSUME NEW p \in Payloads, IPWhitelist(p), IsGenuine(p)
  PROVE  RowOf(p) \in SignedRows
<1>1. "signature" \notin p.defects
  BY DEF IsGenuine
<1> QED
  BY <1>1 DEF SignedRows

(* Every step but three leaves the ledger as it is.                        *)
LEMMA LedgerStutter ==
  ASSUME UNCHANGED <<transactions, jobs, acked>>
  PROVE  UNCHANGED Ledger!ledger
BY DEF Ledger!ledger, Rows

(* INSERT records a payment.                                               *)
LEMMA LedgerInsert ==
  ASSUME IInv, AllowedInv, NEW h \in Handlers, Insert(h)
  PROVE  [Ledger!Next]_(Ledger!ledger)
<1> DEFINE row == RowOf(payload[h])
<1>1. CASE UNCHANGED transactions
  BY <1>1, LedgerStutter DEF Insert
<1>2. CASE /\ transactions' = Append(transactions, row)
           /\ Insertable(payload[h])
  <2>1. /\ payload[h] \in Payloads /\ IsGenuine(payload[h])
        /\ row \in TransactionRow(TxIds, MerchantIds)
    BY RowType DEF Insert, IInv, TypeInv, ServedTypeOK, SafetyInv, Established
  <2>2. Rows' = Rows \union {row}
    BY <1>2, <2>1, RowsAppended DEF IInv
  <2>3. ~Ledger!Known(row.provider_tx_id)
    BY <1>2, ExistsRow DEF Ledger!Known, Insertable, ConstraintsHold
  <2>4. UNCHANGED <<jobs, acked>>
    BY DEF Insert
  <2>5. Ledger!Record(row)
    BY <2>2, <2>3, <2>4 DEF Ledger!Record
  <2>6. IPWhitelist(payload[h])
    BY DEF Insert, AllowedInv, Admission
  <2> QED
    BY <2>1, <2>5, <2>6, GenuineIsSigned DEF Ledger!Next
<1> QED
  BY <1>1, <1>2 DEF Insert

(* go NotifyMerchant announces it.                                         *)
LEMMA LedgerLaunch ==
  ASSUME IInv, AllowedInv, NEW h \in Handlers, Launch(h)
  PROVE  [Ledger!Next]_(Ledger!ledger)
<1> PICK job : job = [id |-> 0, provider_tx_id |-> payload[h].provider_tx_id,
                      merchant_id |-> payload[h].merchant_id,
                      status |-> payload[h].status, webhook_url |-> webhookUrl[h]]
  OBVIOUS
<1> PICK row : row = RowOf(payload[h])
  OBVIOUS
<1>1. /\ pc[h] = "launch" /\ UNCHANGED <<transactions, acked>>
      /\ jobs' = Append(jobs, job)
  BY DEF Launch, database
<1>2. payload[h] \in Payloads /\ IsGenuine(payload[h]) /\ row \in Rows
      /\ ~Launched(row.provider_tx_id)
  BY <1>1 DEF IInv, TypeInv, ServedTypeOK, SafetyInv, Established, Holding, RowOf
<1>3. job \in Job /\ RowOf(job) = row
  BY <1>1, <1>2, PayloadType DEF IInv, TypeInv, TypeOK, ServedTypeOK, Job, RowOf
<1>4. jobs \in Seq(Job)
  BY DEF IInv, TypeInv, TypeOK
<1>5. Announced' = Append(Announced, row)
  <2>1. /\ DOMAIN jobs = 1..Len(jobs) /\ Len(jobs) \in Nat
        /\ DOMAIN jobs' = 1..(Len(jobs) + 1)
        /\ \A i \in 1..Len(jobs) : jobs'[i] = jobs[i]
        /\ jobs'[Len(jobs) + 1] = job
    BY <1>1, <1>3, <1>4
  <2>2. Announced' = [i \in 1..(Len(jobs) + 1) |->
                        IF i = Len(jobs) + 1 THEN row ELSE RowOf(jobs[i])]
    BY <1>3, <2>1 DEF Announced
  <2>3. Announced = [i \in 1..Len(jobs) |-> RowOf(jobs[i])]
    BY <2>1 DEF Announced
  <2>4. Len(Announced) = Len(jobs)
    BY <2>1, <2>3
  <2> QED
    BY <2>1, <2>2, <2>3, <2>4
<1>6. \A i \in DOMAIN Announced : Announced[i] # row
  BY <1>2 DEF Announced, Launched, RowOf
<1>7. Rows' = Rows /\ Acknowledged' = Acknowledged
  BY <1>1 DEF Rows, Acknowledged
<1>8. Ledger!Announce(row)
  BY <1>2, <1>5, <1>6, <1>7 DEF Ledger!Announce, Announced, Acknowledged
<1>9. row \in SignedRows
  <2>1. IPWhitelist(payload[h])
    BY <1>1 DEF AllowedInv, Admission
  <2> QED
    BY <1>2, <2>1, GenuineIsSigned
<1> QED
  BY <1>8, <1>9 DEF Ledger!Next

(* A 200 that arrives acknowledges it.                                     *)
LEMMA LedgerRespond ==
  ASSUME IInv, AllowedInv, NEW h \in Handlers, Respond(h)
  PROVE  [Ledger!Next]_(Ledger!ledger)
<1>1. CASE UNCHANGED acked
  BY <1>1, LedgerStutter DEF Respond, database
<1>2. CASE acked' = acked \union {payload[h]} /\ code[h] = 200
  <2>1. /\ pc[h] = "reply" /\ UNCHANGED <<transactions, jobs>>
    BY DEF Respond, database
  <2>2. /\ Exists(transactions, payload[h].provider_tx_id)
        /\ IsGenuine(payload[h]) /\ payload[h] \in Payloads
    BY <1>2, <2>1 DEF IInv, SafetyInv, Established, TypeInv, ServedTypeOK
  <2> PICK row : row = RowOf(payload[h])
    OBVIOUS
  <2>3. row.provider_tx_id = payload[h].provider_tx_id
    BY DEF RowOf
  <2>4. Acknowledged' = Acknowledged \union {row.provider_tx_id}
    BY <1>2, <2>3 DEF Acknowledged
  <2>5. UNCHANGED <<Rows, Announced>>
    BY <2>1 DEF Rows, Announced
  <2>6. Ledger!Known(row.provider_tx_id)
    BY <2>2, <2>3, ExistsRow DEF Ledger!Known
  <2>7. Ledger!Acknowledge(row.provider_tx_id)
    BY <2>4, <2>5, <2>6 DEF Ledger!Acknowledge, Announced, Acknowledged
  <2>8. row \in SignedRows
    <3>1. IPWhitelist(payload[h])
      BY <1>2, <2>1 DEF AllowedInv
    <3> QED
      BY <2>2, <3>1, GenuineIsSigned
  <2> QED
    BY <2>7, <2>8 DEF Ledger!Next
<1> QED
  BY <1>1, <1>2 DEF Respond

LEMMA LedgerNext == IInv /\ AllowedInv /\ [Next]_vars => [Ledger!Next]_(Ledger!ledger)
<1> SUFFICES ASSUME IInv, AllowedInv, [Next]_vars
             PROVE  [Ledger!Next]_(Ledger!ledger)
  OBVIOUS
<1> USE DEF database, requests
<1>1. CASE UNCHANGED vars
  BY <1>1, LedgerStutter DEF vars
<1>2. CASE \/ \E url \in Urls : CreateMerchant(url)
           \/ \E m \in MerchantIds, url \in Urls : UpdateMerchantWebhookURL(m, url)
           \/ \E m \in MerchantIds, active \in BOOLEAN : SetMerchantActive(m, active)
           \/ \E m \in MerchantIds, quota \in Quotas : UpdateMerchantQuota(m, quota)
           \/ \E h \in Handlers, p \in Payloads : Send(h, p)
           \/ Crash
           \/ Tick
  BY <1>2, LedgerStutter DEF CreateMerchant, UpdateMerchantWebhookURL,
     SetMerchantActive, UpdateMerchantQuota, Send, Crash, Tick
<1>3. ASSUME NEW h \in Handlers, Handle(h)
      PROVE  [Ledger!Next]_(Ledger!ledger)
  <2>1. CASE \/ TierEnforcement(h) \/ CheckRequest(h) \/ CheckReplay(h)
             \/ IncrementMerchantCallCount(h)
    BY <2>1, LedgerStutter DEF TierEnforcement, CheckRequest, CheckReplay,
       IncrementMerchantCallCount
  <2> QED
    BY <1>3, <2>1, LedgerInsert, LedgerLaunch, LedgerRespond DEF Handle
<1> QED
  BY <1>1, <1>2, <1>3 DEF Next

(* The webhook path, with every interleaving, crash and lost reply, does   *)
(* what the ledger promises.                                               *)
THEOREM ImplementsLedger == Spec => RefinesLedger
<1>1. Init => Ledger!Init
  BY LedgerInit
<1>2. IInv /\ AllowedInv /\ [Next]_vars => [Ledger!Next]_(Ledger!ledger)
  BY LedgerNext
<1>3. Init => AllowedInv
  BY DEF Init, AllowedInv, Admission
<1>4. IInv /\ AllowedInv /\ [Next]_vars => AllowedInv'
  BY AllowedNext DEF IInv
<1> QED
  BY <1>1, <1>2, <1>3, <1>4, Invariance, PTL DEF Spec, Ledger!Spec, RefinesLedger

----------------------------------------------------------------------------
(* Orphans.                                                                *)

(* An orphan is a row that is neither launched nor held.                   *)
LEMMA OrphanRow ==
  ASSUME NEW tx
  PROVE  tx \in Orphans <=> /\ tx \in TxIds /\ Exists(transactions, tx) /\ ~Launched(tx)
                           /\ \A h \in Handlers : ~Holds(h, tx)
BY DEF Orphans

(* A step that adds no row and takes no claim away makes no orphan.        *)
LEMMA OrphansKept ==
  ASSUME UNCHANGED <<transactions, jobs>>,
         \A h \in Handlers : \A tx : Holds(h, tx) => Holds(h, tx)'
  PROVE  Orphans' \subseteq Orphans
BY DEF Orphans, Launched

(* What makes an orphan in a step.                                         *)
Excused(tx) ==
  \/ tx \in abandoned'
  \/ faults' > faults /\ ~Exists(transactions, tx)

LEMMA OrphansNext ==
  IInv /\ [Next]_vars => [\A tx \in Orphans' \ Orphans : Excused(tx)]_vars
<1> SUFFICES ASSUME IInv, Next
             PROVE  \A tx \in Orphans' \ Orphans : Excused(tx)
  OBVIOUS
<1> USE DEF database, requests, Goto, Reply, Holds
<1>1. CASE \/ \E url \in Urls : CreateMerchant(url)
           \/ \E m \in MerchantIds, url \in Urls : UpdateMerchantWebhookURL(m, url)
           \/ \E m \in MerchantIds, active \in BOOLEAN : SetMerchantActive(m, active)
           \/ \E m \in MerchantIds, quota \in Quotas : UpdateMerchantQuota(m, quota)
           \/ Tick
  BY <1>1, OrphansKept DEF CreateMerchant, UpdateMerchantWebhookURL,
     SetMerchantActive, UpdateMerchantQuota, Tick
<1>2. CASE Crash
  <2> SUFFICES ASSUME NEW tx \in Orphans', tx \notin Orphans
               PROVE  tx \in abandoned'
    BY DEF Excused
  <2>1. /\ UNCHANGED <<transactions, jobs>>
        /\ abandoned' = abandoned \union {t \in TxIds : \E h \in Handlers : Holds(h, t)}
    BY <1>2 DEF Crash
  <2>2. tx \in TxIds /\ Exists(transactions, tx) /\ ~Launched(tx)
    BY <2>1 DEF Orphans, Launched
  <2>3. \E h \in Handlers : Holds(h, tx)
    BY <2>2, OrphanRow
  <2> HIDE DEF Holds
  <2> QED
    BY <2>1, <2>2, <2>3
<1>3. ASSUME NEW h \in Handlers, NEW p \in Payloads, Send(h, p)
      PROVE  Orphans' \subseteq Orphans
  BY <1>3, OrphansKept DEF Send, IInv, TypeInv, TypeOK
<1>4. ASSUME NEW h \in Handlers, Handle(h)
      PROVE  \A tx \in Orphans' \ Orphans : Excused(tx)
  <2>1. CASE TierEnforcement(h) \/ CheckRequest(h) \/ CheckReplay(h)
    <3>1. /\ UNCHANGED <<transactions, jobs, payload>>
          /\ pc[h] \in {"tier", "check", "replay"}
          /\ \A g \in Handlers \ {h} : pc'[g] = pc[g]
      BY <2>1 DEF TierEnforcement, CheckRequest, CheckReplay, IInv, TypeInv, TypeOK
    <3> QED
      BY <3>1, OrphansKept
  <2>2. CASE IncrementMerchantCallCount(h)
    <3>1. /\ UNCHANGED <<transactions, jobs, payload>>
          /\ pc[h] = "count" /\ pc'[h] = "launch"
          /\ \A g \in Handlers \ {h} : pc'[g] = pc[g]
      BY <2>2 DEF IncrementMerchantCallCount, IInv, TypeInv, TypeOK
    <3> QED
      BY <3>1, OrphansKept
  <2>3. CASE Respond(h)
    <3>1. /\ UNCHANGED <<transactions, jobs>>
          /\ pc[h] = "reply"
          /\ \A g \in Handlers \ {h} : pc'[g] = pc[g] /\ payload'[g] = payload[g]
      BY <2>3 DEF Respond, Idle, IInv, TypeInv, TypeOK
    <3> QED
      BY <3>1, OrphansKept
  <2>4. CASE Insert(h)
    <3>1. /\ UNCHANGED <<jobs, payload>>
          /\ pc[h] = "insert"
          /\ \A g \in Handlers \ {h} : pc'[g] = pc[g]
      BY <2>4 DEF Insert, IInv, TypeInv, TypeOK
    <3>2. \A g \in Handlers : \A tx : Holds(g, tx) => Holds(g, tx)'
      BY <3>1
    <3>3. CASE UNCHANGED transactions
      BY <3>1, <3>2, <3>3, OrphansKept
    <3>4. CASE /\ Fault /\ Insertable(payload[h])
               /\ transactions' = Append(transactions, RowOf(payload[h]))
      <4>1. faults' > faults
        BY <3>4 DEF Fault, IInv, TypeInv, TypeOK
      <4>2. ASSUME NEW tx \in Orphans', tx \notin Orphans
            PROVE  ~Exists(transactions, tx)
        <5>1. /\ tx \in TxIds /\ ~Launched(tx) /\ \A g \in Handlers : ~(Holds(g, tx)')
          BY <3>1, <4>2 DEF Orphans, Launched
        <5>2. \A g \in Handlers : ~Holds(g, tx)
          BY <3>2, <5>1
        <5> QED
          BY <4>2, <5>1, <5>2, OrphanRow
      <4> QED
        BY <4>1, <4>2 DEF Excused
    <3>5. CASE /\ transactions' = Append(transactions, RowOf(payload[h]))
               /\ pc'[h] = "count"
      <4>1. RowOf(payload[h]) \in TransactionRow(TxIds, MerchantIds)
        BY <3>1, RowType DEF IInv, TypeInv, ServedTypeOK
      <4>2. Rows' = Rows \union {RowOf(payload[h])}
        BY <3>5, <4>1, RowsAppended DEF IInv
      <4>3. ASSUME NEW tx, Exists(transactions', tx)
            PROVE  Exists(transactions, tx) \/ tx = payload[h].provider_tx_id
        <5>1. \E r \in Rows' : r.provider_tx_id = tx
          BY <4>3 DEF Exists, Rows
        <5> QED
          BY <4>2, <5>1, ExistsRow DEF RowOf
      <4>4. Holds(h, payload[h].provider_tx_id)'
        BY <3>1, <3>5
      <4>5. ASSUME NEW tx \in Orphans'
            PROVE  tx \in Orphans
        <5>1. /\ tx \in TxIds /\ Exists(transactions', tx) /\ ~Launched(tx)
              /\ \A g \in Handlers : ~(Holds(g, tx)')
          BY <3>1, <4>5 DEF Orphans, Launched
        <5>2. tx # payload[h].provider_tx_id
          BY <3>1, <3>5, <5>1
        <5>3. Exists(transactions, tx)
          BY <4>3, <5>1, <5>2
        <5>4. \A g \in Handlers : ~Holds(g, tx)
          BY <3>2, <5>1
        <5> QED
          BY <5>1, <5>3, <5>4, OrphanRow
      <4> QED
        BY <4>5
    <3> QED
      BY <2>4, <3>3, <3>4, <3>5 DEF Insert, IInv, TypeInv, TypeOK
  <2>5. CASE Launch(h)
    <3> PICK tx0 : tx0 = payload[h].provider_tx_id
      OBVIOUS
    <3>1. /\ UNCHANGED <<transactions, payload>>
          /\ pc[h] = "launch"
          /\ \A g \in Handlers \ {h} : pc'[g] = pc[g]
      BY <2>5 DEF Launch, IInv, TypeInv, TypeOK
    <3>2. \A tx : Launched(tx)' <=> Launched(tx) \/ tx = tx0
      <4> PICK job : job = [id |-> 0, provider_tx_id |-> tx0,
                            merchant_id |-> payload[h].merchant_id,
                            status |-> payload[h].status, webhook_url |-> webhookUrl[h]]
        OBVIOUS
      <4>1. jobs' = Append(jobs, job)
        BY <2>5 DEF Launch
      <4>2. job \in Job /\ jobs \in Seq(Job)
        BY <3>1, PayloadType DEF IInv, TypeInv, TypeOK, ServedTypeOK, Job
      <4>3. /\ DOMAIN jobs' = DOMAIN jobs \union {Len(jobs) + 1}
            /\ \A i \in DOMAIN jobs : jobs'[i] = jobs[i]
            /\ jobs'[Len(jobs) + 1] = job
        BY <4>1, <4>2, AppendRow
      <4> QED
        BY <4>3 DEF Launched
    <3>3. ASSUME NEW tx \in Orphans'
          PROVE  tx \in Orphans
      <4>1. /\ tx \in TxIds /\ Exists(transactions, tx) /\ ~(Launched(tx)')
            /\ \A g \in Handlers : ~(Holds(g, tx)')
        BY <3>1, <3>3 DEF Orphans, Launched
      <4>2. tx # tx0 /\ ~Launched(tx)
        BY <3>2, <4>1
      <4>3. \A g \in Handlers : ~Holds(g, tx)
        BY <3>1, <4>1, <4>2
      <4> QED
        BY <4>1, <4>2, <4>3, OrphanRow
    <3> QED
      BY <3>3
  <2> QED
    BY <1>4, <2>1, <2>2, <2>3, <2>4, <2>5 DEF Handle
<1> QED
  BY <1>1, <1>2, <1>3, <1>4 DEF Next

(* Nothing but a crash while a handler holds it, or an INSERT committed    *)
(* and not answered, leaves a recorded payment without its notification.   *)
THEOREM OrphansComeFromFaults == Spec => OrphanedByFaultOnly
BY OrphansNext, Invariance, PTL DEF Spec, OrphanedByFaultOnly, Excused
=============================================================================
