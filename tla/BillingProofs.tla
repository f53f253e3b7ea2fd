--------------------------- MODULE BillingProofs ---------------------------
(***************************************************************************)
(* A merchant of Ingestion is billed at most once for each of its          *)
(* transactions.  The bound counts the calls about to be counted with the  *)
(* calls counted, and is inductive as it stands, given TypeInv.            *)
(***************************************************************************)
EXTENDS IngestionProofs

(* Both sides of the bound are sizes of finite sets.                       *)
LEMMA BilledSets ==
  ASSUME TypeInv, NEW m
  PROVE  /\ IsFiniteSet(Counting(m)) /\ Cardinality(Counting(m)) \in Nat
         /\ IsFiniteSet(RowsOf(m)) /\ Cardinality(RowsOf(m)) \in Nat
<1>1. Counting(m) \subseteq Handlers
  BY DEF Counting
<1>2. DOMAIN transactions = 1..Len(transactions) /\ Len(transactions) \in Nat
  BY DEF TypeInv, TypeOK
<1>3. RowsOf(m) \subseteq 1..Len(transactions) /\ IsFiniteSet(1..Len(transactions))
  BY <1>2, FS_Interval DEF RowsOf
<1> QED
  BY <1>1, <1>3, HandlersAssumption, FS_Subset, FS_CardinalityType

(* A step that leaves the rows and the counters as they are, and after     *)
(* which no more calls are about to be counted, keeps the bound.           *)
LEMMA BillingKept ==
  ASSUME TypeInv, NeverOvercharged,
         transactions' = transactions,
         DOMAIN merchants' = DOMAIN merchants,
         \A m \in DOMAIN merchants :
           merchants'[m].current_month_calls = merchants[m].current_month_calls,
         \A m \in DOMAIN merchants : Counting(m)' \subseteq Counting(m)
  PROVE  NeverOvercharged'
<1>1. ASSUME NEW m \in DOMAIN merchants
      PROVE  merchants'[m].current_month_calls + Cardinality(Counting(m)')
               <= Cardinality(RowsOf(m)')
  <2>1. RowsOf(m)' = RowsOf(m)
    BY DEF RowsOf
  <2>2. Cardinality(Counting(m)') <= Cardinality(Counting(m))
        /\ Cardinality(Counting(m)') \in Nat
    BY BilledSets, FS_Subset, FS_CardinalityType
  <2> QED
    BY <2>1, <2>2, BilledSets, MerchantNumbers DEF NeverOvercharged
<1> QED
  BY <1>1 DEF NeverOvercharged

(* A new merchant has no calls, and no handler serves it yet.              *)
LEMMA BillingCreate ==
  ASSUME TypeInv, NeverOvercharged, NEW url \in Urls, CreateMerchant(url)
  PROVE  NeverOvercharged'
<1> DEFINE n == Len(merchants) + 1
<1>1. /\ DOMAIN merchants' = DOMAIN merchants \union {n}
      /\ \A m \in DOMAIN merchants : merchants'[m] = merchants[m]
      /\ merchants'[n].current_month_calls = 0
      /\ n \notin DOMAIN merchants
  <2>1. NewMerchant(url, DefaultQuota) \in MerchantRow(Urls)
    BY BoundsAssumption DEF NewMerchant, MerchantRow
  <2>2. merchants \in Seq(MerchantRow(Urls))
    BY DEF TypeInv, TypeOK
  <2>3. merchants' = Append(merchants, NewMerchant(url, DefaultQuota))
    BY DEF CreateMerchant
  <2>4. merchants'[n] = NewMerchant(url, DefaultQuota)
    BY <2>1, <2>2, <2>3, AppendRow
  <2> QED
    BY <2>1, <2>2, <2>3, <2>4, AppendRow DEF NewMerchant
<1> HIDE DEF n
<1>2. \A m : Counting(m)' = Counting(m) /\ RowsOf(m)' = RowsOf(m)
  BY DEF CreateMerchant, requests, Counting, RowsOf
<1>3. Counting(n) = {}
  BY <1>1 DEF Counting, TypeInv, ServedTypeOK, Admission
<1>4. ASSUME NEW m \in DOMAIN merchants'
      PROVE  merchants'[m].current_month_calls + Cardinality(Counting(m))
               <= Cardinality(RowsOf(m))
  <2>1. CASE m = n
    BY <1>1, <1>3, <2>1, BilledSets, FS_EmptySet
  <2>2. CASE m \in DOMAIN merchants
    BY <1>1, <2>2 DEF NeverOvercharged
  <2> QED
    BY <1>1, <2>1, <2>2
<1> QED
  BY <1>2, <1>4 DEF NeverOvercharged

(* The updates of a merchant's row do not touch its counter.               *)
LEMMA BillingUpdate ==
  ASSUME TypeInv, NeverOvercharged,
         \/ \E m \in MerchantIds, url \in Urls : UpdateMerchantWebhookURL(m, url)
         \/ \E m \in MerchantIds, active \in BOOLEAN : SetMerchantActive(m, active)
         \/ \E m \in MerchantIds, quota \in Quotas : UpdateMerchantQuota(m, quota)
  PROVE  NeverOvercharged'
<1>1. /\ DOMAIN merchants' = DOMAIN merchants
      /\ \A m \in DOMAIN merchants :
           merchants'[m].current_month_calls = merchants[m].current_month_calls
  BY SelectMerchant DEF UpdateMerchantWebhookURL, SetMerchantActive,
       UpdateMerchantQuota, TypeInv, MerchantRow
<1>2. \A m : Counting(m)' = Counting(m)
  BY DEF UpdateMerchantWebhookURL, SetMerchantActive, UpdateMerchantQuota,
         requests, Counting
<1>3. transactions' = transactions
  BY DEF UpdateMerchantWebhookURL, SetMerchantActive, UpdateMerchantQuota
<1> QED
  BY <1>1, <1>2, <1>3, BillingKept

(* A row that is stored is one more, and one more call about to be counted.*)
LEMMA BillingInsert ==
  ASSUME TypeInv, NeverOvercharged, NEW h \in Handlers, Insert(h)
  PROVE  NeverOvercharged'
<1> DEFINE p == payload[h]
<1> USE DEF Goto, Reply
<1>1. /\ pc[h] = "insert" /\ UNCHANGED <<merchants, payload>>
      /\ \A g \in Handlers \ {h} : pc'[g] = pc[g]
  BY DEF Insert, TypeInv, TypeOK
<1>2. CASE transactions' = transactions /\ pc'[h] = "reply"
  <2>1. \A m : Counting(m)' \subseteq Counting(m)
    BY <1>1, <1>2 DEF Counting
  <2> QED
    BY <1>1, <1>2, <2>1, BillingKept
<1>3. CASE transactions' = Append(transactions, RowOf(p))
  <2>1. /\ transactions \in Seq(TransactionRow(TxIds, MerchantIds))
        /\ RowOf(p) \in TransactionRow(TxIds, MerchantIds)
    BY <1>1, RowType DEF TypeInv, TypeOK, ServedTypeOK
  <2> DEFINE n == Len(transactions) + 1
  <2>2. /\ DOMAIN transactions' = DOMAIN transactions \union {n}
        /\ \A i \in DOMAIN transactions : transactions'[i] = transactions[i]
        /\ transactions'[n] = RowOf(p)
        /\ n \notin DOMAIN transactions
    BY <1>3, <2>1, AppendRow
  <2> HIDE DEF n
  <2>3. ASSUME NEW m \in DOMAIN merchants
        PROVE  merchants[m].current_month_calls + Cardinality(Counting(m)')
                 <= Cardinality(RowsOf(m)')
    <3>1. CASE m = p.merchant_id
      <4>1. Counting(m)' \subseteq Counting(m) \union {h} /\ h \notin Counting(m)
        BY <1>1 DEF Counting
      <4>2. RowsOf(m)' = RowsOf(m) \union {n} /\ n \notin RowsOf(m)
        BY <2>2, <3>1 DEF RowsOf, RowOf
      <4>3. /\ Cardinality(Counting(m) \union {h}) = Cardinality(Counting(m)) + 1
            /\ IsFiniteSet(Counting(m) \union {h})
        BY <4>1, BilledSets, FS_AddElement
      <4>4. /\ Cardinality(Counting(m)') <= Cardinality(Counting(m)) + 1
            /\ Cardinality(Counting(m)') \in Nat
        BY <4>1, <4>3, FS_Subset, FS_CardinalityType
      <4>5. Cardinality(RowsOf(m)') = Cardinality(RowsOf(m)) + 1
        BY <4>2, BilledSets, FS_AddElement
      <4> QED
        BY <4>4, <4>5, BilledSets, MerchantNumbers DEF NeverOvercharged
    <3>2. CASE m # p.merchant_id
      <4>1. Counting(m)' = Counting(m)
        BY <1>1, <3>2 DEF Counting
      <4>2. RowsOf(m)' = RowsOf(m)
        BY <2>2, <3>2 DEF RowsOf, RowOf
      <4> QED
        BY <4>1, <4>2 DEF NeverOvercharged
    <3> QED
      BY <3>1, <3>2
  <2> QED
    BY <1>1, <2>3 DEF NeverOvercharged
<1> QED
  BY <1>2, <1>3 DEF Insert, TypeInv, TypeOK

(* The call is counted once at most, and no longer about to be.            *)
LEMMA BillingCount ==
  ASSUME TypeInv, NeverOvercharged, NEW h \in Handlers, IncrementMerchantCallCount(h)
  PROVE  NeverOvercharged'
<1> PICK k : k = payload[h].merchant_id
  OBVIOUS
<1> USE DEF Goto
<1>1. k \in DOMAIN merchants
  BY DEF IncrementMerchantCallCount, TypeInv, ServedTypeOK, Admission
<1>2. /\ transactions' = transactions /\ DOMAIN merchants' = DOMAIN merchants
      /\ \A m \in DOMAIN merchants :
           merchants'[m].current_month_calls \in
             {merchants[m].current_month_calls,
              IF m = k THEN merchants[m].current_month_calls + 1
                       ELSE merchants[m].current_month_calls}
  BY <1>1, SelectMerchant DEF IncrementMerchantCallCount, TypeInv, MerchantRow
<1>3. /\ pc[h] = "count" /\ pc'[h] = "launch" /\ payload' = payload
      /\ \A g \in Handlers \ {h} : pc'[g] = pc[g]
  BY DEF IncrementMerchantCallCount, TypeInv, TypeOK
<1>4. ASSUME NEW m \in DOMAIN merchants
      PROVE  merchants'[m].current_month_calls + Cardinality(Counting(m)')
               <= Cardinality(RowsOf(m)')
  <2>1. /\ merchants[m].current_month_calls + Cardinality(Counting(m))
             <= Cardinality(RowsOf(m))
        /\ RowsOf(m)' = RowsOf(m)
    BY <1>2 DEF NeverOvercharged, RowsOf
  <2>2. CASE m = k
    <3>1. h \in Counting(m) /\ Counting(m)' = Counting(m) \ {h}
      BY <1>3, <2>2 DEF Counting
    <3>2. Cardinality(Counting(m)') = Cardinality(Counting(m)) - 1
      BY <3>1, BilledSets, FS_RemoveElement
    <3> QED
      BY <1>2, <2>1, <2>2, <3>2, BilledSets, MerchantNumbers
  <2>3. CASE m # k
    <3>1. Counting(m)' = Counting(m)
      BY <1>3, <2>3 DEF Counting
    <3> QED
      BY <1>2, <2>1, <2>3, <3>1
  <2> QED
    BY <2>2, <2>3
<1> QED
  BY <1>2, <1>4 DEF NeverOvercharged

LEMMA BillingNext == TypeInv /\ NeverOvercharged /\ [Next]_vars => NeverOvercharged'
<1> SUFFICES ASSUME TypeInv, NeverOvercharged, [Next]_vars
             PROVE  NeverOvercharged'
  OBVIOUS
<1> USE DEF database, requests, Goto, Reply
<1>1. CASE UNCHANGED vars \/ Tick \/ Crash
  BY <1>1, BillingKept DEF vars, Tick, Crash, Counting
<1>2. ASSUME NEW h \in Handlers, NEW p \in Payloads, Send(h, p)
      PROVE  NeverOvercharged'
  BY <1>2, BillingKept DEF Send, Counting, TypeInv, TypeOK
<1>3. ASSUME NEW h \in Handlers, Handle(h)
      PROVE  NeverOvercharged'
  <2>1. CASE \/ TierEnforcement(h) \/ CheckRequest(h) \/ CheckReplay(h)
             \/ Launch(h) \/ Respond(h)
    <3>1. /\ UNCHANGED <<merchants, transactions>>
          /\ pc'[h] # "count"
          /\ \A g \in Handlers \ {h} : pc'[g] = pc[g] /\ payload'[g] = payload[g]
      BY <2>1 DEF TierEnforcement, CheckRequest, CheckReplay, Launch, Respond, Idle,
                  TypeInv, TypeOK
    <3> QED
      BY <3>1, BillingKept DEF Counting
  <2> QED
    BY <1>3, <2>1, BillingInsert, BillingCount DEF Handle
<1> QED
  BY <1>1, <1>2, <1>3, BillingCreate, BillingUpdate DEF Next

(* However often MTN repeats a webhook and whatever fails, a merchant is   *)
(* charged at most one call for each of its transactions stored.           *)
THEOREM BilledOnce == Spec => []NeverOvercharged
<1>1. Init => NeverOvercharged
  BY DEF Init, NeverOvercharged
<1>2. IInv /\ NeverOvercharged /\ [Next]_vars => NeverOvercharged'
  BY BillingNext DEF IInv
<1> QED
  BY <1>1, <1>2, Invariance, PTL DEF Spec
=============================================================================
