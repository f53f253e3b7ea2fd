---------------------------- MODULE ReadsProofs ----------------------------
(***************************************************************************)
(* Theorems about Reads: what a client has been shown is its own, is       *)
(* current, and is all there was when it began to page.                    *)
(***************************************************************************)
EXTENDS Reads, TLAPS, FiniteSetTheorems, SequenceTheorems, WellFoundedInduction

----------------------------------------------------------------------------
(* The inductive invariant.                                                *)

UniqueIds == \A t, u \in rows : t.id = u.id => t = u

(* The rows the client pages through.                                      *)
Mine == Selected(rows, client.merchant_id, client.status)

(* A request has no reply until it is answered; only a client that looks   *)
(* up sends one that is not for a list.                                    *)
RequestInv ==
  /\ pc \in Handlers => asked.handler = pc
  /\ pc = "logs" => asked.handler = "GetDeliveryLogs"
  /\ pc # "idle" => reply = NoReply
  /\ asked.handler # "List" => client.reads = "lookups"

(* What was shown, and what was there when the client began, is still      *)
(* there, is the client's, and passes its filter.                          *)
ShownInv == listed \subseteq Ids(Mine) /\ wanted \subseteq Ids(Mine)

Counted == {AnyStatus, "SUCCESSFUL", "FAILED"}

(* What the client asked for has not gone.                                 *)
KnownInv ==
  /\ asked.handler # "List" =>
       known.payments \subseteq PaymentsFor(asked.handler, asked.id)
  /\ asked.handler = "GetDeliveryLogs" =>
       known.logs \subseteq LogsOf(delivery_logs, asked.id)

(* The client's rows that are newer than t.                                *)
Newer(t) == {u.id : u \in {v \in Mine : v.created_at > t.created_at}}

(* A row that the client still has to be shown is not on an earlier page:  *)
(* there are enough newer rows to fill those.                              *)
AheadInv ==
  ~cut => \A t \in rows :
    t.id \in wanted \ listed /\ ~SharesInstant(t.id) =>
      ~complete /\ (page - 1) * client.limit <= Cardinality(Newer(t))

(* Zenon reads the name of the repair, the SMT solver does not.            *)
SelectsOwner == "select merchant_id" \in build

OwnReply ==
  Answered({"GetTransaction", "GetByExternalID"}) =>
    \A t \in reply.body : t.merchant_id = client.merchant_id

ReplyInv ==
  /\ Answered({"Metrics"}) => reply.body \in [Counted -> Nat]
  /\ OwnReply /\ ReplyIsCurrent /\ OwnerCanReadOnceRepaired

IInv ==
  /\ TypeOK /\ IsFiniteSet(rows) /\ UniqueIds
  /\ RequestInv /\ ShownInv /\ KnownInv /\ AheadInv /\ ReplyInv

----------------------------------------------------------------------------
(* Sets of rows and of their ids.                                          *)

(* There are no more ids than rows.                                        *)
LEMMA FiniteIds ==
  ASSUME NEW S, IsFiniteSet(S)
  PROVE  IsFiniteSet(Ids(S)) /\ Cardinality(Ids(S)) <= Cardinality(S)
<1> DEFINE f == [t \in S |-> t.id]
<1>1. f \in Surjection(S, Ids(S))
  BY DEF Surjection, Ids
<1> QED
  BY <1>1, FS_Surjection

LEMMA FiniteNewer ==
  ASSUME NEW S, IsFiniteSet(S), NEW N \in SUBSET Ids(S)
  PROVE  IsFiniteSet(N) /\ Cardinality(N) \in Nat
BY FiniteIds, FS_Subset, FS_CardinalityType

(* The metrics of more rows are at least as large.                         *)
LEMMA MetricsGrow ==
  ASSUME NEW S, NEW T, S \subseteq T, IsFiniteSet(T)
  PROVE  /\ GetMetrics(S) \in [Counted -> Nat] /\ GetMetrics(T) \in [Counted -> Nat]
         /\ \A status \in Counted : GetMetrics(S)[status] <= GetMetrics(T)[status]
<1> DEFINE m == client.merchant_id
<1>1. ASSUME NEW status
      PROVE  /\ Cardinality(Selected(S, m, status)) \in Nat
             /\ Cardinality(Selected(T, m, status)) \in Nat
             /\ Cardinality(Selected(S, m, status)) <= Cardinality(Selected(T, m, status))
  <2>1. /\ Selected(S, m, status) \subseteq Selected(T, m, status)
        /\ Selected(T, m, status) \subseteq T
    BY DEF Selected
  <2> QED
    BY <2>1, FS_Subset, FS_CardinalityType
<1>2. /\ GetMetrics(S) = [status \in Counted |-> Cardinality(Selected(S, m, status))]
      /\ GetMetrics(T) = [status \in Counted |-> Cardinality(Selected(T, m, status))]
  BY DEF GetMetrics, Counted
<1> HIDE DEF m
<1> QED
  BY <1>1, <1>2

(* The payments that a request asks for are rows, and none of them goes.   *)
LEMMA PaymentsGrow ==
  ASSUME NEW handler \in Handlers \ {"List"}, NEW id
  PROVE  /\ PaymentsFor(handler, id) \subseteq OfClient(rows)
         /\ handler # "Metrics" /\ handler # "GetByExternalID" =>
              \A t \in PaymentsFor(handler, id) : t.id = id
         /\ rows \subseteq rows' /\ client' = client =>
              PaymentsFor(handler, id) \subseteq PaymentsFor(handler, id)'
BY DEF PaymentsFor, OfOrder, OfClient, Handlers

(* Of a set of payments that is not empty one is the latest: the set of    *)
(* the later ones is the smallest, as there is none in it.                 *)
LEMMA LatestExists ==
  ASSUME NEW S, IsFiniteSet(S), S # {}, \A t \in S : t.created_at \in Nat
  PROVE  \E t \in S : \A u \in S : t.created_at >= u.created_at
<1> DEFINE Later(t) == {u \in S : u.created_at > t.created_at}
           T == {Later(t) : t \in S}
<1>1. IsWellFoundedOn(StrictSubsetOrdering(S), FiniteSubsetsOf(S))
  BY FS_StrictSubsetOrderingWellFounded
<1>2. T \subseteq FiniteSubsetsOf(S) /\ T # {}
  <2>1. \A U \in SUBSET S : U \in FiniteSubsetsOf(S)
    BY FS_Subset DEF FiniteSubsetsOf
  <2> QED
    BY <2>1
<1>3. PICK x \in T : \A y \in T : <<y, x>> \notin StrictSubsetOrdering(S)
  <2> HIDE DEF T
  <2> QED
    BY <1>1, <1>2, WFMin
<1>4. PICK t \in S : x = Later(t)
  BY <1>3
<1>5. ASSUME NEW u \in S, u.created_at > t.created_at
      PROVE  FALSE
  <2>1. u \in Later(t) /\ u \notin Later(u)
    BY <1>5
  <2>2. Later(u) \subseteq Later(t)
    BY <1>5
  <2>3. Later(u) \in T /\ Later(u) \in SUBSET S /\ Later(t) \in SUBSET S
    OBVIOUS
  <2>4. <<Later(u), Later(t)>> \in StrictSubsetOrdering(S)
    BY <2>1, <2>2, <2>3 DEF StrictSubsetOrdering
  <2> QED
    BY <1>3, <1>4, <2>3, <2>4
<1> QED
  BY <1>5

(* A row whose id was shown is the row that was shown.                     *)
LEMMA ShownRows ==
  ASSUME UniqueIds, ShownInv, NEW t \in rows, t.id \in listed \union wanted
  PROVE  t \in Mine
BY DEF UniqueIds, ShownInv, Mine, Selected, Ids

LEMMA PropertiesHold == IInv => OwnRowsOnly /\ ReplyIsCurrent /\ OwnerCanReadOnceRepaired
BY ShownRows DEF IInv, ReplyInv, OwnReply, OwnRowsOnly, Mine, Selected

(* Only rows of one instant can be missing from what was listed.           *)
LEMMA PagesHold == IInv => PagingComplete
<1> SUFFICES ASSUME IInv, complete, ~cut, NEW id \in wanted \ listed
             PROVE  SharesInstant(id)
  BY DEF PagingComplete
<1>1. PICK t \in rows : t.id = id
  BY DEF IInv, ShownInv, Ids, Mine, Selected
<1> QED
  BY <1>1 DEF IInv, AheadInv

(* No property is about a request that is not answered, or is answered     *)
(* with an error other than 404.                                           *)
LEMMA NothingSaid ==
  ASSUME reply' = NoReply \/ reply'.code \in {401, 500}
  PROVE  ReplyInv'
<1>1. \A handlers : ~Answered(handlers)'
  BY DEF Answered
<1>2. OwnReply' /\ ReplyIsCurrent'
  BY <1>1 DEF OwnReply, ReplyIsCurrent
<1>3. OwnerCanReadOnceRepaired'
  <2>1. reply' # NoReply => reply'.code # 404
    OBVIOUS
  <2> QED
    BY <2>1 DEF OwnerCanReadOnceRepaired
<1> QED
  BY <1>1, <1>2, <1>3 DEF ReplyInv

(* What was said before holds of a step that says nothing new.             *)
LEMMA ReplyKept ==
  ASSUME IInv, UNCHANGED <<rows, client, asked, known, reply, faults, build>>
  PROVE  ReplyInv'
<1>1. \A handlers : Answered(handlers)' <=> Answered(handlers)
  BY DEF Answered
<1>2. /\ GetMetrics(rows)' = GetMetrics(rows)
      /\ GetMetrics(known.payments)' = GetMetrics(known.payments)
  BY DEF GetMetrics
<1>3. OwnReply' /\ ReplyIsCurrent'
  BY <1>1, <1>2 DEF IInv, ReplyInv, OwnReply, ReplyIsCurrent
<1>4. OwnerCanReadOnceRepaired'
  BY DEF IInv, ReplyInv, OwnerCanReadOnceRepaired
<1> QED
  BY <1>1, <1>3, <1>4 DEF IInv, ReplyInv

----------------------------------------------------------------------------
(* Steps that change the rows.                                             *)

(* What a query can tell of a row, but for its status.                     *)
SameRow(t, u) ==
  t.id = u.id /\ t.merchant_id = u.merchant_id /\ t.created_at = u.created_at

(* No row is deleted, and a row keeps its id, its owner and its instant.   *)
RowsEvolve ==
  /\ \A u \in rows : \E t \in rows' : SameRow(t, u) /\ (u \in Mine => t \in Mine')
  /\ \A t \in rows' : t.id \in Ids(rows) => \E u \in rows : SameRow(t, u)

(* What may be added, or updated, without a row being missed: a row only   *)
(* moves to later pages.                                                   *)
LEMMA AheadKept ==
  ASSUME IInv, RowsEvolve, IsFiniteSet(rows'), client' = client, UNCHANGED listing
  PROVE  ShownInv' /\ AheadInv'
<1>1. Ids(Mine) \subseteq Ids(Mine')
  <2> SUFFICES ASSUME NEW u \in Mine PROVE u.id \in Ids(Mine')
    BY DEF Ids
  <2>1. u \in rows
    BY DEF Mine, Selected
  <2>2. PICK t \in Mine' : SameRow(t, u)
    BY <2>1 DEF RowsEvolve
  <2> QED
    BY <2>2 DEF SameRow, Ids
<1>2. ShownInv'
  BY <1>1 DEF IInv, ShownInv, listing, Ids
<1>3. ASSUME NEW t \in rows', t.id \in wanted \ listed, ~SharesInstant(t.id)', ~cut
      PROVE  ~complete /\ (page - 1) * client.limit <= Cardinality(Newer(t)')
  <2>1. t.id \in Ids(rows)
    BY <1>3 DEF IInv, ShownInv, Ids, Mine, Selected
  <2>2. PICK u \in rows : SameRow(t, u)
    BY <2>1 DEF RowsEvolve
  <2>3. ~SharesInstant(u.id)
    <3> SUFFICES ASSUME NEW v \in rows, NEW w \in rows, v.id = u.id, w.id # u.id,
                        v.merchant_id = w.merchant_id, v.created_at = w.created_at
                 PROVE  SharesInstant(t.id)'
      BY <1>3 DEF SharesInstant
    <3>1. PICK v1 \in rows', w1 \in rows' : SameRow(v1, v) /\ SameRow(w1, w)
      BY DEF RowsEvolve
    <3> QED
      BY <2>2, <3>1 DEF SameRow, SharesInstant
  <2>4. ~complete /\ (page - 1) * client.limit <= Cardinality(Newer(u))
    BY <1>3, <2>2, <2>3 DEF IInv, AheadInv, SameRow
  <2>5. Newer(u) \subseteq Newer(t)'
    <3> SUFFICES ASSUME NEW v \in Mine, v.created_at > u.created_at
                 PROVE  v.id \in Newer(t)'
      BY DEF Newer
    <3>1. PICK w \in Mine' : SameRow(w, v)
      BY DEF RowsEvolve, Mine, Selected
    <3> QED
      BY <2>2, <3>1 DEF SameRow, Newer
  <2>6. /\ Cardinality(Newer(u)) \in Nat /\ Cardinality(Newer(t)') \in Nat
        /\ Cardinality(Newer(u)) <= Cardinality(Newer(t)')
    <3>1. IsFiniteSet(Newer(t)') /\ Cardinality(Newer(t)') \in Nat
      <4>1. Newer(t)' \subseteq Ids(rows')
        BY DEF Newer, Mine, Selected, Ids
      <4> QED
        BY <4>1, FiniteNewer
    <3> QED
      BY <2>5, <3>1, FS_Subset, FS_CardinalityType
  <2>7. (page - 1) * client.limit \in Int
    BY RowsAssumption DEF IInv, TypeOK, Client
  <2> QED
    BY <2>4, <2>6, <2>7
<1>4. AheadInv'
  BY <1>3 DEF AheadInv, listing
<1> QED
  BY <1>2, <1>4

(* A step that leaves the rows alone.                                      *)
LEMMA ListingKept ==
  ASSUME IInv, rows' = rows, client' = client, UNCHANGED listing
  PROVE  IsFiniteSet(rows') /\ UniqueIds' /\ ShownInv' /\ AheadInv'
<1>1. \A t : Newer(t)' = Newer(t) /\ SharesInstant(t)' = SharesInstant(t)
  BY DEF Newer, Mine, SharesInstant
<1> QED
  BY <1>1 DEF IInv, UniqueIds, ShownInv, AheadInv, Mine, listing

(* A new row has its own id; a client that looks up sees payments, which   *)
(* never change.                                                           *)
LEMMA InsertStep ==
  ASSUME IInv, NEW p \in Payments \union Letters, NEW now \in Instants, Insert(p, now)
  PROVE  IInv'
<1> DEFINE new == [p EXCEPT !.created_at = now]
<1>1. p \in Row /\ now \in Nat
  BY RowsAssumption
<1>2. new \in Row /\ new.id = p.id /\ new.status = p.status
  BY <1>1 DEF Row
<1> HIDE DEF new
<1>3. /\ rows' = rows \union {new} /\ new.id \notin Ids(rows)
      /\ UNCHANGED <<delivery_logs, active, client, request, listing, faults, build>>
      /\ p \in (IF client.reads = "delivery_dlq" THEN Letters ELSE Payments)
  BY <1>2 DEF Insert, new
<1>4. p.status \in (IF client.reads = "delivery_dlq" THEN DLQStatus ELSE TxStatus)
  BY <1>3, RowsAssumption DEF DLQStatus
<1>5. TypeOK'
  BY <1>2, <1>3, <1>4 DEF IInv, TypeOK, request, listing, Ids
<1>6. IsFiniteSet(rows')
  BY <1>3, FS_AddElement DEF IInv
<1>7. UniqueIds'
  BY <1>3 DEF IInv, UniqueIds, Ids
<1>8. RowsEvolve
  BY <1>3 DEF RowsEvolve, SameRow, Mine, Selected, Ids
<1>9. ShownInv' /\ AheadInv'
  BY <1>3, <1>6, <1>8, AheadKept
<1>10. RequestInv'
  BY <1>3 DEF IInv, RequestInv, request
<1>11. /\ GetMetrics(rows) \in [Counted -> Nat] /\ GetMetrics(rows)' \in [Counted -> Nat]
       /\ \A status \in Counted : GetMetrics(rows)[status] <= GetMetrics(rows)'[status]
  BY <1>3, <1>6, MetricsGrow DEF GetMetrics
<1>12. KnownInv'
  <2>1. asked' = asked /\ known' = known /\ rows \subseteq rows' /\ client' = client
    BY <1>3 DEF request
  <2>2. asked.handler # "List" =>
          known.payments \subseteq PaymentsFor(asked.handler, asked.id)'
    BY <2>1, PaymentsGrow DEF IInv, KnownInv, TypeOK
  <2>3. \A id : LogsOf(delivery_logs, id)' = LogsOf(delivery_logs, id)
    BY <1>3 DEF LogsOf
  <2> QED
    BY <2>1, <2>2, <2>3 DEF IInv, KnownInv
<1>13. ReplyInv'
  <2>1. asked' = asked /\ known' = known /\ reply' = reply
    BY <1>3 DEF request
  <2>2. Answered({"Metrics"}) => \A status \in DOMAIN reply.body :
          /\ GetMetrics(known.payments)[status] <= reply.body[status]
          /\ reply.body[status] <= GetMetrics(rows)'[status]
    <3> SUFFICES ASSUME Answered({"Metrics"}), NEW status \in DOMAIN reply.body
                 PROVE  /\ GetMetrics(known.payments)[status] <= reply.body[status]
                        /\ reply.body[status] <= GetMetrics(rows)'[status]
      OBVIOUS
    <3>1. reply.body \in [Counted -> Nat]
      BY DEF IInv, ReplyInv
    <3> QED
      BY <1>11, <3>1 DEF IInv, ReplyInv, ReplyIsCurrent
  <2>3. GetMetrics(known.payments)' = GetMetrics(known.payments)
    BY <1>3, <2>1 DEF GetMetrics
  <2>4. ReplyIsCurrent'
    BY <1>3, <2>1, <2>2, <2>3 DEF IInv, ReplyInv, ReplyIsCurrent, Answered
  <2> QED
    BY <1>3, <2>1, <2>4
    DEF IInv, ReplyInv, OwnReply, OwnerCanReadOnceRepaired, Answered
<1> QED
  BY <1>5, <1>6, <1>7, <1>9, <1>10, <1>12, <1>13 DEF IInv

(* A client that reads dead letters has no filter on their status.         *)
LEMMA UpdateStep ==
  ASSUME IInv, NEW t \in rows, NEW status \in {"REQUEUED", "RESOLVED"},
         UpdateDLQ(t, status)
  PROVE  IInv'
<1> DEFINE new == [t EXCEPT !.status = status]
<1>1. t \in Row /\ status \in DLQStatus
  BY DEF IInv, TypeOK, DLQStatus
<1>2. new \in Row /\ SameRow(new, t) /\ new.status = status
  BY <1>1 DEF Row, SameRow
<1> HIDE DEF new
<1>3. /\ rows' = (rows \ {t}) \union {new} /\ client.reads = "delivery_dlq"
      /\ UNCHANGED <<delivery_logs, active, client, request, listing, faults, build>>
  BY DEF UpdateDLQ, new
<1>4. client.status = AnyStatus
  BY <1>3, RowsAssumption DEF IInv, TypeOK
<1>5. TypeOK'
  BY <1>1, <1>2, <1>3 DEF IInv, TypeOK, request, listing, SameRow, Ids
<1>6. IsFiniteSet(rows')
  BY <1>3, FS_AddElement, FS_RemoveElement DEF IInv
<1>7. UniqueIds'
  BY <1>2, <1>3 DEF IInv, UniqueIds, SameRow
<1>8. RowsEvolve
  BY <1>2, <1>3, <1>4 DEF RowsEvolve, SameRow, Mine, Selected, Ids
<1>9. ShownInv' /\ AheadInv'
  BY <1>3, <1>6, <1>8, AheadKept
<1>10. asked.handler = "List" /\ asked' = asked /\ RequestInv'
  BY <1>3 DEF IInv, RequestInv, request
<1>11. KnownInv' /\ ReplyInv'
  <2>1. KnownInv' /\ OwnReply' /\ ReplyIsCurrent' /\ ~Answered({"Metrics"})'
    BY <1>10 DEF KnownInv, OwnReply, ReplyIsCurrent, Answered
  <2>2. OwnerCanReadOnceRepaired'
    <3>1. UNCHANGED <<reply, asked, known, faults, build>>
      BY <1>3 DEF request
    <3> QED
      BY <3>1 DEF IInv, ReplyInv, OwnerCanReadOnceRepaired
  <2> QED
    BY <2>1, <2>2 DEF ReplyInv
<1> QED
  BY <1>5, <1>6, <1>7, <1>9, <1>10, <1>11 DEF IInv

LEMMA LogStep ==
  ASSUME IInv, NEW t \in rows, InsertDeliveryLog(t)
  PROVE  IInv'
<1>1. /\ delivery_logs' = Append(delivery_logs, t.id)
      /\ UNCHANGED <<rows, active, client, request, listing, faults, build>>
  BY Zenon DEF InsertDeliveryLog
<1>2. t.id \in Nat /\ t.id \in Ids(rows)
  BY DEF IInv, TypeOK, Row, Ids
<1>3. TypeOK'
  <2>1. delivery_logs \in Seq(Nat) /\ \A i \in DOMAIN delivery_logs : delivery_logs[i] \in Ids(rows)
    BY DEF IInv, TypeOK
  <2>2. /\ delivery_logs' \in Seq(Nat)
        /\ \A i \in DOMAIN delivery_logs' : delivery_logs'[i] \in Ids(rows)
    BY <1>1, <1>2, <2>1
  <2>3. Ids(rows') = Ids(rows)
    BY <1>1
  <2> QED
    BY <1>1, <2>2, <2>3 DEF IInv, TypeOK, request, listing
<1>4. IsFiniteSet(rows') /\ UniqueIds' /\ ShownInv' /\ AheadInv'
  BY <1>1, ListingKept
<1>5. \A id : LogsOf(delivery_logs, id) \subseteq LogsOf(delivery_logs, id)'
  <2>1. delivery_logs \in Seq(Nat)
    BY DEF IInv, TypeOK
  <2>2. \A i \in DOMAIN delivery_logs :
          i \in DOMAIN delivery_logs' /\ delivery_logs'[i] = delivery_logs[i]
    BY <1>1, <2>1
  <2> QED
    BY <2>2 DEF LogsOf
<1>6. asked' = asked /\ known' = known /\ reply' = reply /\ pc' = pc
  BY <1>1 DEF request
<1>7. RequestInv' /\ KnownInv'
  BY <1>1, <1>5, <1>6 DEF IInv, RequestInv, KnownInv, PaymentsFor, OfOrder, OfClient
<1>8. ReplyInv'
  BY <1>1, <1>6, ReplyKept
<1> QED
  BY <1>3, <1>4, <1>7, <1>8 DEF IInv

LEMMA ActiveStep ==
  ASSUME IInv, SetMerchantActive
  PROVE  IInv'
<1>1. /\ active' = ~active
      /\ UNCHANGED <<rows, delivery_logs, client, request, listing, faults, build>>
  BY DEF SetMerchantActive
<1>2. TypeOK'
  BY <1>1 DEF IInv, TypeOK, request, listing
<1>3. IsFiniteSet(rows') /\ UniqueIds' /\ ShownInv' /\ AheadInv'
  BY <1>1, ListingKept
<1>4. asked' = asked /\ known' = known /\ reply' = reply /\ pc' = pc
  BY <1>1 DEF request
<1>5. RequestInv' /\ KnownInv' /\ ReplyInv'
  BY <1>1, <1>4, ReplyKept
  DEF IInv, RequestInv, KnownInv, PaymentsFor, OfOrder, OfClient, LogsOf
<1> QED
  BY <1>2, <1>3, <1>5 DEF IInv

----------------------------------------------------------------------------
(* Requests.                                                               *)

LEMMA KnownKept ==
  ASSUME IInv, UNCHANGED <<tables, client, asked, known>>
  PROVE  KnownInv'
BY DEF IInv, KnownInv, PaymentsFor, OfOrder, OfClient, LogsOf, tables

(* The first page is asked for: what is there is wanted, and the first     *)
(* page has nothing before it.                                             *)
LEMMA TurnPageStep ==
  ASSUME IInv, TurnPage
  PROVE  IInv'
<1>1. /\ UNCHANGED <<tables, client, known, page, listed, complete, cut, faults, build>>
      /\ pc' = "auth" /\ asked' = [handler |-> "List", id |-> 0] /\ reply' = NoReply
      /\ ~complete
  BY DEF TurnPage, Request
<1>2. wanted' = wanted \/ (page = 1 /\ wanted' = Ids(Mine))
  BY DEF TurnPage, Mine
<1>3. Mine \subseteq Row
  BY DEF IInv, TypeOK, Mine, Selected
<1>4. TypeOK'
  <2>1. wanted' \subseteq Nat
    <3>1. Ids(Mine) \subseteq Nat
      BY <1>3 DEF Ids, Row
    <3>2. wanted \subseteq Nat
      BY DEF IInv, TypeOK
    <3> QED
      BY <1>2, <3>1, <3>2
  <2> QED
    BY <1>1, <2>1 DEF IInv, TypeOK, Handlers, tables
<1>5. IsFiniteSet(rows') /\ UniqueIds' /\ ShownInv'
  BY <1>1, <1>2 DEF IInv, UniqueIds, ShownInv, Mine, tables
<1>6. AheadInv'
  <2>1. CASE wanted' = wanted
    <3>1. UNCHANGED listing
      BY <1>1, <2>1 DEF listing
    <3> QED
      BY <1>1, <3>1, ListingKept DEF tables
  <2>2. CASE page = 1
    <3>1. (page - 1) * client.limit = 0
      BY <2>2, RowsAssumption DEF IInv, TypeOK, Client
    <3>2. ASSUME NEW t PROVE 0 <= Cardinality(Newer(t)')
      <4>1. Newer(t)' \subseteq Ids(rows) /\ IsFiniteSet(rows)
        BY <1>1 DEF Newer, Mine, Selected, Ids, tables, IInv
      <4> QED
        BY <4>1, FiniteNewer
    <3> QED
      BY <1>1, <3>1, <3>2 DEF AheadInv
  <2> QED
    BY <1>2, <2>1, <2>2
<1>7. RequestInv' /\ KnownInv' /\ ReplyInv'
  BY <1>1, NothingSaid DEF RequestInv, KnownInv, Handlers
<1> QED
  BY <1>4, <1>5, <1>6, <1>7 DEF IInv

LEMMA LookUpStep ==
  ASSUME IInv, NEW handler \in Handlers \ {"List"}, NEW id \in Nat, LookUp(handler, id)
  PROVE  IInv'
<1>1. /\ UNCHANGED <<tables, client, listing, faults, build>>
      /\ client.reads = "lookups" /\ known' = Stored(handler, id)
      /\ pc' = "auth" /\ asked' = [handler |-> handler, id |-> id] /\ reply' = NoReply
  BY DEF LookUp, Request
<1>2. TypeOK'
  BY <1>1 DEF IInv, TypeOK, tables, listing
<1>3. IsFiniteSet(rows') /\ UniqueIds' /\ ShownInv' /\ AheadInv'
  BY <1>1, ListingKept DEF tables
<1>4. RequestInv' /\ ReplyInv'
  BY <1>1, NothingSaid DEF RequestInv, Handlers
<1>5. KnownInv'
  <2>1. /\ PaymentsFor(handler, id)' = PaymentsFor(handler, id)
        /\ LogsOf(delivery_logs, id)' = LogsOf(delivery_logs, id)
    BY <1>1 DEF PaymentsFor, OfOrder, OfClient, LogsOf, tables
  <2>2. /\ known'.payments = PaymentsFor(handler, id)
        /\ handler = "GetDeliveryLogs" => known'.logs = LogsOf(delivery_logs, id)
    BY <1>1 DEF Stored
  <2> QED
    BY <1>1, <2>1, <2>2 DEF KnownInv
<1> QED
  BY <1>2, <1>3, <1>4, <1>5 DEF IInv

----------------------------------------------------------------------------
(* Replies.                                                                *)

(* What a step of a handler that only reads leaves alone.                  *)
LEMMA HandlerStep ==
  ASSUME IInv, UNCHANGED <<tables, client, asked, known, listing, build>>,
         faults' \in 0..MaxFaults,
         \/ pc' = asked.handler \/ (pc' = "logs" /\ asked.handler = "GetDeliveryLogs")
            \/ pc' = "idle",
         pc' # "idle" => reply' = NoReply,
         reply' = NoReply \/ reply'.code \in {200, 401, 404, 500},
         ReplyInv'
  PROVE  IInv'
<1>1. TypeOK'
  <2>1. pc' \in Handlers \union {"idle", "auth", "logs"}
    BY DEF IInv, TypeOK
  <2> QED
    BY <2>1 DEF IInv, TypeOK, tables, listing
<1>2. IsFiniteSet(rows') /\ UniqueIds' /\ ShownInv' /\ AheadInv'
  BY ListingKept DEF tables
<1>3. RequestInv'
  <2>1. asked.handler \in Handlers
    BY DEF IInv, TypeOK
  <2>2. asked'.handler # "List" => client'.reads = "lookups"
    BY DEF IInv, RequestInv
  <2>3. /\ pc' \in Handlers => asked'.handler = pc'
        /\ pc' = "logs" => asked'.handler = "GetDeliveryLogs"
    BY <2>1 DEF Handlers
  <2> QED
    BY <2>2, <2>3 DEF RequestInv
<1>4. KnownInv'
  BY KnownKept
<1> QED
  BY <1>1, <1>2, <1>3, <1>4 DEF IInv

LEMMA FaultRange ==
  ASSUME IInv
  PROVE  /\ NoFault => faults' = faults /\ faults' \in 0..MaxFaults
         /\ Fault => faults' # 0 /\ faults' \in 0..MaxFaults
BY RowsAssumption DEF IInv, TypeOK, NoFault, Fault

LEMMA AuthStep ==
  ASSUME IInv, RequireAPIKey
  PROVE  IInv'
<1>1. /\ UNCHANGED <<tables, client, asked, known, listing, build>>
      /\ pc = "auth" /\ (NoFault \/ Fault)
      /\ \/ pc' = asked.handler /\ UNCHANGED reply
         \/ pc' = "idle" /\ reply' = [code |-> 401, body |-> {}]
  BY DEF RequireAPIKey, Answer
<1>2. reply = NoReply
  BY <1>1 DEF IInv, RequestInv
<1>3. reply' = NoReply \/ reply'.code = 401
  BY <1>1, <1>2
<1>4. pc' # "idle" => reply' = NoReply
  BY <1>1, <1>2
<1>5. ReplyInv'
  BY <1>3, NothingSaid
<1> QED
  BY <1>1, <1>3, <1>4, <1>5, FaultRange, HandlerStep

(* The row that the owner asked for is found once merchant_id is selected. *)
LEMMA OwnFound ==
  ASSUME IInv, SelectsOwner, asked.id \in Ids(OfClient(rows))
  PROVE  Own(asked.id) # {}
<1>1. PICK t \in rows : t.merchant_id = client.merchant_id /\ t.id = asked.id
  BY DEF OfClient, Ids
<1>2. t \in Row
  BY DEF IInv, TypeOK
<1>3. [t EXCEPT !.merchant_id = IF SelectsOwner THEN @ ELSE 0] = t
  BY <1>2 DEF Row
<1>4. t \in GetByID(asked.id)
  BY <1>1, <1>3, Zenon DEF GetByID, SelectsOwner
<1> QED
  BY <1>1, <1>4 DEF Own

(* A payment that was stored when the client asked for it still is.        *)
LEMMA KnownIsStored ==
  ASSUME IInv, asked.handler \in {"GetTransaction", "GetDeliveryLogs"},
         known.payments # {}
  PROVE  asked.id \in Ids(OfClient(rows))
<1>1. known.payments \subseteq {t \in OfClient(rows) : t.id = asked.id}
  BY DEF IInv, KnownInv, PaymentsFor
<1> QED
  BY <1>1 DEF Ids

LEMMA TransactionStep ==
  ASSUME IInv, GetTransaction
  PROVE  IInv'
<1>1. /\ UNCHANGED <<tables, client, asked, known, listing, build>>
      /\ pc = "GetTransaction" /\ pc' = "idle" /\ asked.handler = "GetTransaction"
  BY DEF GetTransaction, Answer, IInv, RequestInv, Handlers
<1>2. \/ Fault /\ reply' = [code |-> 404, body |-> {}]
      \/ NoFault /\ Own(asked.id) = {} /\ reply' = [code |-> 404, body |-> Own(asked.id)]
      \/ NoFault /\ Own(asked.id) # {} /\ reply' = [code |-> 200, body |-> Own(asked.id)]
  BY DEF GetTransaction, Answer
<1>3. reply'.code \in {200, 404} /\ faults' \in 0..MaxFaults
  BY <1>2, FaultRange
<1>4. OwnReply'
  <2>1. reply'.body \subseteq Own(asked.id)
    BY <1>2
  <2> QED
    BY <1>1, <2>1 DEF OwnReply, Own
<1>5. ReplyIsCurrent' /\ ~Answered({"Metrics"})'
  BY <1>1 DEF ReplyIsCurrent, Answered
<1>6. OwnerCanReadOnceRepaired'
  <2> SUFFICES ASSUME SelectsOwner, faults' = 0, known.payments # {}
               PROVE  reply'.code # 404
    BY <1>1, Zenon DEF OwnerCanReadOnceRepaired, SelectsOwner
  <2>1. asked.id \in Ids(OfClient(rows))
    BY <1>1, KnownIsStored
  <2>2. Own(asked.id) # {}
    BY <2>1, OwnFound
  <2>3. ~Fault
    BY FaultRange
  <2>4. reply' = [code |-> 200, body |-> Own(asked.id)]
    BY <1>2, <2>2, <2>3
  <2> QED
    BY <2>4
<1> QED
  BY <1>1, <1>3, <1>4, <1>5, <1>6, HandlerStep DEF ReplyInv

LEMMA LogsStep ==
  ASSUME IInv, GetDeliveryLogs
  PROVE  IInv'
<1>1. /\ UNCHANGED <<tables, client, asked, known, listing, build>>
      /\ pc = "GetDeliveryLogs" /\ asked.handler = "GetDeliveryLogs" /\ reply = NoReply
  BY DEF GetDeliveryLogs, IInv, RequestInv, Handlers
<1>2. CASE NoFault /\ pc' = "logs" /\ UNCHANGED reply
  BY <1>1, <1>2, FaultRange, NothingSaid, HandlerStep
<1>3. CASE /\ Fault \/ (NoFault /\ Own(asked.id) = {})
           /\ pc' = "idle" /\ reply' = [code |-> 404, body |-> {}]
  <2>1. OwnReply' /\ ReplyIsCurrent' /\ ~Answered({"Metrics"})'
    BY <1>1, <1>3 DEF OwnReply, ReplyIsCurrent, Answered
  <2>2. OwnerCanReadOnceRepaired'
    <3> SUFFICES ASSUME SelectsOwner, faults' = 0, known.payments # {}
                 PROVE  FALSE
      BY <1>1, Zenon DEF OwnerCanReadOnceRepaired, SelectsOwner
    <3>1. asked.id \in Ids(OfClient(rows))
      BY <1>1, KnownIsStored
    <3> QED
      BY <1>3, <3>1, OwnFound, FaultRange
  <2>3. faults' \in 0..MaxFaults /\ reply'.code = 404
    BY <1>3, FaultRange
  <2> QED
    BY <1>1, <1>3, <2>1, <2>2, <2>3, HandlerStep DEF ReplyInv
<1> QED
  BY <1>2, <1>3 DEF GetDeliveryLogs, Answer

(* No attempt is missing unless the query failed.                          *)
LEMMA AttemptsStep ==
  ASSUME IInv, QueryDeliveryLogs
  PROVE  IInv'
<1>1. /\ UNCHANGED <<tables, client, asked, known, listing, build>>
      /\ pc' = "idle" /\ asked.handler = "GetDeliveryLogs"
  BY DEF QueryDeliveryLogs, Answer, IInv, RequestInv
<1>2. CASE Fault /\ reply' = [code |-> 500, body |-> {}]
  <2>1. reply'.code = 500
    BY <1>2
  <2> QED
    BY <1>1, <1>2, <2>1, NothingSaid, FaultRange, HandlerStep
<1>3. CASE \/ NoFault /\ reply' = [code |-> 200, body |-> LogsOf(delivery_logs, asked.id)]
           \/ /\ Fault
              /\ \E n \in DOMAIN delivery_logs :
                   reply' = [code |-> 200,
                             body |-> {i \in LogsOf(delivery_logs, asked.id) : i > n}]
  <2>1. reply'.code = 200 /\ faults' \in 0..MaxFaults
    BY <1>3, FaultRange
  <2>2. faults' = 0 => reply'.body = LogsOf(delivery_logs, asked.id)
    BY <1>3, FaultRange
  <2>3. known.logs \subseteq LogsOf(delivery_logs, asked.id)
    BY <1>1 DEF IInv, KnownInv
  <2>4. OwnReply' /\ ReplyIsCurrent' /\ ~Answered({"Metrics"})'
    BY <1>1, <2>2, <2>3 DEF OwnReply, ReplyIsCurrent, Answered
  <2>5. reply'.code # 404
    BY <2>1
  <2>6. OwnerCanReadOnceRepaired'
    BY <2>5, Zenon DEF OwnerCanReadOnceRepaired
  <2> QED
    BY <1>1, <2>1, <2>4, <2>6, HandlerStep DEF ReplyInv
<1> QED
  BY <1>2, <1>3 DEF QueryDeliveryLogs, Answer

(* The latest payment of an order is at least as late as those there were  *)
(* when the client asked.                                                  *)
LEMMA OrderStep ==
  ASSUME IInv, LookUpOrder
  PROVE  IInv'
<1>1. /\ UNCHANGED <<tables, client, asked, known, listing, build>>
      /\ pc' = "idle" /\ asked.handler = "GetByExternalID"
  BY DEF LookUpOrder, Answer, IInv, RequestInv, Handlers
<1>2. \/ Fault /\ reply' = [code |-> 404, body |-> {}]
      \/ /\ NoFault /\ GetByExternalID(asked.id) = {}
         /\ reply' = [code |-> 404, body |-> {}]
      \/ /\ NoFault
         /\ \E t \in GetByExternalID(asked.id) : reply' = [code |-> 200, body |-> {t}]
  BY DEF LookUpOrder, Answer
<1>3. reply'.code \in {200, 404} /\ faults' \in 0..MaxFaults
  BY <1>2, FaultRange
<1>4. reply'.body \subseteq GetByExternalID(asked.id)
  BY <1>2
<1>5. \A t \in reply'.body :
        /\ t.merchant_id = client.merchant_id
        /\ \A u \in OfOrder(rows, asked.id) : t.created_at >= u.created_at
  BY <1>4 DEF GetByExternalID, OfOrder, OfClient
<1>6. known.payments \subseteq OfOrder(rows, asked.id)
  BY <1>1 DEF IInv, KnownInv, PaymentsFor
<1>7. OwnReply' /\ ReplyIsCurrent' /\ ~Answered({"Metrics"})'
  BY <1>1, <1>5, <1>6 DEF OwnReply, ReplyIsCurrent, Answered
<1>8. OwnerCanReadOnceRepaired'
  <2> SUFFICES ASSUME faults' = 0, known.payments # {}
               PROVE  reply'.code # 404
    BY <1>1, Zenon DEF OwnerCanReadOnceRepaired
  <2> DEFINE S == OfOrder(rows, asked.id)
  <2>1. S \subseteq rows /\ S # {} /\ \A t \in S : t.created_at \in Nat
    BY <1>6 DEF OfOrder, OfClient, IInv, TypeOK, Row
  <2>2. IsFiniteSet(S)
    BY <2>1, FS_Subset DEF IInv
  <2> HIDE DEF S
  <2>3. \E t \in S : \A u \in S : t.created_at >= u.created_at
    BY <2>1, <2>2, LatestExists
  <2>4. GetByExternalID(asked.id) # {}
    BY <2>3 DEF GetByExternalID, S
  <2> QED
    BY <1>2, <2>4, FaultRange
<1> QED
  BY <1>1, <1>3, <1>7, <1>8, HandlerStep DEF ReplyInv

LEMMA MetricsStep ==
  ASSUME IInv, Metrics
  PROVE  IInv'
<1>1. /\ UNCHANGED <<tables, client, asked, known, listing, build>>
      /\ pc' = "idle" /\ asked.handler = "Metrics"
  BY DEF Metrics, Answer, IInv, RequestInv, Handlers
<1>2. CASE Fault /\ reply' = [code |-> 500, body |-> {}]
  <2>1. reply'.code = 500
    BY <1>2
  <2> QED
    BY <1>1, <1>2, <2>1, NothingSaid, FaultRange, HandlerStep
<1>3. CASE NoFault /\ reply' = [code |-> 200, body |-> GetMetrics(rows)]
  <2>1. /\ reply'.code = 200 /\ reply'.body = GetMetrics(rows)
        /\ faults' \in 0..MaxFaults
    BY <1>3, FaultRange
  <2>2. GetMetrics(rows)' = GetMetrics(rows) /\ GetMetrics(rows) \in [Counted -> Nat]
    BY <1>1, MetricsGrow DEF GetMetrics, tables, IInv
  <2>3. \A status \in Counted :
          /\ GetMetrics(known.payments)[status] <= GetMetrics(rows)[status]
          /\ GetMetrics(rows)[status] <= GetMetrics(rows)[status]
    <3>1. known.payments \subseteq rows
      BY <1>1 DEF IInv, KnownInv, PaymentsFor, OfClient
    <3> QED
      BY <2>2, <3>1, MetricsGrow DEF IInv
  <2>4. GetMetrics(known.payments)' = GetMetrics(known.payments)
    BY <1>1 DEF GetMetrics
  <2>5. DOMAIN reply'.body = Counted
    BY <2>1, <2>2
  <2>6. ReplyIsCurrent'
    BY <1>1, <2>1, <2>2, <2>3, <2>4, <2>5 DEF ReplyIsCurrent, Answered
  <2>7. OwnReply' /\ reply'.code # 404
    BY <1>1, <2>1 DEF OwnReply, Answered
  <2>8. OwnerCanReadOnceRepaired'
    BY <2>7, Zenon DEF OwnerCanReadOnceRepaired
  <2> QED
    BY <1>1, <2>1, <2>2, <2>6, <2>7, <2>8, HandlerStep DEF ReplyInv
<1> QED
  BY <1>2, <1>3 DEF Metrics, Answer

----------------------------------------------------------------------------
(* Pages.                                                                  *)

(* A query returns each row once, in the order of ORDER BY.                *)
LEMMA QueryOrder ==
  ASSUME NEW S, IsFiniteSet(S), NEW s \in NewestFirst(S)
  PROVE  /\ s \in Seq(S) /\ DOMAIN s = 1..Len(s)
         /\ \A i, j \in DOMAIN s : s[i] = s[j] => i = j
         /\ \A i, j \in DOMAIN s : i < j => s[i].created_at >= s[j].created_at
         /\ \A t \in S : \E i \in DOMAIN s : s[i] = t
<1> DEFINE N == Cardinality(S)
<1>1. N \in Nat
  BY FS_CardinalityType
<1>2. /\ s \in [1..N -> S] /\ \A i, j \in 1..N : i # j => s[i] # s[j]
      /\ \A i, j \in DOMAIN s : i < j => s[i].created_at >= s[j].created_at
  BY DEF NewestFirst, SetToSeqs
<1>3. s \in Injection(1..N, S)
  BY <1>2 DEF Injection, IsInjective
<1>4. Cardinality(1..N) = N
  BY <1>1, FS_Interval
<1>5. s \in Surjection(1..N, S)
  BY <1>3, <1>4, FS_Injection
<1> HIDE DEF N
<1>6. s \in Seq(S) /\ Len(s) = N /\ DOMAIN s = 1..N
  BY <1>1, <1>2
<1>7. \A t \in S : \E i \in 1..N : s[i] = t
  BY <1>5 DEF Surjection
<1> QED
  BY <1>2, <1>6, <1>7

(* What SubSeq leaves of a sequence: its length and its elements.          *)
LEMMA PieceRows ==
  ASSUME NEW S, NEW s, NEW m \in Int, NEW n \in Int, \A i \in m..n : s[i] \in S
  PROVE  /\ Len(SubSeq(s, m, n)) = IF m <= n THEN n - m + 1 ELSE 0
         /\ \A i \in 1..(n - m + 1) : SubSeq(s, m, n)[i] = s[m + i - 1]
<1>1. Len(SubSeq(s, m, n)) = IF m <= n THEN n - m + 1 ELSE 0
  BY SubSeqProperties
<1>2. \A i \in 1..(n - m + 1) : SubSeq(s, m, n)[i] = s[m + i - 1]
  BY SubSeqProperties
<1> QED
  BY <1>1, <1>2, Zenon

(* The rows that LIMIT and OFFSET leave.                                   *)
LEMMA PageRows ==
  ASSUME NEW S, NEW s \in Seq(S), NEW limit \in Nat \ {0}, NEW first \in Nat
  PROVE  /\ Len(Slice(s, limit, first)) \in 0..limit
         /\ \A i \in 1..Len(Slice(s, limit, first)) :
              first + i \in 1..Len(s) /\ Slice(s, limit, first)[i] = s[first + i]
         /\ \A k \in 1..Len(s) :
              first < k => \/ k - first \in 1..Len(Slice(s, limit, first))
                           \/ k > first + limit
         /\ Len(s) >= first + limit => Len(Slice(s, limit, first)) = limit
<1> DEFINE last == IF first + limit < Len(s) THEN first + limit ELSE Len(s)
<1>1. last \in Nat /\ last <= Len(s) /\ last <= first + limit
  OBVIOUS
<1>2. Slice(s, limit, first) = SubSeq(s, first + 1, last)
  BY DEF Slice
<1>3. /\ Len(SubSeq(s, first + 1, last)) = IF first < last THEN last - first ELSE 0
      /\ \A i \in 1..(last - first) : SubSeq(s, first + 1, last)[i] = s[first + i]
  <2> DEFINE m == first + 1
  <2>1. m \in Int /\ last \in Int /\ \A i \in m..last : s[i] \in S
    BY <1>1
  <2>2. /\ last - m + 1 = last - first /\ (m <= last <=> first < last)
        /\ \A i \in Int : m + i - 1 = first + i
    BY <1>1
  <2> HIDE DEF m, last
  <2>3. /\ Len(SubSeq(s, m, last)) = IF m <= last THEN last - m + 1 ELSE 0
        /\ \A i \in 1..(last - m + 1) : SubSeq(s, m, last)[i] = s[m + i - 1]
    BY ONLY <2>1, PieceRows
  <2>4. Len(SubSeq(s, m, last)) = IF first < last THEN last - first ELSE 0
    BY <2>2, <2>3, Zenon
  <2>5. ASSUME NEW i \in 1..(last - first)
        PROVE  SubSeq(s, m, last)[i] = s[first + i]
    <3>1. i \in 1..(last - m + 1) /\ i \in Int
      BY <2>2
    <3>2. SubSeq(s, m, last)[i] = s[m + i - 1]
      BY <2>3, <3>1, Zenon
    <3> QED
      BY <2>2, <3>1, <3>2, Zenon
  <2> QED
    BY <2>4, <2>5, Zenon DEF m
<1> DEFINE page_rows == Slice(s, limit, first)
<1>4. /\ Len(page_rows) = IF first < last THEN last - first ELSE 0
      /\ \A i \in 1..(last - first) : page_rows[i] = s[first + i]
  BY <1>2, <1>3, Zenon
<1>5. /\ Len(s) \in Nat /\ limit \in Nat \ {0} /\ first \in Nat
      /\ last = IF first + limit < Len(s) THEN first + limit ELSE Len(s)
  OBVIOUS
<1> HIDE DEF page_rows, last
<1>6. Len(page_rows) \in 0..limit
  BY ONLY <1>1, <1>4, <1>5
<1>7. ASSUME NEW i \in 1..Len(page_rows)
      PROVE  first + i \in 1..Len(s) /\ page_rows[i] = s[first + i]
  <2>1. first < last
    BY <1>1, <1>4, <1>5
  <2>2. i \in 1..(last - first)
    BY <1>4, <2>1
  <2> QED
    BY <1>1, <1>4, <1>5, <2>2
<1>8. ASSUME NEW k \in 1..Len(s), first < k
      PROVE  k - first \in 1..Len(page_rows) \/ k > first + limit
  BY <1>1, <1>4, <1>5, <1>8
<1>9. Len(s) >= first + limit => Len(page_rows) = limit
  BY ONLY <1>1, <1>4, <1>5
<1> QED
  BY <1>6, <1>7, <1>8, <1>9 DEF page_rows

(* Where a row stands: behind those that are newer.                        *)
LEMMA Position ==
  ASSUME IInv, NEW s \in NewestFirst(Mine), NEW k \in DOMAIN s, ~SharesInstant(s[k].id)
  PROVE  Cardinality(Newer(s[k])) = k - 1
<1>1. Mine \subseteq rows /\ IsFiniteSet(Mine)
  BY FS_Subset DEF IInv, Mine, Selected
<1>2. /\ s \in Seq(Mine) /\ DOMAIN s = 1..Len(s)
      /\ \A i, j \in DOMAIN s : s[i] = s[j] => i = j
      /\ \A i, j \in DOMAIN s : i < j => s[i].created_at >= s[j].created_at
      /\ \A t \in Mine : \E i \in DOMAIN s : s[i] = t
  BY <1>1, QueryOrder
<1>3. \A i \in DOMAIN s : s[i] \in Mine /\ s[i] \in Row /\ s[i].created_at \in Nat
  <2>1. \A i \in DOMAIN s : s[i] \in Mine
    BY <1>2
  <2>2. \A t \in Mine : t \in Row /\ t.created_at \in Nat
    BY <1>1 DEF IInv, TypeOK, Row
  <2> QED
    BY <2>1, <2>2
<1>4. \A i, j \in DOMAIN s : s[i].id = s[j].id => i = j
  BY <1>1, <1>2, <1>3 DEF IInv, UniqueIds
<1>5. ASSUME NEW i \in 1..(k - 1) PROVE s[i].created_at > s[k].created_at
  <2>1. i \in DOMAIN s /\ i < k
    BY <1>2
  <2>2. s[i].created_at >= s[k].created_at
    BY <1>2, <2>1
  <2>3. s[i].created_at # s[k].created_at
    <3>1. s[i].id # s[k].id
      BY <1>4, <2>1
    <3>2. s[i].merchant_id = client.merchant_id /\ s[k].merchant_id = client.merchant_id
      BY <1>3, <2>1 DEF Mine, Selected
    <3>3. s[i] \in rows /\ s[k] \in rows
      BY <1>1, <1>3, <2>1
    <3> QED
      BY <3>1, <3>2, <3>3 DEF SharesInstant
  <2> QED
    BY <1>3, <2>1, <2>2, <2>3
<1> DEFINE f == [i \in 1..(k - 1) |-> s[i].id]
<1>6. \A i \in 1..(k - 1) : i \in DOMAIN s
  BY <1>2
<1>7. \A i \in 1..(k - 1) : f[i] \in Newer(s[k])
  BY <1>3, <1>5, <1>6 DEF Newer
<1>8. \A i, j \in 1..(k - 1) : f[i] = f[j] => i = j
  BY <1>4, <1>6
<1>9. \A id \in Newer(s[k]) : \E i \in 1..(k - 1) : f[i] = id
  <2> SUFFICES ASSUME NEW u \in Mine, u.created_at > s[k].created_at
               PROVE  \E i \in 1..(k - 1) : f[i] = u.id
    BY DEF Newer
  <2>1. PICK i \in DOMAIN s : s[i] = u
    BY <1>2
  <2>2. i # k /\ ~(k < i)
    BY <1>2, <1>3, <2>1
  <2>3. i \in 1..(k - 1)
    BY <1>2, <2>2
  <2> QED
    BY <2>1, <2>3
<1>10. f \in Bijection(1..(k - 1), Newer(s[k]))
  <2>1. f \in [1..(k - 1) -> Newer(s[k])]
    BY <1>7
  <2> QED
    BY <1>8, <1>9, <2>1, Zenon DEF Bijection, Injection, Surjection, IsInjective
<1>11. IsFiniteSet(1..(k - 1)) /\ Cardinality(1..(k - 1)) = k - 1
  BY <1>2, FS_Interval
<1> QED
  BY <1>10, <1>11, FS_Bijection DEF ExistsBijection

(* A page holds the rows of the client that the pages before have left.    *)
LEMMA ListStep ==
  ASSUME IInv, List
  PROVE  IInv'
<1>1. /\ UNCHANGED <<tables, client, asked, known, build>>
      /\ pc' = "idle" /\ asked.handler = "List"
  BY DEF List, Answer, IInv, RequestInv, Handlers
<1>2. rows' = rows /\ Mine' = Mine
  BY <1>1 DEF tables, Mine
<1>3. PICK s \in NewestFirst(Mine) :
        LET p == Page(s, client.limit, page)
            readable(n) == \A i \in 1..n : Scannable(p[i])
        IN \/ /\ Fault \/ (~readable(Len(p)) /\ NoFault)
              /\ Answer(500, {}) /\ UNCHANGED listing
           \/ \E n \in 0..Len(p) :
                /\ IF n < Len(p) THEN Fault ELSE NoFault
                /\ readable(n)
                /\ Answer(200, {})
                /\ listed' = listed \union {p[i].id : i \in 1..n}
                /\ cut' = (cut \/ n < Len(p))
                /\ complete' = (n < client.limit)
                /\ page' = IF n < client.limit THEN page ELSE page + 1
                /\ UNCHANGED wanted
  BY DEF List, Mine
<1> DEFINE p == Page(s, client.limit, page)
           first == (page - 1) * client.limit
<1>4. CASE (Fault \/ NoFault) /\ Answer(500, {}) /\ UNCHANGED listing
  <2>1. pc' = "idle" /\ reply'.code = 500
    BY <1>4 DEF Answer
  <2> QED
    BY <1>1, <1>4, <2>1, NothingSaid, FaultRange, HandlerStep
<1>5. ASSUME NEW n \in 0..Len(p),
             Fault \/ NoFault, Answer(200, {}),
             listed' = listed \union {p[i].id : i \in 1..n},
             cut' = (cut \/ n < Len(p)),
             complete' = (n < client.limit),
             page' = IF n < client.limit THEN page ELSE page + 1,
             UNCHANGED wanted
      PROVE  IInv'
  <2>1. client.limit \in Nat \ {0} /\ page \in Nat \ {0} /\ first \in Nat
    <3>1. client.limit \in Nat \ {0} /\ page \in Nat \ {0}
      BY RowsAssumption DEF IInv, TypeOK, Client
    <3> QED
      BY <3>1
  <2>2. Mine \subseteq Row /\ IsFiniteSet(Mine)
    BY FS_Subset DEF IInv, TypeOK, Mine, Selected
  <2>3. /\ s \in Seq(Mine) /\ DOMAIN s = 1..Len(s)
        /\ \A t \in Mine : \E i \in DOMAIN s : s[i] = t
    BY <2>2, QueryOrder
  <2>4. p = Slice(s, client.limit, first)
    BY DEF Page
  <2> HIDE DEF p, first
  <2>5. /\ Len(p) \in 0..client.limit
        /\ \A i \in 1..Len(p) : first + i \in 1..Len(s) /\ p[i] = s[first + i]
        /\ \A k \in 1..Len(s) :
             first < k => k - first \in 1..Len(p) \/ k > first + client.limit
        /\ Len(s) >= first + client.limit => Len(p) = client.limit
    <3>1. /\ Len(Slice(s, client.limit, first)) \in 0..client.limit
          /\ \A i \in 1..Len(Slice(s, client.limit, first)) :
               first + i \in 1..Len(s) /\ Slice(s, client.limit, first)[i] = s[first + i]
          /\ \A k \in 1..Len(s) :
               first < k => \/ k - first \in 1..Len(Slice(s, client.limit, first))
                            \/ k > first + client.limit
          /\ Len(s) >= first + client.limit =>
               Len(Slice(s, client.limit, first)) = client.limit
      BY <2>1, <2>3, PageRows, Zenon
    <3> QED
      BY <2>4, <3>1, Zenon
  <2>6. \A i \in 1..n : i \in 1..Len(p) /\ p[i] \in Mine
    BY <1>5, <2>3, <2>5
  <2>7. listed' \subseteq Ids(Mine)
    BY <1>5, <2>6 DEF IInv, ShownInv, Ids
  <2>8. ShownInv'
    BY <1>2, <1>5, <2>7 DEF IInv, ShownInv
  <2>9. TypeOK'
    <3>1. listed' \subseteq Nat
      BY <2>2, <2>7 DEF Ids, Row
    <3>2. page' \in Nat \ {0}
      BY <1>5, <2>1
    <3>3. reply'.code = 200 /\ pc' = "idle" /\ faults' \in 0..MaxFaults
      BY <1>5, FaultRange DEF Answer
    <3>4. complete' \in BOOLEAN /\ cut' \in BOOLEAN
      BY <1>5
    <3> QED
      BY <1>1, <1>5, <3>1, <3>2, <3>3, <3>4 DEF IInv, TypeOK, tables
  <2>10. AheadInv'
    <3> SUFFICES ASSUME ~cut', NEW t \in rows,
                        t.id \in wanted \ listed', ~SharesInstant(t.id)
                 PROVE  ~complete' /\ (page' - 1) * client.limit <= Cardinality(Newer(t))
      <4>1. \A u : Newer(u)' = Newer(u) /\ (SharesInstant(u)' <=> SharesInstant(u))
        BY <1>2 DEF Newer, SharesInstant
      <4>2. wanted' = wanted /\ client' = client
        BY <1>1, <1>5
      <4> QED
        BY <1>2, <4>1, <4>2 DEF AheadInv
    <3>1. ~cut /\ n = Len(p)
      <4>1. ~cut /\ ~(n < Len(p))
        BY <1>5, Zenon
      <4> QED
        BY <2>5, <4>1
    <3>2. t \in Mine
      BY ShownRows DEF IInv
    <3>3. PICK k \in DOMAIN s : s[k] = t
      BY <2>3, <3>2
    <3>4. Cardinality(Newer(t)) = k - 1
      BY <3>3, Position
    <3>5. first < k
      <4>1. t.id \notin listed
        BY <1>5
      <4>2. first <= Cardinality(Newer(t))
        BY <3>1, <4>1 DEF IInv, AheadInv, first
      <4> QED
        BY <2>1, <2>3, <3>4, <4>2
    <3>6. ~(k - first \in 1..Len(p))
      <4> SUFFICES ASSUME k - first \in 1..Len(p) PROVE t.id \in listed'
        OBVIOUS
      <4>1. p[k - first] = s[first + (k - first)] /\ first + (k - first) = k
        BY <2>1, <2>3, <2>5, SMTT(30)
      <4> QED
        BY <1>5, <3>1, <3>3, <4>1
    <3>7. k > first + client.limit /\ Len(p) = client.limit
      BY <2>1, <2>3, <2>5, <3>5, <3>6
    <3>8. ~complete' /\ page' = page + 1
      BY <1>5, <2>1, <3>1, <3>7
    <3>9. (page + 1 - 1) * client.limit = first + client.limit
      BY <2>1 DEF first
    <3> QED
      BY <2>1, <2>3, <3>4, <3>7, <3>8, <3>9
  <2>11. IsFiniteSet(rows') /\ UniqueIds' /\ KnownInv'
    BY <1>1, <1>2, KnownKept DEF IInv, UniqueIds
  <2>12. RequestInv'
    BY <1>1 DEF RequestInv, Handlers
  <2>13. ReplyInv'
    <3>1. OwnReply' /\ ReplyIsCurrent' /\ ~Answered({"Metrics"})'
      BY <1>1 DEF OwnReply, ReplyIsCurrent, Answered
    <3>2. reply'.code # 404
      BY <1>5 DEF Answer
    <3>3. OwnerCanReadOnceRepaired'
      BY <3>2, Zenon DEF OwnerCanReadOnceRepaired
    <3> QED
      BY <3>1, <3>3 DEF ReplyInv
  <2> QED
    BY <2>8, <2>9, <2>10, <2>11, <2>12, <2>13 DEF IInv
<1> QED
  BY <1>3, <1>4, <1>5

----------------------------------------------------------------------------
(* The theorems.                                                           *)

LEMMA ReadsInit == Init => IInv
<1> SUFFICES ASSUME Init
             PROVE  IInv
  OBVIOUS
<1>1. TypeOK
  <2>1. /\ rows = {} /\ delivery_logs \in Seq(Nat) /\ DOMAIN delivery_logs = {}
        /\ faults \in 0..MaxFaults
    BY RowsAssumption DEF Init
  <2>2. active \in BOOLEAN /\ complete \in BOOLEAN /\ cut \in BOOLEAN
    BY DEF Init
  <2>3. /\ pc = "idle" /\ asked.handler \in Handlers /\ asked.id \in Nat
        /\ reply = NoReply /\ page \in Nat \ {0} /\ listed = {} /\ wanted = {}
        /\ client \in Clients /\ build \in Builds
    BY DEF Init, Handlers
  <2> QED
    BY <2>1, <2>2, <2>3 DEF TypeOK
<1>2. IsFiniteSet(rows) /\ UniqueIds /\ ShownInv /\ AheadInv
  BY FS_EmptySet DEF Init, UniqueIds, ShownInv, AheadInv
<1>3. RequestInv /\ KnownInv
  BY DEF Init, RequestInv, KnownInv, Handlers
<1>4. ReplyInv
  BY Zenon DEF Init, ReplyInv, OwnReply, ReplyIsCurrent, OwnerCanReadOnceRepaired, Answered
<1> QED
  BY <1>1, <1>2, <1>3, <1>4 DEF IInv

LEMMA ReadsNext == IInv /\ [Next]_vars => IInv'
<1> SUFFICES ASSUME IInv, [Next]_vars
             PROVE  IInv'
  OBVIOUS
<1>1. ASSUME NEW p \in Payments, NEW handler \in {"GetTransaction", "GetDeliveryLogs"},
             LookUp(handler, p.id)
      PROVE  IInv'
  <2>1. p.id \in Nat /\ handler \in Handlers \ {"List"}
    BY RowsAssumption DEF Row, Handlers
  <2> QED
    BY <1>1, <2>1, LookUpStep
<1>2. ASSUME NEW p \in Payments, LookUp("GetByExternalID", p.external_id)
      PROVE  IInv'
  <2>1. p.external_id \in Nat /\ "GetByExternalID" \in Handlers \ {"List"}
    BY RowsAssumption DEF Row, Handlers
  <2> QED
    BY <1>2, <2>1, LookUpStep
<1>3. CASE LookUp("Metrics", 0)
  <2>1. 0 \in Nat /\ "Metrics" \in Handlers \ {"List"}
    BY DEF Handlers
  <2> QED
    BY <1>3, <2>1, LookUpStep
<1>4. CASE UNCHANGED vars
  <2>1. /\ UNCHANGED <<tables, client, listing, request, asked, known, reply, faults, build>>
        /\ rows' = rows /\ pc' = pc
    BY <1>4 DEF vars, tables, request
  <2>2. TypeOK'
    BY <2>1 DEF IInv, TypeOK, tables, listing
  <2>3. RequestInv'
    BY <2>1 DEF IInv, RequestInv
  <2> QED
    BY <2>1, <2>2, <2>3, ListingKept, KnownKept, ReplyKept DEF IInv
<1> QED
  BY <1>1, <1>2, <1>3, <1>4, InsertStep, UpdateStep, LogStep, ActiveStep, TurnPageStep,
     AuthStep, TransactionStep, LogsStep, AttemptsStep, OrderStep, ListStep, MetricsStep
  DEF Next

LEMMA ReadsInvariance == Spec => []IInv
BY ReadsInit, ReadsNext, PTL DEF Spec

(* The variables stay in their types, whatever the rest of the program     *)
(* does to the tables and however the statements of a request fail.        *)
THEOREM ReadsTypeCorrect == Spec => []TypeOK
<1>1. IInv => TypeOK
  BY DEF IInv
<1> QED
  BY <1>1, ReadsInvariance, PTL

(* LIMIT and OFFSET miss nothing: for any page size and any rows that the  *)
(* webhooks and notifiers add, update or commit late between the pages of  *)
(* ListTransactions or ListDLQ, a client that has come to a short page has *)
(* been shown all the rows of when it began, except those of one instant.  *)
THEOREM PagingIsComplete == Spec => []PagingComplete
BY PagesHold, ReadsInvariance, PTL

(* No list and no lookup shows a merchant another's row, or one that its   *)
(* filter excludes, for any number of merchants and of rows.               *)
THEOREM TenantsIsolated == Spec => []OwnRowsOnly
<1>1. IInv => OwnRowsOnly
  BY PropertiesHold
<1> QED
  BY <1>1, ReadsInvariance, PTL

(* A reply is never older than its request: what was committed before the  *)
(* request was sent is in the metrics, in the latest payment of the order  *)
(* and in the attempts that the reply tells of.                            *)
THEOREM RepliesAreCurrent == Spec => []ReplyIsCurrent
<1>1. IInv => ReplyIsCurrent
  BY PropertiesHold
<1> QED
  BY <1>1, ReadsInvariance, PTL

(* Without database errors nobody who asks for an order that it has a      *)
(* payment of is told that there is none, and selecting merchant_id in     *)
(* GetByID is all that it takes for the same to hold of who asks for a     *)
(* payment that is its own, or for the deliveries of one, even if there    *)
(* are none yet.                                                           *)
THEOREM OwnerReads == Spec => []OwnerCanReadOnceRepaired
<1>1. IInv => OwnerCanReadOnceRepaired
  BY PropertiesHold
<1> QED
  BY <1>1, ReadsInvariance, PTL
=============================================================================
