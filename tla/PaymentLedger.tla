--------------------------- MODULE PaymentLedger ---------------------------
(***************************************************************************)
(* What PayKit promises MTN and its merchants about payments, with none of *)
(* the machinery: a payment is recorded once, from a genuine webhook; it   *)
(* is announced to its merchant at most once, and as it was recorded; MTN  *)
(* is told 200 only for a payment that is recorded.                        *)
(*                                                                         *)
(* Ingestion implements this specification (Ingestion!Ledger).             *)
(***************************************************************************)
EXTENDS Naturals, Sequences

CONSTANT
  Genuine       \* the entries a genuine webhook can put in the ledger:
                \* records with at least a field provider_tx_id

VARIABLES
  recorded,     \* the set of entries recorded
  announced,    \* the sequence of entries announced to merchants
  acknowledged  \* the provider_tx_ids MTN was answered 200 for

ledger == <<recorded, announced, acknowledged>>

Known(tx) == \E e \in recorded : e.provider_tx_id = tx

Init ==
  /\ recorded = {}
  /\ announced = <<>>
  /\ acknowledged = {}

Record(e) ==
  /\ ~Known(e.provider_tx_id)
  /\ recorded' = recorded \union {e}
  /\ UNCHANGED <<announced, acknowledged>>

Announce(e) ==
  /\ e \in recorded
  /\ \A i \in DOMAIN announced : announced[i] # e
  /\ announced' = Append(announced, e)
  /\ UNCHANGED <<recorded, acknowledged>>

Acknowledge(tx) ==
  /\ Known(tx)
  /\ acknowledged' = acknowledged \union {tx}
  /\ UNCHANGED <<recorded, announced>>

Next ==
  \/ \E e \in Genuine : Record(e)
  \/ \E e \in Genuine : Announce(e)
  \/ \E e \in Genuine : Acknowledge(e.provider_tx_id)

Spec == Init /\ [][Next]_ledger
=============================================================================
