------------------------------- MODULE Store -------------------------------
(***************************************************************************)
(* The tables of internal/storage/migrate.sql and the queries of           *)
(* internal/storage/store.go, as operators over the tables' contents.      *)
(*                                                                         *)
(* A table is the sequence of its rows.  Rows are appended and updated,    *)
(* never deleted, so a row's BIGSERIAL id is its position (a refused       *)
(* INSERT burns an id; no code depends on the ids having no gaps).         *)
(* Columns that no guard, update or property reads are left out.           *)
(***************************************************************************)
EXTENDS Integers, Sequences, FiniteSets

(* storage.TxStatus and the enum tx_status.                                *)
TxStatus == {"PENDING", "SUCCESSFUL", "FAILED"}

(* A row of merchants.  The api_key column is not modelled: a caller that  *)
(* holds the key of merchant m is represented by m itself.                 *)
MerchantRow(Urls) ==
  [webhook_url : Urls, active : BOOLEAN,
   max_monthly_calls : Nat, current_month_calls : Nat]

(* A row of transactions.                                                  *)
TransactionRow(TxIds, MerchantIds) ==
  [provider_tx_id : TxIds, merchant_id : MerchantIds, status : TxStatus]

----------------------------------------------------------------------------
(* Store.GetMerchantByID: SELECT ... WHERE id = $1 AND active = true.      *)
GetMerchantByID(merchants, id) ==
  IF id \in DOMAIN merchants /\ merchants[id].active
    THEN {merchants[id]}
    ELSE {}

(* Store.Exists: SELECT EXISTS(... WHERE provider_tx_id = $1).             *)
Exists(transactions, tx) ==
  \E i \in DOMAIN transactions : transactions[i].provider_tx_id = tx

(* What the constraints of transactions ask of a new row t: the UNIQUE     *)
(* provider_tx_id and the foreign key on merchants.  The column types      *)
(* (enum, NUMERIC, VARCHAR(3)) are the caller's conjunct: see Ingestion.   *)
ConstraintsHold(merchants, transactions, t) ==
  /\ ~Exists(transactions, t.provider_tx_id)
  /\ t.merchant_id \in DOMAIN merchants

(* A new installation's row, with the defaults of Store.CreateMerchant.    *)
NewMerchant(url, defaultQuota) ==
  [webhook_url |-> url, active |-> TRUE,
   max_monthly_calls |-> defaultQuota, current_month_calls |-> 0]
=============================================================================
