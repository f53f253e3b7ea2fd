------------------------------ MODULE MCPaykit ------------------------------
(***************************************************************************)
(* Values of the constants of Paykit for TLC.                              *)
(***************************************************************************)
EXTENDS Paykit

CONSTANTS h1, r1, none

Webhook(tx, m, status, defects) ==
  [ip |-> 1, merchant_id |-> m, provider_tx_id |-> tx, status |-> status,
   timestamp |-> 0, defects |-> defects]

(* A payment reported for two merchants: as SUCCESSFUL for the first, as   *)
(* FAILED for the second, and with a forgery for the second.               *)
TwoMerchants ==
  {Webhook("t1", 1, "SUCCESSFUL", {}),
   Webhook("t1", 2, "FAILED", {}),
   Webhook("t1", 2, "SUCCESSFUL", {"signature"})}

Repaired == {{"returning id", "log merchant", "nullable resolved_at"}}
=============================================================================
