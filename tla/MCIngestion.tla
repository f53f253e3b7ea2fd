---------------------------- MODULE MCIngestion ----------------------------
(***************************************************************************)
(* Values of the constants of Ingestion for TLC.                           *)
(***************************************************************************)
EXTENDS Ingestion, TLC

CONSTANTS h1, h2, none

Webhook(tx, m, status, ts, defects) ==
  [ip |-> 1, merchant_id |-> m, provider_tx_id |-> tx, status |-> status,
   timestamp |-> ts, defects |-> defects]

(* The network of address 1, and an entry that does not parse.             *)
OneNetwork == {{1}, {}}

OneHandler == {h1}
TwoHandlers == {h1, h2}
HandlerSymmetry == Permutations(Handlers)

(* Two payments of one merchant: the first reported with two statuses and  *)
(* forged; the second sent, as FAILED, from an address that is not allowed *)
(* as well.  One with a value its column does not take.  And one without   *)
(* an id.                                                                  *)
SafetyPayloads ==
  {Webhook("t1", 1, "SUCCESSFUL", 0, {}),
   Webhook("t1", 1, "PENDING", 0, {}),
   Webhook("t2", 1, "SUCCESSFUL", 0, {}),
   Webhook("t1", 1, "FAILED", 0, {"signature"}),
   Webhook("t3", 1, "PENDING", 0, {"columns"}),
   Webhook("", 1, "PENDING", 0, {}),
   [Webhook("t2", 1, "FAILED", 0, {}) EXCEPT !.ip = 2]}

(* Two payments, one of them sent too early.                               *)
LivenessPayloads ==
  {Webhook("t1", 1, "SUCCESSFUL", 0, {}),
   Webhook("t2", 1, "SUCCESSFUL", 1, {})}

(* Two payments; one payment; one payment that succeeds after a report     *)
(* that it is pending.                                                     *)
TwoPayments ==
  {Webhook("t1", 1, "SUCCESSFUL", 0, {}), Webhook("t2", 1, "SUCCESSFUL", 0, {})}
OnePayment == {Webhook("t1", 1, "SUCCESSFUL", 0, {})}
PendingThenSuccessful ==
  {Webhook("t1", 1, "PENDING", 0, {}), Webhook("t1", 1, "SUCCESSFUL", 0, {})}
=============================================================================
