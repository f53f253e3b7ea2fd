------------------------------ MODULE MCReads ------------------------------
(***************************************************************************)
(* Values of the constants of Reads for TLC.                               *)
(***************************************************************************)
EXTENDS Reads, TLC

NewRow(id, m, order, status) ==
  [id |-> id, merchant_id |-> m, external_id |-> order, status |-> status, created_at |-> 0]

(* Two payments for order 8 of merchant 1, of which one failed, another of *)
(* its payments, and a payment of merchant 2 for an order of the same name.*)
FourPayments ==
  {NewRow(1, 1, 8, "FAILED"), NewRow(2, 1, 8, "SUCCESSFUL"),
   NewRow(3, 1, 9, "SUCCESSFUL"), NewRow(4, 2, 8, "SUCCESSFUL")}

(* Two dead letters of merchant 1, one of merchant 2.                      *)
ThreeLetters ==
  {NewRow(1, 1, 0, "FAILED"), NewRow(2, 1, 0, "FAILED"), NewRow(3, 2, 0, "FAILED")}

Reader(what, status, limit) ==
  [merchant_id |-> 1, reads |-> what, status |-> status, limit |-> limit]

(* Pages of one and of two rows, with and without a filter.                *)
Readers ==
  {Reader("transactions", "", 1), Reader("transactions", "SUCCESSFUL", 2),
   Reader("delivery_dlq", "", 1), Reader("lookups", "", 1)}

AsBuilt == {{}}
AsBuiltAndRepaired == {{}, Repairs}
=============================================================================
