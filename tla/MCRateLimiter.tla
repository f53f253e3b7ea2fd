--------------------------- MODULE MCRateLimiter ---------------------------
(***************************************************************************)
(* Values of the constants of RateLimiter for TLC.                         *)
(***************************************************************************)
EXTENDS RateLimiter, TLC

CONSTANTS h1, h2

HandlerSymmetry == Permutations(Handlers)

(* Merchant 1 with its key and by its webhook path, and a visitor.         *)
ThreeCallers ==
  {[merchant_id |-> 1, param |-> 0, ip |-> 7],
   [merchant_id |-> 0, param |-> 1, ip |-> 8],
   [merchant_id |-> 0, param |-> 0, ip |-> 8]}
=============================================================================
