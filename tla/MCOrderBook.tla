----------------------------- MODULE MCOrderBook -----------------------------
(***************************************************************************)
(* OrderBook on two price levels and a handful of venue changes; the       *)
(* inductive invariant of its proofs is checked along with its properties. *)
(***************************************************************************)
EXTENDS OrderBook_proof

=============================================================================
