----------------------------- MODULE MCUsdmExec -----------------------------
(***************************************************************************)
(* Two symbols, one of them subscribed, one position side and one asset.   *)
(* The inductive invariant of the proofs is checked along with the         *)
(* properties.                                                             *)
(***************************************************************************)
EXTENDS UsdmExec_proof

MCSymbol == {"btc", "eth"}
MCSubscribed == {"btc"}
MCSymbolOf == [o \in Order |-> IF o = 1 THEN "btc" ELSE "eth"]
=============================================================================
