----------------------------- MODULE MCSpotExec -----------------------------
(* Two symbols, one of them subscribed, with an order each, and two assets. *)
EXTENDS SpotExec_proof

CONSTANTS eth, sol, oEth, oSol, btc, usdt

SymbolOfOrder == [o \in {oEth, oSol} |-> IF o = oEth THEN eth ELSE sol]
=============================================================================
