------------------------------- MODULE MCServe -------------------------------
(* Lists with two spellings of a symbol, a blank part, a part with a space, *)
(* and nothing but blanks.                                                  *)
EXTENDS Serve_proof

Spellings == {"", "btc", "BTC", "ETH", " ETH"}
UpperOf == [t \in Spellings |-> IF t = "btc" THEN "BTC" ELSE t]
TrimOf == [t \in Spellings |-> IF t = " ETH" THEN "ETH" ELSE t]
SymbolLists ==
  {<<"btc", "ETH">>, <<"btc", "BTC">>, <<"BTC", "">>, <<"btc", " ETH">>, <<"">>,
   <<"btc", "ETH", "BTC">>}
=============================================================================
