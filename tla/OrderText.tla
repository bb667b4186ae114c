------------------------------- MODULE OrderText -------------------------------
(***************************************************************************)
(* What the order placement of the two exec crates starts from: commands   *)
(* of a strategy (crates/trolly-strategy/src/egress.rs), and the maps of   *)
(* form parameters with their signature (auth.rs).  The code compares      *)
(* texts in upper case, so a text is its upper-case form here.             *)
(***************************************************************************)
EXTENDS Naturals

CONSTANTS
  Symbol,   \* trading pairs
  Decimal,  \* texts of quantities and prices
  Secret,   \* secret keys
  none      \* Option::None

ASSUME NoneAssumption == none \notin Decimal \cup STRING

\* Some(...) or None.
Option(S) == S \cup {none}

\* "other" is any text that the parsers do not know.
SideText == {"BUY", "SELL", "other"}
TimeInForceText == {"GTC", "IOC", "FOK", "GTX", "other"}
PositionSideText == {"LONG", "SHORT", "BOTH", "other"}

OrderRequest ==
  [symbol : Symbol, side : SideText, qty : Decimal, price : Option(Decimal),
   timeInForce : Option(TimeInForceText), positionSide : Option(PositionSideText)]

\* OutboundMessage: the text of a Subscribe or a Raw does not matter to an order egress.
OutboundMessage ==
  [tag : {"OrderRequest"}, order : OrderRequest] \cup [tag : {"Subscribe", "Raw"}]

\* Result.
Err(e) == [error |-> e]
Ok(v) == [error |-> "no", value |-> v]

\* BTreeMap::insert.
Insert(params, key, value) ==
  [k \in DOMAIN params \cup {key} |-> IF k = key THEN value ELSE params[k]]

\* sign_hmac_sha256_hex over signed_params_payload: whose secret, and over which
\* parameters.
Signature(secret, params) == [secret |-> secret, over |-> params]

=============================================================================
