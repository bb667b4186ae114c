------------------------------- MODULE UsdmOrder -------------------------------
(***************************************************************************)
(* Placing an order on Binance USD-M futures by signed REST: the same      *)
(* steps as SpotOrder, from the crate's own copy of the code, with GTX and the *)
(* position side of hedge mode (egress.rs and order.rs of                  *)
(* crates/binance-usdm-exec).                                              *)
(***************************************************************************)
EXTENDS OrderText

OrderSide == {"BUY", "SELL"}
OrderType == {"MARKET", "LIMIT"}
TimeInForce == {"GTC", "IOC", "FOK", "GTX"}
PositionSide == {"LONG", "SHORT", "BOTH"}

PlaceOrderRequest ==
  [symbol : Symbol, side : OrderSide, orderType : OrderType, quantity : Decimal,
   price : Option(Decimal), timeInForce : Option(TimeInForce),
   positionSide : Option(PositionSide), clientId : Option(Symbol)]

\* PlaceOrderRequest::market.
Market(symbol, side, quantity) ==
  [symbol |-> symbol, side |-> side, orderType |-> "MARKET", quantity |-> quantity,
   price |-> none, timeInForce |-> none, positionSide |-> none, clientId |-> none]

\* PlaceOrderRequest::limit.
Limit(symbol, side, quantity, price, timeInForce) ==
  [symbol |-> symbol, side |-> side, orderType |-> "LIMIT", quantity |-> quantity,
   price |-> price, timeInForce |-> timeInForce, positionSide |-> none, clientId |-> none]

WithPositionSide(request, positionSide) == [request EXCEPT !.positionSide = positionSide]

-----------------------------------------------------------------------------
\* From a command to a request.

\* EgressError, before anything is placed.
EgressError == {"side", "time in force", "position side", "unsupported"}

\* place_order_from_outbound: a command with a price is a limit order.
PlaceOrderFromOutbound(message) ==
  IF message.tag # "OrderRequest" THEN Err("unsupported")
  ELSE LET o == message.order
       IN  IF o.side \notin OrderSide THEN Err("side")
           ELSE IF o.timeInForce \notin Option(TimeInForce) THEN Err("time in force")
           ELSE IF o.positionSide \notin Option(PositionSide) THEN Err("position side")
           ELSE Ok([symbol |-> o.symbol, side |-> o.side,
                    orderType |-> IF o.price = none THEN "MARKET" ELSE "LIMIT",
                    quantity |-> o.qty, price |-> o.price,
                    timeInForce |-> o.timeInForce, positionSide |-> o.positionSide,
                    clientId |-> none])

\* What place_order can report: an error of the builder, of the transport, of the venue,
\* or of the text of its answer.
PlaceOrderError ==
  {"limit requires price", "market with price", "transport", "api", "unexpected status",
   "parse"}

-----------------------------------------------------------------------------
\* From a request to a signed form.

WithClientId(params, request) ==
  IF request.clientId = none THEN params
  ELSE Insert(params, "newClientOrderId", request.clientId)

\* build_order_params.
BuildOrderParams(request) ==
  LET common == [symbol |-> request.symbol, side |-> request.side,
                 type |-> request.orderType, quantity |-> request.quantity,
                 positionSide |-> IF request.positionSide = none THEN "BOTH"
                                  ELSE request.positionSide]
      tif == IF request.timeInForce = none THEN "GTC" ELSE request.timeInForce
  IN  IF request.orderType = "MARKET"
      THEN IF request.price # none THEN Err("market with price")
           ELSE Ok(WithClientId(common, request))
      ELSE IF request.price = none THEN Err("limit requires price")
           ELSE Ok(WithClientId(Insert(Insert(common, "price", request.price),
                                       "timeInForce", tif), request))

\* build_signed_form_params: the signature is over everything that is in the form by
\* then, the timestamp included.
BuildSignedFormParams(secret, request, now) ==
  LET params == BuildOrderParams(request)
      stamped == Insert(params.value, "timestamp", now)
  IN  IF params.error # "no" THEN params
      ELSE Ok(Insert(stamped, "signature", Signature(secret, stamped)))

-----------------------------------------------------------------------------
\* Posting the form.

\* base_url: the port is absent, a number, or something else.
BaseUrl == [https : BOOLEAN, port : {"absent", "number", "invalid"}]

ParseHttpsUrl(url) ==
  IF ~ url.https \/ url.port = "invalid" THEN Err("transport")
  ELSE Ok(IF url.port = "absent" THEN "443" ELSE "given")

\* What comes back over the connection.  A body is an acknowledgement, an error of the
\* API, or neither; one that is chunked or cut off is neither.
Body == {"ack", "api error", "neither"}
RawResponse ==
  [utf8 : BOOLEAN, headerEnds : BOOLEAN, hasStatus : BOOLEAN, status : Nat, body : Body]

ParseHttpResponse(raw) ==
  IF ~ raw.utf8 \/ ~ raw.headerEnds \/ ~ raw.hasStatus \/ raw.status >= 65536
  THEN Err("transport")
  ELSE Ok([status |-> raw.status, body |-> raw.body])

\* How far a connection gets, and what it brings back.
Connection ==
  [tcp : BOOLEAN, tls : BOOLEAN, write : BOOLEAN, shutdown : BOOLEAN, read : BOOLEAN,
   raw : RawResponse]

\* post_form_native_tls: the first stage that fails ends it.
PostForm(url, connection) ==
  IF ParseHttpsUrl(url).error # "no" THEN ParseHttpsUrl(url)
  ELSE IF \E stage \in {"tcp", "tls", "write", "shutdown", "read"} : ~ connection[stage]
       THEN Err("transport")
       ELSE ParseHttpResponse(connection.raw)

\* The venue can have the whole form: the write was reached and went through.
Delivered(url, connection) ==
  /\ ParseHttpsUrl(url).error = "no"
  /\ connection.tcp /\ connection.tls /\ connection.write

\* parse_place_order_response: an acknowledgement under another status is an error, and
\* an accepted order whose body does not decode is one too.
ParsePlaceOrderResponse(response) ==
  IF response.status = 200
  THEN IF response.body = "ack" THEN Ok("ack") ELSE Err("parse")
  ELSE IF response.body = "api error" THEN Err("api") ELSE Err("unexpected status")

\* UsdmOrderClient::place_order.
PlaceOrder(secret, url, request, now, connection) ==
  LET form == BuildSignedFormParams(secret, request, now)
      response == PostForm(url, connection)
  IN  IF form.error # "no" THEN form
      ELSE IF response.error # "no" THEN response
      ELSE ParsePlaceOrderResponse(response.value)

\* UsdmOrderEgressDirect::dispatch: places the order before it returns.
DispatchDirect(secret, url, message, now, connection) ==
  LET request == PlaceOrderFromOutbound(message)
  IN  IF request.error # "no" THEN request
      ELSE PlaceOrder(secret, url, request.value, now, connection)

-----------------------------------------------------------------------------
\* What the venue takes as an order: a price and a time in force for a limit order,
\* neither for a market order, and always a position
\* side.
IsForm(params) ==
  /\ {"symbol", "side", "type", "quantity", "positionSide"} \subseteq DOMAIN params
  /\ params["symbol"] \in Symbol /\ params["side"] \in OrderSide
  /\ params["type"] \in OrderType /\ params["quantity"] \in Decimal
  /\ "price" \in DOMAIN params <=> params["type"] = "LIMIT"
  /\ "timeInForce" \in DOMAIN params <=> params["type"] = "LIMIT"
  /\ params["type"] = "LIMIT" =>
       params["price"] \in Decimal /\ params["timeInForce"] \in TimeInForce
  /\ params["positionSide"] \in PositionSide

\* The signature of a form is over all its other parameters.
IsSigned(secret, form) ==
  /\ {"timestamp", "signature"} \subseteq DOMAIN form
  /\ form["signature"] = Signature(secret, [k \in DOMAIN form \ {"signature"} |-> form[k]])

=============================================================================
