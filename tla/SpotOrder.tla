------------------------------- MODULE SpotOrder -------------------------------
(***************************************************************************)
(* Placing an order on Binance spot by signed REST: the commands that an   *)
(* egress accepts, the form that a request becomes, and what place_order   *)
(* makes of the connection and of the answer (egress.rs and order.rs of    *)
(* crates/binance-spot-exec), with the command line that uses it           *)
(* (cli/mod.rs).                                                           *)
(***************************************************************************)
EXTENDS OrderText

OrderSide == {"BUY", "SELL"}
OrderType == {"MARKET", "LIMIT"}
TimeInForce == {"GTC", "IOC", "FOK"}

PlaceOrderRequest ==
  [symbol : Symbol, side : OrderSide, orderType : OrderType, quantity : Decimal,
   price : Option(Decimal), timeInForce : Option(TimeInForce),
   clientId : Option(Symbol)]

\* PlaceOrderRequest::market.
Market(symbol, side, quantity) ==
  [symbol |-> symbol, side |-> side, orderType |-> "MARKET", quantity |-> quantity,
   price |-> none, timeInForce |-> none, clientId |-> none]

\* PlaceOrderRequest::limit.
Limit(symbol, side, quantity, price, timeInForce) ==
  [symbol |-> symbol, side |-> side, orderType |-> "LIMIT", quantity |-> quantity,
   price |-> price, timeInForce |-> timeInForce, clientId |-> none]

-----------------------------------------------------------------------------
\* From a command to a request.

\* EgressError, before anything is placed.
EgressError == {"side", "time in force", "unsupported"}

\* place_order_from_outbound: a command with a price is a limit order.  The
\* position side is ignored.
PlaceOrderFromOutbound(message) ==
  IF message.tag # "OrderRequest" THEN Err("unsupported")
  ELSE LET o == message.order
       IN  IF o.side \notin OrderSide THEN Err("side")
           ELSE IF o.timeInForce \notin Option(TimeInForce) THEN Err("time in force")
           ELSE Ok([symbol |-> o.symbol, side |-> o.side,
                    orderType |-> IF o.price = none THEN "MARKET" ELSE "LIMIT",
                    quantity |-> o.qty, price |-> o.price,
                    timeInForce |-> o.timeInForce,
                    clientId |-> none])

\* What place_order can report: an error of the builder, of the transport, of the venue,
\* or of the text of its answer.
PlaceOrderError ==
  {"limit requires price", "market with price", "transport", "api", "unexpected status",
   "parse"}

-----------------------------------------------------------------------------
\* From a request to a signed form.

WithClientId(params, request) ==
  IF request.clientId = none THEN params
  ELSE Insert(params, "newClientOrderId", request.clientId)

\* build_order_params.
BuildOrderParams(request) ==
  LET common == [symbol |-> request.symbol, side |-> request.side,
                 type |-> request.orderType, quantity |-> request.quantity]
      tif == IF request.timeInForce = none THEN "GTC" ELSE request.timeInForce
  IN  IF request.orderType = "MARKET"
      THEN IF request.price # none THEN Err("market with price")
           ELSE Ok(WithClientId(common, request))
      ELSE IF request.price = none THEN Err("limit requires price")
           ELSE Ok(WithClientId(Insert(Insert(common, "price", request.price),
                                       "timeInForce", tif), request))

\* build_signed_form_params: the signature is over everything that is in the form by
\* then, the timestamp included.
BuildSignedFormParams(secret, request, now) ==
  LET params == BuildOrderParams(request)
      stamped == Insert(params.value, "timestamp", now)
  IN  IF params.error # "no" THEN params
      ELSE Ok(Insert(stamped, "signature", Signature(secret, stamped)))

-----------------------------------------------------------------------------
\* Posting the form.

\* base_url: the port is absent, a number, or something else.
BaseUrl == [https : BOOLEAN, port : {"absent", "number", "invalid"}]

ParseHttpsUrl(url) ==
  IF ~ url.https \/ url.port = "invalid" THEN Err("transport")
  ELSE Ok(IF url.port = "absent" THEN "443" ELSE "given")

\* What comes back over the connection.  A body is an acknowledgement, an error of the
\* API, or neither; one that is chunked or cut off is neither.
Body == {"ack", "api error", "neither"}
RawResponse ==
  [utf8 : BOOLEAN, headerEnds : BOOLEAN, hasStatus : BOOLEAN, status : Nat, body : Body]

ParseHttpResponse(raw) ==
  IF ~ raw.utf8 \/ ~ raw.headerEnds \/ ~ raw.hasStatus \/ raw.status >= 65536
  THEN Err("transport")
  ELSE Ok([status |-> raw.status, body |-> raw.body])

\* How far a connection gets, and what it brings back.
Connection ==
  [tcp : BOOLEAN, tls : BOOLEAN, write : BOOLEAN, shutdown : BOOLEAN, read : BOOLEAN,
   raw : RawResponse]

\* post_form_native_tls: the first stage that fails ends it.
PostForm(url, connection) ==
  IF ParseHttpsUrl(url).error # "no" THEN ParseHttpsUrl(url)
  ELSE IF \E stage \in {"tcp", "tls", "write", "shutdown", "read"} : ~ connection[stage]
       THEN Err("transport")
       ELSE ParseHttpResponse(connection.raw)

\* The venue can have the whole form: the write was reached and went through.
Delivered(url, connection) ==
  /\ ParseHttpsUrl(url).error = "no"
  /\ connection.tcp /\ connection.tls /\ connection.write

\* parse_place_order_response: an acknowledgement under another status is an error, and
\* an accepted order whose body does not decode is one too.
ParsePlaceOrderResponse(response) ==
  IF response.status = 200
  THEN IF response.body = "ack" THEN Ok("ack") ELSE Err("parse")
  ELSE IF response.body = "api error" THEN Err("api") ELSE Err("unexpected status")

\* SpotOrderClient::place_order.
PlaceOrder(secret, url, request, now, connection) ==
  LET form == BuildSignedFormParams(secret, request, now)
      response == PostForm(url, connection)
  IN  IF form.error # "no" THEN form
      ELSE IF response.error # "no" THEN response
      ELSE ParsePlaceOrderResponse(response.value)

\* SpotOrderEgressDirect::dispatch: places the order before it returns.
DispatchDirect(secret, url, message, now, connection) ==
  LET request == PlaceOrderFromOutbound(message)
  IN  IF request.error # "no" THEN request
      ELSE PlaceOrder(secret, url, request.value, now, connection)

-----------------------------------------------------------------------------
\* trolly execute place-order.

\* PlaceOrderArgs; clap refuses every other value.
PlaceOrderArgs ==
  [symbol : Symbol, side : {"BUY", "SELL"}, qty : Decimal, price : Option(Decimal),
   timeInForce : {"GTC", "IOC", "FOK"}]

\* PlaceOrderArgs::run: the time in force counts for a limit order only.
RequestOfArgs(args) ==
  IF args.price = none THEN Market(args.symbol, args.side, args.qty)
  ELSE Limit(args.symbol, args.side, args.qty, args.price, args.timeInForce)

-----------------------------------------------------------------------------
\* What the venue takes as an order: a price and a time in force for a limit order,
\* neither for a market order.
IsForm(params) ==
  /\ {"symbol", "side", "type", "quantity"} \subseteq DOMAIN params
  /\ params["symbol"] \in Symbol /\ params["side"] \in OrderSide
  /\ params["type"] \in OrderType /\ params["quantity"] \in Decimal
  /\ "price" \in DOMAIN params <=> params["type"] = "LIMIT"
  /\ "timeInForce" \in DOMAIN params <=> params["type"] = "LIMIT"
  /\ params["type"] = "LIMIT" =>
       params["price"] \in Decimal /\ params["timeInForce"] \in TimeInForce

\* The signature of a form is over all its other parameters.
IsSigned(secret, form) ==
  /\ {"timestamp", "signature"} \subseteq DOMAIN form
  /\ form["signature"] = Signature(secret, [k \in DOMAIN form \ {"signature"} |-> form[k]])

=============================================================================
