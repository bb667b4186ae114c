--------------------------- MODULE MCOrderPipeline ---------------------------
(***************************************************************************)
(* OrderPipeline with a few commands, and its inductive invariant; with    *)
(* the forms that its orders become, for every command there is.           *)
(***************************************************************************)
EXTENDS OrderPipeline_proof

\* A command that dispatch does not refuse becomes a signed form of an order.
ASSUME AcceptedIsBuilt ==
  \A message \in OutboundMessage, secret \in Secret :
    LET spot == Spot!PlaceOrderFromOutbound(message)
        usdm == Usdm!PlaceOrderFromOutbound(message)
        spotForm == Spot!BuildSignedFormParams(secret, spot.value, 1)
        usdmForm == Usdm!BuildSignedFormParams(secret, usdm.value, 1)
    IN  /\ spot.error \in Spot!EgressError \cup {"no"}
        /\ usdm.error \in Usdm!EgressError \cup {"no"}
        /\ spot.error = "no" =>
             spotForm.error = "no" /\ Spot!IsForm(spotForm.value)
               /\ Spot!IsSigned(secret, spotForm.value)
        /\ usdm.error = "no" =>
             usdmForm.error = "no" /\ Usdm!IsForm(usdmForm.value)
               /\ Usdm!IsSigned(secret, usdmForm.value)

Connections ==
  [tcp : BOOLEAN, tls : BOOLEAN, write : BOOLEAN, shutdown : BOOLEAN, read : BOOLEAN,
   raw : [utf8 : BOOLEAN, headerEnds : BOOLEAN, hasStatus : BOOLEAN,
          status : {200, 400, 65536}, body : Spot!Body]]

\* The direct egress and the queue give the same answer to a command, and Ok means that
\* the venue has acknowledged the order.
ASSUME OkIsAcknowledged ==
  \A price \in Option(Decimal), url \in Spot!BaseUrl, connection \in Connections,
     symbol \in Symbol, qty \in Decimal, secret \in Secret :
    LET message == [tag |-> "OrderRequest",
                    order |-> [symbol |-> symbol, side |-> "BUY", qty |-> qty, price |-> price,
                               timeInForce |-> none, positionSide |-> none]]
        args == [symbol |-> symbol, side |-> "BUY", qty |-> qty, price |-> price,
                 timeInForce |-> "GTC"]
        direct == Spot!DispatchDirect(secret, url, message, 1, connection)
        cli == Spot!PlaceOrder(secret, url, Spot!RequestOfArgs(args), 1, connection)
        usdm == Usdm!DispatchDirect(secret, url, message, 1, connection)
    IN  /\ direct = cli /\ direct = usdm
        /\ direct.error = "no" =>
             /\ Spot!Delivered(url, connection)
             /\ connection.raw.status = 200 /\ connection.raw.body = "ack"

=============================================================================
