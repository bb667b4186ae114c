------------------------------ MODULE FrameRouting ------------------------------
(***************************************************************************)
(* From a list of book sources to the handler that a frame reaches: the    *)
(* parsing of the list (src/monitor/mod.rs), what each venue is asked for  *)
(* (src/providers), how a frame of the websocket is parsed                 *)
(* (src/monitor/depth_parse.rs) and routed (trolly-stream's                *)
(* multiplexor.rs), and the routing of a strategy's events                 *)
(* (trolly-strategy's runtime.rs and event.rs).  A symbol is the exchange's *)
(* name, in upper case, with or without the prefix RPI:.                   *)
(***************************************************************************)
EXTENDS Naturals, Sequences

CONSTANT Raw  \* the exchange's names, which do not start with RPI:

Symbol == [rpi : BOOLEAN, raw : Raw]

Elements(seq) == {seq[i] : i \in DOMAIN seq}

-----------------------------------------------------------------------------
\* The list of sources.

Label == {"binance", "binance-usd-m", "binance_usd_m", "binanceusdm", "stub", "unknown"}

\* Provider::from_label; Provider::Other has a label and no way to be named.
FromLabel(label) ==
  CASE label = "binance" -> "binance"
    [] label \in {"binance-usd-m", "binance_usd_m", "binanceusdm"} -> "binance-usd-m"
    [] label = "stub" -> "stub"
    [] OTHER -> "none"

\* A part of the list between two commas.
Part == [blank : BOOLEAN, colon : BOOLEAN, label : Label, named : BOOLEAN, symbol : Symbol]

\* BookSource::parse.
Parses(part) == part.colon /\ FromLabel(part.label) # "none" /\ part.named

\* parse_book_sources: one part that does not parse is an error, and so is no part at all.
ParseBookSources(list) ==
  LET parts == SelectSeq(list, LAMBDA part : ~ part.blank)
  IN  IF parts = <<>> \/ \E i \in DOMAIN parts : ~ Parses(parts[i]) THEN <<>>
      ELSE [i \in DOMAIN parts |->
              [provider |-> FromLabel(parts[i].label), symbol |-> parts[i].symbol]]

\* by_provider of run_global_book_stream: the symbols that one websocket subscribes.
SymbolsOf(sources, provider) ==
  LET its == SelectSeq(sources, LAMBDA s : s.provider = provider)
  IN  [i \in DOMAIN its |-> its[i].symbol]

-----------------------------------------------------------------------------
\* What a venue is asked for.  A stream is named by a kind and a symbol.

SetProperty == [method |-> "SET_PROPERTY", params |-> {}]
SubscribeTo(params) == [method |-> "SUBSCRIBE", params |-> params]

\* strip_rpi.
Bare(s) == [rpi |-> FALSE, raw |-> s.raw]

UsdmStream(s) == [kind |-> IF s.rpi THEN "rpiDepth" ELSE "depth", of |-> Bare(s)]

\* BinanceUsdM::ws_subscriptions: SET_PROPERTY combined comes first if it is needed.
UsdmMessages(symbols) ==
  LET subscribe == SubscribeTo({UsdmStream(s) : s \in Elements(symbols)})
  IN  IF \E s \in Elements(symbols) : s.rpi THEN <<SetProperty, subscribe>> ELSE <<subscribe>>

\* BinanceUsdM::rest_api_url.
UsdmRest(s) == Bare(s)

\* Binance::ws_subscriptions and rest_api_url: the symbol as it is.
SpotMessages(symbols) ==
  <<SubscribeTo({[kind |-> "depth", of |-> s] : s \in Elements(symbols)})>>
SpotRest(s) == s

\* Stub does the same.
StubMessages(symbols) ==
  <<SubscribeTo({[kind |-> "depth", of |-> s] : s \in Elements(symbols)})>>

-----------------------------------------------------------------------------
\* Frames of a depth websocket.

Frame == [text : BOOLEAN, kind : {"diff", "ack", "other"}, stream : {"depth", "rpiDepth"},
          enveloped : BOOLEAN, raw : Raw]

\* The venue: diffs of the streams that it was asked for and that it has, with the
\* exchange's name in them, in an envelope if SET_PROPERTY came before.
DiffsOf(messages) ==
  {f \in Frame :
     /\ f.text /\ f.kind = "diff"
     /\ \E i \in DOMAIN messages :
          [kind |-> f.stream, of |-> [rpi |-> FALSE, raw |-> f.raw]] \in messages[i].params
     /\ messages[1] = SetProperty => f.enveloped}

\* parse_depth_bytes: the envelope says whether a diff is of an RPI stream.
ParseDepthBytes(f) ==
  CASE f.kind = "diff" ->
         {[rpi |-> f.enveloped /\ f.stream = "rpiDepth", raw |-> f.raw]}
    [] f.kind = "ack" -> {}
    [] OTHER -> {}

\* MonitorMultiplexor::ingest_message: the handlers that get the diff of a frame.
IngestMessage(writers, f) == IF f.text THEN ParseDepthBytes(f) \cap writers ELSE {}

-----------------------------------------------------------------------------
\* Events of a strategy.

\* An account event may name a symbol, and names an asset.
StreamEvent ==
  [kind : {"depth", "execution"}, symbol : Raw]
    \cup [kind : {"account"}, hasSymbol : BOOLEAN, symbol : Raw, asset : Raw]

EventFrame ==
  [text : {TRUE}, parses : {TRUE}, event : StreamEvent]
    \cup [text : BOOLEAN, parses : {FALSE}] \cup [text : {FALSE}, parses : {TRUE}]

\* StreamEvent::routing_id.
RoutingId(event) ==
  IF event.kind = "account" /\ ~ event.hasSymbol THEN event.asset ELSE event.symbol

\* parse_envelope.
ParseEnvelope(frame) == IF frame.text /\ frame.parses THEN {frame.event} ELSE {}

\* StrategyEventHandler::build: a handler for each symbol, all of one runtime.
StrategyHandlers(symbols) == Elements(symbols)

\* route_message: what the runtime ingests of a frame that goes through the handlers.
RouteMessage(handlers, frame) == {e \in ParseEnvelope(frame) : RoutingId(e) \in handlers}

\* StrategyHub::ingest_message: what it ingests of a frame that does not.
HubIngests(frame) == ParseEnvelope(frame)

=============================================================================
