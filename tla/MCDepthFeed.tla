----------------------------- MODULE MCDepthFeed -----------------------------
(***************************************************************************)
(* DepthFeed on two price levels of one side, of which a snapshot tells    *)
(* one, and a handful of venue changes.  The inductive invariant that its  *)
(* proofs rest on is checked here too, and so is the routing of frames, on *)
(* every list of up to three sources.                                      *)
(***************************************************************************)
EXTENDS DepthFeed_proof

SymbolLists == UNION {[1 .. n -> Symbol] : n \in 1 .. 3}

\* UsdmDiffReachesItsHandler and SpotDiffReachesItsHandler on small lists: the venue
\* sends one frame or two for each stream, and with all handlers built none is lost.
ASSUME DiffsReachTheirHandlers ==
  \A symbols \in SymbolLists :
    /\ \A f \in DiffsOf(UsdmMessages(symbols)) :
         IngestMessage(Elements(symbols), f) = {SubscriberOf(f)}
    /\ {SubscriberOf(f) : f \in DiffsOf(UsdmMessages(symbols))} = Elements(symbols)
    /\ \A f \in DiffsOf(SpotMessages(symbols)) :
         IngestMessage(Elements(symbols), f) = {SubscriberOf(f)}
    /\ SpotMessages(symbols) = StubMessages(symbols)

\* Without an envelope an RPI diff goes to the plain symbol's book, as
\* raw_rpi_payload_misroutes_without_envelope (order_book.rs) notes: the envelope that
\* SET_PROPERTY asks for is what UsdmDiffReachesItsHandler rests on.
ASSUME BareOverlayMisroutes ==
  \A raw \in Raw :
    LET f == [text |-> TRUE, kind |-> "diff", stream |-> "rpiDepth", enveloped |-> FALSE,
              raw |-> raw]
    IN  IngestMessage(Symbol, f) = {[rpi |-> FALSE, raw |-> raw]}

PartLists == UNION {[1 .. n -> Part] : n \in 0 .. 1}
               \cup [1 .. 2 -> {p \in Part : p.label \in {"binance", "stub", "unknown"}
                                               /\ p.named /\ ~ p.symbol.rpi}]

\* What parse_book_sources accepts, run_global_book_stream splits over the venues without
\* losing a source or moving one to another venue; and one bad part refuses the list.
ASSUME SourcesAreSplit ==
  \A list \in PartLists :
    LET sources == ParseBookSources(list)
        venues == {"binance", "binance-usd-m", "stub"}
    IN  /\ Elements(sources) =
             UNION {{[provider |-> v, symbol |-> s] : s \in Elements(SymbolsOf(sources, v))} :
                      v \in venues}
        /\ (\E i \in DOMAIN list : ~ list[i].blank /\ ~ Parses(list[i])) => sources = <<>>

\* The books of an overlay and of its plain symbol start from one snapshot.
ASSUME OverlaySharesSnapshot ==
  \A s, t \in Symbol : (UsdmRest(s) = UsdmRest(t)) <=> (s.raw = t.raw)

\* A strategy hears through the handlers what it hears through its hub, less what is of
\* no subscribed symbol; an account event that names none is routed by its asset.
ASSUME HandlersFilterEvents ==
  \A symbols \in SUBSET Raw : \A frame \in EventFrame :
    LET names == CHOOSE s \in UNION {[1 .. n -> Raw] : n \in 0 .. 2} : Elements(s) = symbols
        routed == RouteMessage(StrategyHandlers(names), frame)
    IN  /\ routed \subseteq HubIngests(frame)
        /\ \A e \in HubIngests(frame) \ routed :
             (IF e.kind = "account" /\ ~ e.hasSymbol THEN e.asset ELSE e.symbol) \notin symbols

=============================================================================
