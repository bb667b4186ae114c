-------------------------------- MODULE BookTui --------------------------------
(***************************************************************************)
(* The terminal viewer of the global book                                  *)
(* (src/bin/aggregated_depth_tui.rs).  Its thread draws one frame after    *)
(* another from the hub that the feed thread is filling: it takes the list *)
(* of factories, then reads the book or the two books of the selected tab, *)
(* each at a moment of its own.  A side of the chart is a function from    *)
(* prices to quantities; the text of a book and the parser that takes the  *)
(* levels out of it again are Displayed.                                   *)
(***************************************************************************)
EXTENDS GlobalBook, SequencesExt

CONSTANTS
  Usdm,      \* the venue that has RPI overlays, binance-usd-m
  Plain,     \* Plain[i]: instrument i without its RPI: prefix
  Bids,      \* the prices of the bid side; prices are integers here
  DepthRows, \* --depth-rows
  MaxLevels  \* MAX_LEVELS of a difference: 2048

ASSUME TuiAssumption ==
  /\ Sources # <<>>
  /\ Usdm \in Provider
  /\ Plain \in [Instrument -> Instrument]
  /\ \A i \in Instrument : Plain[Plain[i]] = Plain[i]
  /\ \A i, j \in Instrument : i # Plain[i] /\ j # Plain[j] /\ Plain[i] = Plain[j] => i = j
  /\ Price \subseteq Int /\ Bids \subseteq Price
  /\ DepthRows \in Nat /\ MaxLevels \in Nat \ {0}

VARIABLES
  tab,    \* the selected tab, an index of TabStrip
  phase,  \* where the loop of run_tui is
  bySym,  \* by_sym: the factories listed at the start of the frame
  absent, \* missing_symbol
  std,    \* what the first leg of a difference has shown
  shown   \* the last frame of this tab, or no frame

tuiVars == <<tab, phase, bySym, absent, std, shown>>
tuiAndHubVars == <<vars, tuiVars>>

-----------------------------------------------------------------------------
\* The tabs.

\* canonical_first_seen: the plain instruments in the order of the source list.
CanonicalFirstSeen ==
  FoldLeft(LAMBDA seen, s : IF Contains(seen, Plain[s.instrument]) THEN seen
                            ELSE Append(seen, Plain[s.instrument]),
           <<>>, Sources)

\* The tabs of the sources of instrument c.
SymbolTabs(c) ==
  FoldLeft(LAMBDA tabs, s : IF Plain[s.instrument] # c THEN tabs
                            ELSE Append(tabs, [kind |-> "symbol", of |-> s]),
           <<>>, Sources)

\* tab_strip: for each instrument its merged lane, its sources, its difference.
TabStrip ==
  FoldLeft(LAMBDA tabs, c : Append(Append(tabs, [kind |-> "merged", of |-> c]) \o SymbolTabs(c),
                                   [kind |-> "diff", of |-> c]),
           <<>>, CanonicalFirstSeen)

View == TabStrip[tab]

-----------------------------------------------------------------------------
\* The curves of a chart.

\* The prices of a side in ascending order.
Prices(rows) ==
  CHOOSE ps \in [1 .. Cardinality(DOMAIN rows) -> DOMAIN rows] :
    \A j, k \in DOMAIN ps : j < k => ps[j] < ps[k]

\* The size at the js-th of these prices.
SizeAt(rows, ps, js) == MapThenSumSet(LAMBDA j : rows[ps[j]], js)

\* The best n prices: the highest bids, the lowest asks, in ascending order.
HighestN(rows, n) == LET ps == Prices(rows)
                     IN  SubSeq(ps, IF Len(ps) > n THEN Len(ps) - n + 1 ELSE 1, Len(ps))
LowestN(rows, n) == LET ps == Prices(rows) IN SubSeq(ps, 1, IF Len(ps) > n THEN n ELSE Len(ps))

\* parse_level_pairs: a row that rests at nothing is no point of a cumulative curve.
Positive(rows) == [p \in {q \in DOMAIN rows : rows[q] > 0} |-> rows[p]]

\* The size from a price inward to the touch, by taking each level off the total.
BidCumulativeTopN(rows, n) ==
  LET ps == HighestN(Positive(rows), n)
  IN  [j \in DOMAIN ps |->
         <<ps[j], SizeAt(rows, ps, DOMAIN ps) - SizeAt(rows, ps, 1 .. (j - 1))>>]

\* The size from the touch outward, by adding the levels up.
AskCumulativeTopN(rows, n) ==
  LET ps == LowestN(Positive(rows), n)
  IN  [j \in DOMAIN ps |-> <<ps[j], SizeAt(rows, ps, 1 .. j)>>]

\* A difference is drawn as it is, negative and zero rows included.
BidDeltaLineTopN(rows, n) ==
  LET ps == HighestN(rows, n) IN [j \in DOMAIN ps |-> <<ps[j], rows[ps[j]]>>]
AskDeltaLineTopN(rows, n) ==
  LET ps == LowestN(rows, n) IN [j \in DOMAIN ps |-> <<ps[j], rows[ps[j]]>>]

\* diff_qty_levels(left, right): right - left at every price of either, of both sides the
\* lowest MaxLevels prices; a row that comes out at 0 is kept.
DiffQtyLevels(left, right) ==
  LET at(rows, p) == IF p \in DOMAIN rows THEN rows[p] ELSE 0
      prices == DOMAIN left \cup DOMAIN right
  IN  [p \in {q \in prices : Cardinality({r \in prices : r < q}) < MaxLevels} |->
         at(right, p) - at(left, p)]

-----------------------------------------------------------------------------
\* Reading a book.

NoRows == [p \in {} |-> 0]

Nothing == [id |-> 0, bids |-> NoRows, asks |-> NoRows]

\* Display of a book and parse_book_display of the text: the levels of each side.
Displayed(b) ==
  LET side(prices) == [p \in {r \in prices : b.lv[r] # 0} |-> b.lv[p]]
  IN  [id |-> b.id, bids |-> side(Bids), asks |-> side(Price \ Bids)]

\* merged_swap_for: the lane exists once a source of the instrument has registered.
HasLane(i) == sources[i] # <<>>

\* snapshot_ladder of a merged lane; the swap is looked up again.
LaneSnapshot(i) == IF HasLane(i) THEN Displayed(merged[i]) ELSE Nothing

\* ReadHandle::enter() through a factory: nothing without a factory or a writer.  The
\* difference tries 48 times, which does not bring a writer back.
SymbolSnapshot(s) ==
  IF bySym[s] # nobody /\ HasWriter(bySym[s]) THEN Displayed(book[bySym[s]]) ELSE Nothing

StdLeg(c) == [provider |-> Usdm, instrument |-> c]
RpiLegs(c) == {[provider |-> Usdm, instrument |-> i] : i \in {j \in Instrument \ {c} : Plain[j] = c}}

\* rpi_depth_pair_in_keys: both legs of instrument c are in the hub.
HasPair(listed, c) == listed[StdLeg(c)] # nobody /\ \E s \in RpiLegs(c) : listed[s] # nobody

\* Mutant of IdOfLegs: the exclusive or of the ids, as it was before the comment of
\* try_snapshot_std_book_minus_rpi_stream.
XorOfLegs(a, b) ==
  LET bits(n) == {k \in 0 .. n : (n \div 2 ^ k) % 2 = 1}
  IN  MapThenSumSet(LAMBDA k : 2 ^ k, (bits(a) \ bits(b)) \cup (bits(b) \ bits(a)))

\* The book_id of a difference.
IdOfLegs(a, b) == a + b

StdMinusRpi(public, rpi) ==
  [id |-> IdOfLegs(public.id, rpi.id),
   bids |-> DiffQtyLevels(rpi.bids, public.bids),
   asks |-> DiffQtyLevels(rpi.asks, public.asks)]

-----------------------------------------------------------------------------
\* Drawing.

\* ui: which of the four lines of meta data the frame carries.
Header(isDiff) ==
  CASE absent /\ isDiff -> "undefined"
    [] absent /\ ~ isDiff -> "no book yet"
    [] ~ absent /\ isDiff -> "difference"
    [] OTHER -> "book"

\* ui: the points of the chart.
Points(isDiff, snap) ==
  IF isDiff THEN [bids |-> BidDeltaLineTopN(snap.bids, DepthRows),
                  asks |-> AskDeltaLineTopN(snap.asks, DepthRows)]
  ELSE [bids |-> BidCumulativeTopN(snap.bids, DepthRows),
        asks |-> AskCumulativeTopN(snap.asks, DepthRows)]

FrameOf(snap) ==
  LET isDiff == View.kind = "diff"
  IN  [header |-> Header(isDiff), id |-> snap.id, points |-> Points(isDiff, snap)]

noFrame == [header |-> "none", id |-> 0, points |-> [bids |-> <<>>, asks |-> <<>>]]

NoFactories == [s \in BookSource |-> nobody]

TuiInit ==
  /\ tab = 1
  /\ phase = "look"
  /\ bySym = NoFactories
  /\ absent = FALSE
  /\ std = Nothing
  /\ shown = noFrame

\* The top of the loop: per_source_factories() and missing_symbol.
Look ==
  /\ phase = "look"
  /\ phase' = "read"
  /\ bySym' = factories
  /\ absent' = CASE View.kind = "merged" -> ~ HasLane(View.of)
                 [] View.kind = "symbol" -> factories[View.of] = nobody
                 [] View.kind = "diff" -> ~ HasPair(factories, View.of)
  /\ UNCHANGED <<vars, tab, std, shown>>

\* term.draw; the variables of the frame go out of scope.
Draw(snap) ==
  /\ phase' = "poll"
  /\ shown' = FrameOf(snap)
  /\ std' = Nothing
  /\ bySym' = NoFactories
  /\ absent' = FALSE
  /\ UNCHANGED <<vars, tab>>

ReadLane == phase = "read" /\ View.kind = "merged" /\ Draw(LaneSnapshot(View.of))

ReadSymbol == phase = "read" /\ View.kind = "symbol" /\ Draw(SymbolSnapshot(View.of))

\* snapshot_diff without both legs.
ReadNoPair ==
  /\ phase = "read" /\ View.kind = "diff"
  /\ ~ HasPair(bySym, View.of)
  /\ Draw(Nothing)

ReadStd ==
  /\ phase = "read" /\ View.kind = "diff"
  /\ HasPair(bySym, View.of)
  /\ phase' = "read rpi"
  /\ std' = SymbolSnapshot(StdLeg(View.of))
  /\ UNCHANGED <<vars, tab, bySym, absent, shown>>

ReadRpi ==
  /\ phase = "read rpi"
  /\ \E s \in RpiLegs(View.of) : bySym[s] # nobody /\ Draw(StdMinusRpi(std, SymbolSnapshot(s)))

\* event::poll: the 200 ms run out, or a key that means nothing was pressed.
NoKey ==
  /\ phase = "poll"
  /\ phase' = "look"
  /\ UNCHANGED <<vars, tab, bySym, absent, std, shown>>

\* Right, Tab and Left, which wrap around.
ChangeTab(t) ==
  /\ phase = "poll"
  /\ phase' = "look"
  /\ tab' = t
  /\ shown' = noFrame
  /\ UNCHANGED <<vars, bySym, absent, std>>

KeyRight == ChangeTab((tab % Len(TabStrip)) + 1)
KeyLeft == ChangeTab(IF tab = 1 THEN Len(TabStrip) ELSE tab - 1)

KeyQuit ==
  /\ phase = "poll"
  /\ phase' = "closed"
  /\ shown' = noFrame
  /\ UNCHANGED <<vars, tab, bySym, absent, std>>

TuiNext ==
  \/ Look \/ ReadLane \/ ReadSymbol \/ ReadNoPair \/ ReadStd \/ ReadRpi
  \/ NoKey \/ KeyRight \/ KeyLeft \/ KeyQuit

BothInit == Init /\ TuiInit

BothNext == TuiNext \/ (Next /\ UNCHANGED tuiVars)

TuiSpec == BothInit /\ [][BothNext]_tuiAndHubVars

-----------------------------------------------------------------------------
\* A source of the view has been lost.
LostLeg ==
  \E k \in Shard :
    /\ st[k] = "dropped"
    /\ IF View.kind = "symbol" THEN Sources[k] = View.of
       ELSE Plain[InstrumentOf(k)] = View.of

(***************************************************************************)
(* Of two consecutive frames of a tab the later one does not show an older *)
(* book: its book_id is not lower, unless a source of the view has been    *)
(* lost, and it is 0 only over an empty chart.  The two legs of a          *)
(* difference are read at different moments and have ids of independent    *)
(* sequences.                                                              *)
(***************************************************************************)
FramesGoForward ==
  [][ phase' = "poll" =>
        /\ shown.header # "none" /\ ~ LostLeg => shown'.id >= shown.id
        /\ shown'.id = 0 => shown'.points = [bids |-> <<>>, asks |-> <<>>]
    ]_tuiVars

=============================================================================
