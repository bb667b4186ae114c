----------------------------- MODULE MCGlobalBook -----------------------------
(***************************************************************************)
(* GlobalBook and its terminal viewer with one instrument listed on two    *)
(* venues and the RPI overlay of that instrument on the second one; and    *)
(* with a source that is listed twice.  The inductive invariant of the     *)
(* proofs is checked on the former.                                        *)
(***************************************************************************)
EXTENDS GlobalBook_proof

CONSTANTS spot, usdm, btc, rpi

MCSources ==
  << [provider |-> spot, instrument |-> btc],
     [provider |-> usdm, instrument |-> btc],
     [provider |-> usdm, instrument |-> rpi] >>

MCSourcesTwice ==
  << [provider |-> spot, instrument |-> btc],
     [provider |-> spot, instrument |-> btc] >>

\* RPI:btc is the overlay of btc.
MCPlain == [i \in {btc, rpi} |-> btc]

\* tab_strip_groups_rpi_with_standard_under_same_instrument, for the first list.
ASSUME TabsAreGrouped ==
  Sources = MCSources =>
    TabStrip = << [kind |-> "merged", of |-> btc],
                  [kind |-> "symbol", of |-> MCSources[1]],
                  [kind |-> "symbol", of |-> MCSources[2]],
                  [kind |-> "symbol", of |-> MCSources[3]],
                  [kind |-> "diff", of |-> btc] >>

SmallRows == UNION {[ps -> 0 .. 2] : ps \in SUBSET (1 .. 4)}

SizeOn(rows, ps) == MapThenSumSet(LAMBDA p : rows[p], ps)

\* A point of a cumulative curve is at one of the best n prices that something rests
\* at, and its height is the size between that price and the touch.
ASSUME CurvesAreCumulative ==
  \A rows \in SmallRows, n \in 0 .. 3 :
    LET resting == {p \in DOMAIN rows : rows[p] > 0}
        above(p) == {r \in resting : r >= p}
        below(p) == {r \in resting : r <= p}
    IN  /\ Range(BidCumulativeTopN(rows, n)) =
             {<<p, SizeOn(rows, above(p))>> : p \in {r \in resting : Cardinality(above(r)) <= n}}
        /\ Range(AskCumulativeTopN(rows, n)) =
             {<<p, SizeOn(rows, below(p))>> : p \in {r \in resting : Cardinality(below(r)) <= n}}

\* A difference of two books that are equal is a flat line over their lowest prices, and
\* not an empty chart.
ASSUME EqualBooksAreFlat ==
  \A rows \in SmallRows :
    /\ DOMAIN DiffQtyLevels(rows, rows) = Range(LowestN(rows, MaxLevels))
    /\ \A p \in DOMAIN DiffQtyLevels(rows, rows) : DiffQtyLevels(rows, rows)[p] = 0

=============================================================================
