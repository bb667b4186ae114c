------------------------------ MODULE DepthBook ------------------------------
(***************************************************************************)
(* A limit order book and the two operations that the left-right log may   *)
(* carry (src/monitor/order_book.rs, Operations).  A price level is an     *)
(* element of Price, whichever side of the book it is on; a quantity of 0  *)
(* means that the level is not in the book.  The book itself is the type   *)
(* LimitOrderBook of the external crate lob, modelled from the use that    *)
(* src/ makes of it.                                                       *)
(***************************************************************************)
EXTENDS Integers

CONSTANTS
  Price,  \* the price levels of both sides of the book
  Qty     \* the quantities a level can rest at, 0 for an absent level

ASSUME QtyAssumption == Qty \subseteq Nat /\ 0 \in Qty

Levels == [Price -> Qty]

Book == [id : Nat, lv : Levels]

\* LimitOrderBook::default(): no level, update_id 0.
Default == [id |-> 0, lv |-> [p \in Price |-> 0]]

\* DepthUpdate: the ids it covers and the absolute quantity of every level that
\* changed between them.  Quantities of levels outside `touched` say nothing.
DepthUpdate == [first : Nat, last : Nat, touched : SUBSET Price, lv : Levels]

\* Mutants of SkipUpdate: no staleness test; a test on the wrong end of the range.
NeverSkip(u, b) == FALSE
SkipOnFirst(u, b) == u.first < b.id

\* DepthUpdate::skip_update: the update ends before the book's id.  An update that
\* ends exactly at the book's id is applied again (order_book.rs, test
\* left_right_does_not_drift_appart).
SkipUpdate(u, b) == u.last < b.id

SetLevels(u, b) == [p \in Price |-> IF p \in u.touched THEN u.lv[p] ELSE b.lv[p]]

\* Mutants of Absorb: the wrong end of the range becomes the book's id; quantities
\* taken for changes.
AbsorbFirstId(b, u) ==
  IF SkipUpdate(u, b) THEN b ELSE [id |-> u.first, lv |-> SetLevels(u, b)]
AbsorbDeltas(b, u) ==
  IF SkipUpdate(u, b) THEN b
  ELSE [id |-> u.last,
        lv |-> [p \in Price |-> b.lv[p] + IF p \in u.touched THEN u.lv[p] ELSE 0]]

\* Absorb::absorb_first of an Operations::Update.
Absorb(b, u) ==
  IF SkipUpdate(u, b) THEN b ELSE [id |-> u.last, lv |-> SetLevels(u, b)]

\* LimitOrderBook::extend: takes the other book's id and every level it has; a level
\* it lacks is left as it was.  It is how Initialize fills the empty copy and how
\* sync_with fills the second one.
Extend(b, other) ==
  [id |-> other.id,
   lv |-> [p \in Price |-> IF other.lv[p] # 0 THEN other.lv[p] ELSE b.lv[p]]]

=============================================================================
