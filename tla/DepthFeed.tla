------------------------------ MODULE DepthFeed ------------------------------
(***************************************************************************)
(* What the pipeline of one symbol promises: the book that readers see is  *)
(* one variable, changed in one step by each diff, in the order of the     *)
(* websocket.  OrderBook.tla shows that the left-right pair of copies in   *)
(* src/monitor/order_book.rs implements this; here the interplay with the  *)
(* venue is studied: MonitorMultiplexor::stream subscribes first, fetches  *)
(* the snapshot while the websocket buffers, then applies what it reads,   *)
(* skipping diffs that end before the snapshot.                            *)
(***************************************************************************)
EXTENDS DepthVenue

VARIABLES
  book,     \* the book readers see
  handler,  \* the symbol's entry in MonitorMultiplexor::writers
  pc,       \* where stream() is
  stop      \* the shutdown flag set by the Ctrl+C handler

vars == <<venueVars, book, handler, pc, stop>>

TypeOK ==
  /\ VenueTypeOK
  /\ book \in Book
  /\ handler \in {"none", "live", "missing", "dropped"}
  /\ pc \in {"connect", "fetch", "build", "loop", "done"}
  /\ stop \in BOOLEAN

Init ==
  /\ VenueInit
  /\ book = Default
  /\ handler = "none"
  /\ pc = "connect"
  /\ stop = FALSE

\* Mutant of Connect: stream() waits for the snapshot before it subscribes.
SnapshotFirst ==
  /\ pc = "connect"
  /\ \/ /\ rest.st = "idle"
        /\ SendRequest
        /\ pc' = pc
     \/ /\ rest.st = "replied"
        /\ SendSubscription
        /\ pc' = "build"
  /\ UNCHANGED <<book, handler, stop>>

\* stream() calls subscribe() before build().
Connect ==
  /\ pc = "connect"
  /\ SendSubscription
  /\ pc' = "fetch"
  /\ UNCHANGED <<book, handler, stop>>

\* connect(url).await.expect("stream"): no connection, no stream.
ConnectFails ==
  /\ pc = "connect"
  /\ pc' = "done"
  /\ UNCHANGED <<venueVars, book, handler, stop>>

\* The handler's build() asks for the snapshot.
Fetch ==
  /\ pc = "fetch"
  /\ SendRequest
  /\ pc' = "build"
  /\ UNCHANGED <<book, handler, stop>>

\* The snapshot initialises the book and the handler enters the writers' map.
Load ==
  /\ pc = "build"
  /\ rest.st = "replied"
  /\ book' = Extend(book, rest.book)
  /\ handler' = "live"
  /\ pc' = "loop"
  /\ UNCHANGED <<venueVars, stop>>

\* build() of the handler fails, its task panics and the symbol gets no handler;
\* the multiplexor streams on without it.
LoadFails ==
  /\ pc = "build"
  /\ rest.st = "failed"
  /\ handler' = "missing"
  /\ pc' = "loop"
  /\ UNCHANGED <<venueVars, book, stop>>

\* ingest_message of a diff: applied by the symbol's handler, dropped without one.
IngestDiff ==
  /\ pc = "loop"
  /\ ReadDiff
  /\ book' = IF handler = "live" THEN Absorb(book, Head(socket)) ELSE book
  /\ UNCHANGED <<handler, pc, stop>>

\* ingest_message of anything else.
IngestControl ==
  /\ pc = "loop"
  /\ ReadControl
  /\ UNCHANGED <<book, handler, pc, stop>>

\* The loop ends on the flag or at the end of the stream; the handlers are dropped.
Finish ==
  /\ pc = "loop"
  /\ stop \/ StreamEnded
  /\ handler' = "dropped"
  /\ pc' = "done"
  /\ UNCHANGED <<venueVars, book, stop>>

CtrlC ==
  /\ ~ stop
  /\ stop' = TRUE
  /\ UNCHANGED <<venueVars, book, handler, pc>>

Venue == VenueNext /\ UNCHANGED <<book, handler, pc, stop>>

Next ==
  \/ Venue
  \/ Connect
  \/ ConnectFails
  \/ Fetch
  \/ Load
  \/ LoadFails
  \/ IngestDiff
  \/ IngestControl
  \/ Finish
  \/ CtrlC

Spec == Init /\ [][Next]_vars

-----------------------------------------------------------------------------
\* The id of the REST snapshot, and the ids that neither it nor the stream covers.
SnapId == rest.book.id
Gap == SnapId + 1 .. from - 1

\* The venue's stream has been read up to this id.
Delivered == IF socket = <<>> THEN sent ELSE socket[1].first - 1

\* The levels that the snapshot tells: those within its limit, and none of an overlay.
Told == IF overlay THEN {} ELSE Reach(hist[SnapId])

(***************************************************************************)
(* order_book.rs has no gap check: absorb_first applies whatever is not    *)
(* stale; and the snapshot stops at the request's limit and is, for an     *)
(* overlay, the plain symbol's.  So a book can be wrong, but only at a     *)
(* level whose last change fell between the snapshot and the first id of   *)
(* the stream, or at one that the snapshot did not tell and that has not   *)
(* changed since, which holds what the snapshot left there (nothing, if it *)
(* was beyond the limit).  Every other level is the venue's, at the id the *)
(* book says it has.                                                       *)
(***************************************************************************)
OnlyUnseenLevelsStale ==
  handler = "live" =>
    \A p \in Price :
      \/ sub = "active" /\ chg[book.id][p] \in Gap
      \/ p \notin Told /\ chg[book.id][p] <= SnapId /\ book.lv[p] = rest.book.lv[p]
      \/ book.lv[p] = hist[book.id][p]

(***************************************************************************)
(* Because stream() subscribes before build() asks for the snapshot, a     *)
(* venue that handles the two in order leaves no gap: every level that the *)
(* snapshot told, and every one that has changed since, is the venue's.    *)
(***************************************************************************)
PromptVenueBook ==
  prompt /\ handler = "live" =>
    \A p \in Price :
      p \in Told \/ chg[book.id][p] > SnapId => book.lv[p] = hist[book.id][p]

(***************************************************************************)
(* Nothing that was read is lost by the staleness test: the published id   *)
(* is the last id read from the stream, unless the snapshot was newer.     *)
(***************************************************************************)
CaughtUp ==
  handler = "live" =>
    book.id = IF sub = "active" /\ Delivered >= from /\ Delivered >= SnapId
              THEN Delivered
              ELSE SnapId

(***************************************************************************)
(* The staleness test keeps a published book from going back to an older   *)
(* id when buffered diffs older than the snapshot are applied.             *)
(***************************************************************************)
IdNeverGoesBack == [][book'.id >= book.id]_book

=============================================================================
