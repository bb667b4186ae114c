------------------------------ MODULE OrderBook ------------------------------
(***************************************************************************)
(* One symbol's book as the code keeps it: two copies behind a left-right  *)
(* pair, an operation log, and readers on other threads (the gRPC and      *)
(* SCALE server, the TUI) that enter the copy the pointer names, read it   *)
(* and leave.  The stream task is src/crates/trolly-stream multiplexor.rs  *)
(* stream() over src/monitor/order_book.rs.  left-right is an external     *)
(* crate, modelled from the contract that OrderBook is written against:    *)
(* append, publish, Absorb::absorb_first / absorb_second / sync_with,      *)
(* ReadHandle::enter, and the drop of the WriteHandle.                     *)
(***************************************************************************)
EXTENDS DepthVenue

CONSTANT Readers  \* reader threads

VARIABLES
  copies,     \* the two copies of the book
  readSide,   \* the copy that the readers' pointer names
  oplog,      \* operations not yet applied to both copies
  swapIndex,  \* how many of them the read copy already has
  first,      \* nothing has been published yet
  second,     \* exactly one publish has happened
  waitFor,    \* readers that were inside at the last swap and have not left since
  pinned,     \* pinned[r]: the copy reader r is inside, or "none"
  saw,        \* saw[r]: the book reader r found when it last entered
  shared,     \* the read factory has been handed to the server
  handler,    \* the symbol's entry in MonitorMultiplexor::writers
  pc,         \* where the stream task is
  stop        \* the shutdown flag set by the Ctrl+C handler

logVars == <<copies, readSide, oplog, swapIndex, first, second>>
readVars == <<waitFor, pinned, saw>>
taskVars == <<shared, handler, pc, stop>>
vars == <<venueVars, logVars, readVars, taskVars>>

Side == {"left", "right"}
Other(s) == IF s = "left" THEN "right" ELSE "left"
writeSide == Other(readSide)

TypeOK ==
  /\ VenueTypeOK
  /\ copies \in [Side -> Book]
  /\ readSide \in Side
  /\ oplog \in Seq(DepthUpdate) /\ Len(oplog) <= 2
  /\ swapIndex \in 0 .. 1
  /\ first \in BOOLEAN
  /\ second \in BOOLEAN
  /\ waitFor \in SUBSET Readers
  /\ pinned \in [Readers -> Side \cup {"none"}]
  /\ saw \in [Readers -> Book]
  /\ shared \in BOOLEAN
  /\ handler \in {"none", "live", "missing", "dropped"}
  /\ pc \in {"connect", "fetch", "build", "fill", "reveal", "check", "await",
             "sync", "drain", "absorb", "swap", "done"}
  /\ stop \in BOOLEAN

Init ==
  /\ VenueInit
  /\ copies = [s \in Side |-> Default]
  /\ readSide = "left"
  /\ oplog = <<>>
  /\ swapIndex = 0
  /\ first = TRUE
  /\ second = TRUE
  /\ waitFor = {}
  /\ pinned = [r \in Readers |-> "none"]
  /\ saw = [r \in Readers |-> Default]
  /\ shared = FALSE
  /\ handler = "none"
  /\ pc = "connect"
  /\ stop = FALSE

Goto(l) == pc' = l

-----------------------------------------------------------------------------
\* stream(): subscribe, then build.

Connect ==
  /\ pc = "connect"
  /\ SendSubscription
  /\ Goto("fetch")
  /\ UNCHANGED <<logVars, readVars, shared, handler, stop>>

ConnectFails ==
  /\ pc = "connect"
  /\ Goto("done")
  /\ UNCHANGED <<venueVars, logVars, readVars, shared, handler, stop>>

Fetch ==
  /\ pc = "fetch"
  /\ SendRequest
  /\ Goto("build")
  /\ UNCHANGED <<logVars, readVars, shared, handler, stop>>

BuildFails ==
  /\ pc = "build"
  /\ rest.st = "failed"
  /\ handler' = "missing"
  /\ Goto("check")
  /\ UNCHANGED <<venueVars, logVars, readVars, shared, stop>>

\* left_right::new() and sender.send(..): from here a reader can enter, and finds
\* the default book.
Share ==
  /\ pc = "build"
  /\ rest.st = "replied"
  /\ shared' = TRUE
  /\ Goto("fill")
  /\ UNCHANGED <<venueVars, logVars, readVars, handler, stop>>

\* Mutant of Fill: the snapshot is loaded into both copies at once.
FillBoth ==
  /\ pc = "fill"
  /\ copies' = [s \in Side |-> Extend(copies[s], rest.book)]
  /\ Goto("reveal")
  /\ UNCHANGED <<venueVars, readSide, oplog, swapIndex, first, second, readVars,
                 shared, handler, stop>>

\* append(Initialize(lob)) before the first publish goes straight to the write copy.
\* absorb_first asserts that both copies are the default book: CopiesDoNotDrift.
Fill ==
  /\ pc = "fill"
  /\ copies' = [copies EXCEPT ![writeSide] = Extend(@, rest.book)]
  /\ Goto("reveal")
  /\ UNCHANGED <<venueVars, readSide, oplog, swapIndex, first, second, readVars,
                 shared, handler, stop>>

\* WriteHandle::publish's last step: swap the pointer, note who is still inside.
Swap ==
  /\ readSide' = writeSide
  /\ waitFor' = {r \in Readers : pinned[r] # "none"}
  /\ UNCHANGED <<pinned, saw>>

\* The first publish has nothing to wait for and nothing to apply: it only swaps.
Reveal ==
  /\ pc = "reveal"
  /\ first' = FALSE
  /\ Swap
  /\ handler' = "live"
  /\ Goto("check")
  /\ UNCHANGED <<venueVars, copies, oplog, swapIndex, second, shared, stop>>

-----------------------------------------------------------------------------
\* stream(): the loop, and handle_update's append and publish.

\* Mutant of CheckFlag: the flag is tested only until the first diff has arrived.
CheckFlagEarly ==
  /\ pc = "check"
  /\ IF stop /\ second THEN Goto("done") /\ handler' = "dropped"
                        ELSE Goto("await") /\ UNCHANGED handler
  /\ UNCHANGED <<venueVars, logVars, readVars, shared, stop>>

\* The flag is read between frames only.
CheckFlag ==
  /\ pc = "check"
  /\ IF stop THEN Goto("done") /\ handler' = "dropped"
             ELSE Goto("await") /\ UNCHANGED handler
  /\ UNCHANGED <<venueVars, logVars, readVars, shared, stop>>

EndOfStream ==
  /\ pc = "await"
  /\ StreamEnded
  /\ handler' = "dropped"
  /\ Goto("done")
  /\ UNCHANGED <<venueVars, logVars, readVars, shared, stop>>

IngestControl ==
  /\ pc = "await"
  /\ ReadControl
  /\ Goto("check")
  /\ UNCHANGED <<logVars, readVars, shared, handler, stop>>

\* Mutant of IngestDiff: handle_update appends and leaves publishing to a later call.
IngestNoPublish ==
  /\ pc = "await"
  /\ handler = "live"
  /\ ReadDiff
  /\ oplog' = Append(oplog, Head(socket))
  /\ Goto("check")
  /\ UNCHANGED <<copies, readSide, swapIndex, first, second, readVars, shared,
                 handler, stop>>

\* ingest_message finds the handler and handle_update appends to the log.
IngestDiff ==
  /\ pc = "await"
  /\ handler = "live"
  /\ ReadDiff
  /\ oplog' = Append(oplog, Head(socket))
  /\ Goto("sync")
  /\ UNCHANGED <<copies, readSide, swapIndex, first, second, readVars, shared,
                 handler, stop>>

\* ingest_message: "missing handler id".
DropDiff ==
  /\ pc = "await"
  /\ handler # "live"
  /\ ReadDiff
  /\ Goto("check")
  /\ UNCHANGED <<logVars, readVars, shared, handler, stop>>

\* Mutant of SyncWith: the second copy is left empty.
SyncNothing(w, r) == w

\* Absorb::sync_with: the second publish copies the read copy into the empty one.
SyncWith(w, r) == Extend(w, r)

\* publish: wait until every reader that was inside at the last swap has left.
Sync ==
  /\ pc = "sync"
  /\ waitFor = {}
  /\ copies' = IF second
               THEN [copies EXCEPT ![writeSide] = SyncWith(@, copies[readSide])]
               ELSE copies
  /\ second' = FALSE
  /\ Goto("drain")
  /\ UNCHANGED <<venueVars, readSide, oplog, swapIndex, first, readVars, shared,
                 handler, stop>>

\* publish: absorb_second of the operations that only the read copy has.
Drain ==
  /\ pc = "drain"
  /\ IF swapIndex = 1
     THEN /\ copies' = [copies EXCEPT ![writeSide] = Absorb(@, oplog[1])]
          /\ oplog' = Tail(oplog)
     ELSE UNCHANGED <<copies, oplog>>
  /\ swapIndex' = 0
  /\ Goto("absorb")
  /\ UNCHANGED <<venueVars, readSide, first, second, readVars, shared, handler, stop>>

\* publish: absorb_first of the new operation.
AbsorbNew ==
  /\ pc = "absorb"
  /\ copies' = [copies EXCEPT ![writeSide] = Absorb(@, oplog[1])]
  /\ Goto("swap")
  /\ UNCHANGED <<venueVars, readSide, oplog, swapIndex, first, second, readVars,
                 shared, handler, stop>>

\* publish: the new operation stays in the log for the copy readers now leave.
Publish ==
  /\ pc = "swap"
  /\ swapIndex' = 1
  /\ Swap
  /\ Goto("check")
  /\ UNCHANGED <<venueVars, copies, oplog, first, second, shared, handler, stop>>

-----------------------------------------------------------------------------
\* The other threads.

\* Hook::get and the TUI: ReadHandleFactory::handle().enter().  Once the writer is
\* gone it returns None.
Enter(r) ==
  /\ shared
  /\ handler # "dropped"
  /\ pinned[r] = "none"
  /\ pinned' = [pinned EXCEPT ![r] = readSide]
  /\ saw' = [saw EXCEPT ![r] = copies[readSide]]
  /\ UNCHANGED <<venueVars, logVars, waitFor, taskVars>>

\* The guard is dropped as soon as the book is cloned.
Leave(r) ==
  /\ pinned[r] # "none"
  /\ pinned' = [pinned EXCEPT ![r] = "none"]
  /\ waitFor' = waitFor \ {r}
  /\ UNCHANGED <<venueVars, logVars, saw, taskVars>>

CtrlC ==
  /\ ~ stop
  /\ stop' = TRUE
  /\ UNCHANGED <<venueVars, logVars, readVars, shared, handler, pc>>

Venue == VenueNext /\ UNCHANGED <<logVars, readVars, taskVars>>

Task ==
  \/ Connect \/ ConnectFails \/ Fetch \/ BuildFails \/ Share \/ Fill \/ Reveal
  \/ CheckFlag \/ EndOfStream \/ IngestControl \/ IngestDiff \/ DropDiff
  \/ Sync \/ Drain \/ AbsorbNew \/ Publish

Next ==
  \/ Venue
  \/ Task
  \/ \E r \in Readers : Enter(r) \/ Leave(r)
  \/ CtrlC

Spec == Init /\ [][Next]_vars

(***************************************************************************)
(* The runtime polls the stream task whenever it can move, a reader's      *)
(* guard lives for one clone of the book, and the venue answers requests   *)
(* and pings until it closes the websocket.  Frames are read in the order  *)
(* they arrive, so a diff is not overtaken by other frames for ever: that  *)
(* is the strong fairness of reading one.                                  *)
(***************************************************************************)
Fairness ==
  /\ WF_vars(Task)
  /\ SF_vars(IngestDiff \/ DropDiff)
  /\ \A r \in Readers : WF_vars(Leave(r))
  /\ WF_vars(Venue /\ (VenueReply \/ VenueRefuse))
  /\ WF_vars(Venue /\ (VenuePing \/ VenueClose))

FairSpec == Spec /\ Fairness

-----------------------------------------------------------------------------
\* The abstract feed that this implements.  A diff that is in the log but not
\* published is still to be ingested.

feedSocket ==
  IF Len(oplog) > swapIndex THEN <<oplog[swapIndex + 1]>> \o socket ELSE socket

feedPc ==
  CASE pc \in {"fill", "reveal"} -> "build"
    [] pc \in {"check", "await", "sync", "drain", "absorb", "swap"} -> "loop"
    [] OTHER -> pc

Feed == INSTANCE DepthFeed WITH
          book <- copies[readSide], socket <- feedSocket, pc <- feedPc

(***************************************************************************)
(* Two copies, a log replayed on each and a pointer swap amount to one     *)
(* book that each diff changes in one step, in the order of the websocket  *)
(* and exactly once.                                                       *)
(***************************************************************************)
ImplementsFeed == Feed!Spec

(***************************************************************************)
(* A guard never sees its book change: the stream task writes a copy only  *)
(* after every reader that could be inside has left.                       *)
(***************************************************************************)
NoTornRead == \A r \in Readers : pinned[r] # "none" => copies[pinned[r]] = saw[r]

(***************************************************************************)
(* Between two publishes, the copy that is behind differs from the copy    *)
(* readers see by exactly the operation left in the log (the unit test     *)
(* left_right_does_not_drift_appart, for every history).  Initialize finds *)
(* both copies empty, as absorb_first asserts.                             *)
(***************************************************************************)
CopiesDoNotDrift ==
  /\ pc = "fill" => \A s \in Side : copies[s] = Default
  /\ pc \in {"check", "await"} /\ handler = "live" =>
       \/ second /\ copies[writeSide] = Default /\ oplog = <<>>
       \/ ~ second /\ copies[readSide] = Absorb(copies[writeSide], oplog[1])

(***************************************************************************)
(* A reader never travels back in time: each guard shows a book at least   *)
(* as new as the guard before it.                                          *)
(***************************************************************************)
ReadsMoveForward == [][\A r \in Readers : saw'[r].id >= saw[r].id]_saw

(***************************************************************************)
(* Every diff the websocket delivers reaches the readers, unless the       *)
(* stream stops first or the symbol has no handler.                        *)
(***************************************************************************)
DiffsReachReaders ==
  \A i \in Ids :
    (\E k \in 1 .. Len(socket) : socket[k].last = i)
      ~> (copies[readSide].id >= i \/ handler \in {"missing", "dropped"} \/ pc = "done")

(***************************************************************************)
(* Ctrl+C ends the stream.  The flag is only read between frames, so this  *)
(* needs the venue to send a frame, if only a ping, or to close.           *)
(***************************************************************************)
StopCompletes == stop ~> pc = "done"

=============================================================================
