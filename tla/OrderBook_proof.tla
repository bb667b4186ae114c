--------------------------- MODULE OrderBook_proof ---------------------------
(***************************************************************************)
(* Proofs about OrderBook for every set of price levels, quantities and    *)
(* readers: no reader's copy is written while it is inside, the two copies *)
(* never drift apart, and the pair implements the one-variable feed.       *)
(***************************************************************************)
EXTENDS OrderBook, SequenceTheorems, TLAPS

-----------------------------------------------------------------------------
\* Books, diffs and the venue: what DepthFeed_proof proves of them too.

LEMMA DefaultIsBook == Default \in Book
  BY QtyAssumption DEF Default, Book, Levels

LEMMA AbsorbType ==
  ASSUME NEW b \in Book, NEW u \in DepthUpdate
  PROVE  Absorb(b, u) \in Book
  BY DEF Absorb, SetLevels, Book, DepthUpdate, Levels

\* The staleness test: absorbing never lowers a book's id.
LEMMA AbsorbRaisesId ==
  ASSUME NEW b \in Book, NEW u \in DepthUpdate
  PROVE  Absorb(b, u).id >= b.id
  BY DEF Absorb, SkipUpdate, Book, DepthUpdate

LEMMA ExtendType ==
  ASSUME NEW b \in Book, NEW c \in Book
  PROVE  Extend(b, c) \in Book
  BY DEF Extend, Book, Levels

\* Filling an empty book copies the other one.
LEMMA ExtendDefault ==
  ASSUME NEW c \in Book
  PROVE  Extend(Default, c) = c
  <1>1. c = [id |-> c.id, lv |-> [p \in Price |-> c.lv[p]]]
    BY DEF Book, Levels
  <1>2. \A p \in Price : (IF c.lv[p] # 0 THEN c.lv[p] ELSE Default.lv[p]) = c.lv[p]
    BY DEF Default
  <1>3. QED
    BY <1>1, <1>2 DEF Extend

LEMMA DiffType ==
  ASSUME VenueTypeOK, NEW i \in Nat, NEW j \in Ids
  PROVE  Diff(i, j) \in DepthUpdate
  BY VenueAssumption DEF Diff, DepthUpdate, VenueTypeOK, Ids

LEMMA CutType ==
  ASSUME NEW lv \in Levels
  PROVE  Cut(lv) \in Levels
  BY QtyAssumption DEF Cut, Levels

-----------------------------------------------------------------------------
\* The types of the venue's variables.

LEMMA VenueTypeInit ==
  ASSUME VenueInit
  PROVE  VenueTypeOK
  <1>1. PICK lv \in Levels : hist = [i \in Ids |-> lv]
    BY DEF VenueInit
  <1>2. hist \in [Ids -> Levels]
    BY <1>1
  <1>3. chg \in [Ids -> [Price -> Ids]]
    BY VenueAssumption DEF VenueInit, Ids
  <1>4. rest \in Answer
    BY DefaultIsBook DEF VenueInit, Answer
  <1>5. socket \in Seq(DepthUpdate)
    BY DEF VenueInit
  <1>6. prompt \in BOOLEAN /\ overlay \in BOOLEAN /\ now \in Ids \ {0} /\ sent \in Ids
    BY VenueAssumption DEF VenueInit, Ids
  <1>7. QED
    BY <1>2, <1>3, <1>4, <1>5, <1>6 DEF VenueInit, VenueTypeOK

LEMMA VenueStepType ==
  ASSUME VenueTypeOK, VenueNext
  PROVE  VenueTypeOK'
  <1>. USE VenueAssumption DEF VenueTypeOK, Ids
  <1>1. CASE VenueChange
    <2>1. PICK p \in Price : \E q \in Qty \ {hist[now][p]} :
            /\ hist' = [hist EXCEPT ![now + 1] = [hist[now] EXCEPT ![p] = q]]
            /\ chg' = [chg EXCEPT ![now + 1] = [chg[now] EXCEPT ![p] = now + 1]]
      BY <1>1 DEF VenueChange
    <2>2. PICK q \in Qty :
            /\ hist' = [hist EXCEPT ![now + 1] = [hist[now] EXCEPT ![p] = q]]
            /\ chg' = [chg EXCEPT ![now + 1] = [chg[now] EXCEPT ![p] = now + 1]]
      BY <2>1
    <2>3. hist' \in [0 .. MaxId -> Levels]
      BY <2>2, hist[now] \in Levels, [hist[now] EXCEPT ![p] = q] \in Levels DEF Levels
    <2>4. chg' \in [0 .. MaxId -> [Price -> 0 .. MaxId]]
      BY <1>1, <2>2, [chg[now] EXCEPT ![p] = now + 1] \in [Price -> 0 .. MaxId]
      DEF VenueChange
    <2>5. now' \in Ids \ {0}
      BY <1>1 DEF VenueChange
    <2>6. UNCHANGED <<sub, from, sent, socket, ctl, open, rest, prompt, overlay>>
      BY <1>1 DEF VenueChange
    <2>7. QED
      BY <2>3, <2>4, <2>5, <2>6
  <1>2. CASE VenueActivate
    BY <1>2 DEF VenueActivate
  <1>3. CASE VenueEmit
    <2>1. Diff(sent + 1, now) \in DepthUpdate
      BY DiffType
    <2>2. QED
      BY <1>3, <2>1, SMTT(30) DEF VenueEmit
  <1>4. CASE VenuePing
    BY <1>4 DEF VenuePing
  <1>5. CASE VenueClose
    BY <1>5 DEF VenueClose
  <1>6. CASE VenueReply
    <2>1. PICK lv \in Asked :
            rest' = [st |-> "replied", book |-> [id |-> now, lv |-> Cut(lv)]]
      BY <1>6 DEF VenueReply
    <2>2. rest' \in Answer
      <3>1. lv \in Levels
        BY <2>1 DEF Asked
      <3>2. [id |-> now, lv |-> Cut(lv)] \in Book
        BY <3>1, CutType DEF Book
      <3>3. QED
        BY <2>1, <3>2 DEF Answer
    <2>3. QED
      BY <1>6, <2>2 DEF VenueReply
  <1>7. CASE VenueRefuse
    BY <1>7 DEF VenueRefuse, Answer
  <1>8. QED
    BY <1>1, <1>2, <1>3, <1>4, <1>5, <1>6, <1>7 DEF VenueNext

-----------------------------------------------------------------------------
\* Sides.

LEMMA Sides ==
  ASSUME readSide \in Side
  PROVE  /\ writeSide \in Side
         /\ writeSide # readSide
         /\ Other(writeSide) = readSide
         /\ \A s \in Side : s = readSide \/ s = writeSide
  BY DEF Side, Other, writeSide

-----------------------------------------------------------------------------
\* Sequences.

LEMMA Longer ==
  ASSUME NEW S, NEW s \in Seq(S), NEW n \in Nat, Len(s) = n + 1
  PROVE  /\ s # <<>>
         /\ s[1] \in S
         /\ Tail(s) \in Seq(S)
         /\ Len(Tail(s)) = n
         /\ \A i \in 1 .. n : Tail(s)[i] = s[i + 1]
  OBVIOUS

-----------------------------------------------------------------------------
\* Types.

LEMMA TypeInit == Init => TypeOK
  <1>1. ASSUME Init PROVE TypeOK
    <2>4. VenueTypeOK
      BY <1>1, VenueTypeInit DEF Init
    <2>5. copies \in [Side -> Book] /\ saw \in [Readers -> Book]
      BY <1>1, DefaultIsBook DEF Init
    <2>6. pinned \in [Readers -> Side \cup {"none"}]
      BY <1>1 DEF Init
    <2>7. oplog \in Seq(DepthUpdate) /\ Len(oplog) <= 2
      BY <1>1 DEF Init
    <2>8. readSide \in Side
      BY <1>1 DEF Init, Side
    <2>9. swapIndex \in 0 .. 1
      BY <1>1 DEF Init
    <2>10. waitFor \in SUBSET Readers
      BY <1>1 DEF Init
    <2>11. QED
      BY <1>1, <2>4, <2>5, <2>6, <2>7, <2>8, <2>9, <2>10 DEF Init, TypeOK
  <1>2. QED
    BY <1>1

\* The stream task's steps keep the venue's variables well typed.
LEMMA CallsType ==
  ASSUME VenueTypeOK,
         \/ UNCHANGED venueVars \/ SendSubscription \/ SendRequest \/ ReadDiff \/ ReadControl
  PROVE  VenueTypeOK'
  <1>1. CASE UNCHANGED venueVars
    BY <1>1 DEF venueVars, VenueTypeOK, Ids
  <1>2. CASE SendSubscription
    BY <1>2 DEF SendSubscription, VenueTypeOK, Ids
  <1>3. CASE SendRequest
    <2>1. rest' \in Answer
      BY <1>3 DEF SendRequest, VenueTypeOK, Answer
    <2>2. QED
      BY <1>3, <2>1 DEF SendRequest, VenueTypeOK, Ids
  <1>4. CASE ReadDiff
    BY <1>4 DEF ReadDiff, VenueTypeOK, Ids
  <1>5. CASE ReadControl
    BY <1>5 DEF ReadControl, VenueTypeOK, Ids
  <1>6. QED
    BY <1>1, <1>2, <1>3, <1>4, <1>5

-----------------------------------------------------------------------------
\* The inductive invariant, in three parts.

Publishing == {"sync", "drain", "absorb", "swap"}
Building == {"connect", "fetch", "build", "fill", "reveal"}

\* The log holds what the copy that is behind lacks, and during a publish the new
\* operation as well.
Lengths ==
  /\ Len(oplog) = IF pc \in Publishing THEN swapIndex + 1 ELSE swapIndex
  /\ pc \in {"absorb", "swap"} => swapIndex = 0

\* The write copy has never been filled; lacks the first operation of the log; lacks nothing.
Fresh == second /\ swapIndex = 0 /\ copies[writeSide] = Default
Behind == ~ second /\ swapIndex = 1 /\ copies[readSide] = Absorb(copies[writeSide], oplog[1])
Even == ~ second /\ swapIndex = 0 /\ copies[writeSide] = copies[readSide]

\* What the two copies are to each other at each place of the stream task.
Copies ==
  /\ pc \in Building =>
       second /\ swapIndex = 0 /\ handler = "none" /\ copies[readSide] = Default
  /\ pc \in Building \ {"reveal"} => copies[writeSide] = Default
  /\ pc \in {"fill", "reveal"} => rest.st = "replied"
  /\ pc = "reveal" => copies[writeSide] = Extend(Default, rest.book)
  /\ pc \in {"check", "await"} /\ handler = "live" => Fresh \/ Behind
  /\ pc = "sync" => Fresh \/ Behind
  /\ pc = "drain" => Even \/ Behind
  /\ pc = "absorb" => Even
  /\ pc = "swap" => ~ second /\ copies[writeSide] = Absorb(copies[readSide], oplog[1])
  /\ pc \in Publishing => handler = "live"

\* Whoever is inside the write copy has been noted at the last swap, and nobody is
\* there when the copy is written.
Guards ==
  /\ \A r \in Readers : pinned[r] = writeSide => r \in waitFor
  /\ waitFor # {} => pc \in {"check", "await", "sync", "done"}

IInv == TypeOK /\ Lengths /\ Copies /\ Guards /\ NoTornRead

-----------------------------------------------------------------------------
LEMMA InvInit == Init => IInv
  <1>. SUFFICES ASSUME Init PROVE IInv
    OBVIOUS
  <1>1. TypeOK
    BY TypeInit
  <1>2. Lengths
    BY DEF Init, Lengths, Publishing
  <1>3. Copies
    <2>1. \A s \in Side : copies[s] = Default
      BY DEF Init
    <2>2. readSide \in Side /\ writeSide \in Side
      BY <1>1, Sides DEF TypeOK
    <2>3. QED
      BY <2>1, <2>2 DEF Init, Copies, Building, Publishing
  <1>4. Guards /\ NoTornRead
    BY <1>1, Sides DEF Init, Guards, NoTornRead, Side, Other, writeSide
  <1>5. QED
    BY <1>1, <1>2, <1>3, <1>4 DEF IInv

LEMMA TypeStep ==
  ASSUME TypeOK, Lengths, [Next]_vars
  PROVE  TypeOK'
  <1>. USE DEF TypeOK
  <1>s. writeSide \in Side /\ writeSide # readSide
    BY Sides
  <1>1. CASE Venue
    BY <1>1, VenueStepType DEF Venue, logVars, readVars, taskVars
  <1>2. CASE Connect
    BY <1>2, CallsType DEF Connect, Goto, logVars, readVars
  <1>3. CASE ConnectFails
    BY <1>3, CallsType DEF ConnectFails, Goto, logVars, readVars
  <1>4. CASE Fetch
    BY <1>4, CallsType DEF Fetch, Goto, logVars, readVars
  <1>5. CASE BuildFails
    BY <1>5, CallsType DEF BuildFails, Goto, logVars, readVars
  <1>6. CASE Share
    BY <1>6, CallsType DEF Share, Goto, logVars, readVars
  <1>7. CASE Fill
    <2>1. Extend(copies[writeSide], rest.book) \in Book
      BY <1>s, ExtendType DEF VenueTypeOK, Answer
    <2>2. copies' \in [Side -> Book]
      BY <1>7, <1>s, <2>1 DEF Fill
    <2>3. QED
      BY <1>7, <2>2, CallsType DEF Fill, Goto, readVars
  <1>8. CASE Reveal
    BY <1>8, <1>s, CallsType DEF Reveal, Swap, Goto
  <1>9. CASE CheckFlag
    BY <1>9, CallsType DEF CheckFlag, Goto, logVars, readVars
  <1>10. CASE EndOfStream
    BY <1>10, CallsType DEF EndOfStream, Goto, logVars, readVars
  <1>11. CASE IngestControl
    BY <1>11, CallsType DEF IngestControl, Goto, logVars, readVars
  <1>12. CASE IngestDiff
    <2>1. Head(socket) \in DepthUpdate
      BY <1>12 DEF IngestDiff, ReadDiff, VenueTypeOK
    <2>2. Len(oplog) <= 1
      BY <1>12 DEF IngestDiff, Lengths, Publishing
    <2>3. oplog' \in Seq(DepthUpdate) /\ Len(oplog') <= 2
      BY <1>12, <2>1, <2>2 DEF IngestDiff
    <2>4. QED
      BY <1>12, <2>3, CallsType DEF IngestDiff, Goto, readVars
  <1>13. CASE DropDiff
    BY <1>13, CallsType DEF DropDiff, Goto, logVars, readVars
  <1>14. CASE Sync
    <2>1. SyncWith(copies[writeSide], copies[readSide]) \in Book
      BY <1>s, ExtendType DEF SyncWith
    <2>2. copies' \in [Side -> Book]
      BY <1>14, <1>s, <2>1 DEF Sync
    <2>3. QED
      BY <1>14, <2>2, CallsType DEF Sync, Goto, readVars
  <1>15. CASE Drain
    <2>1. oplog # <<>> /\ oplog[1] \in DepthUpdate
      BY <1>15 DEF Drain, Lengths, Publishing
    <2>2. Absorb(copies[writeSide], oplog[1]) \in Book
      BY <1>s, <2>1, AbsorbType
    <2>3. copies' \in [Side -> Book]
      BY <1>15, <1>s, <2>2 DEF Drain
    <2>4. oplog' \in Seq(DepthUpdate) /\ Len(oplog') <= 2
      BY <1>15, <2>1 DEF Drain
    <2>5. QED
      BY <1>15, <2>3, <2>4, CallsType DEF Drain, Goto, readVars
  <1>16. CASE AbsorbNew
    <2>1. oplog[1] \in DepthUpdate
      <3>1. Len(oplog) = 0 + 1
        BY <1>16 DEF AbsorbNew, Lengths, Publishing
      <3>2. QED
        BY <3>1, Longer
    <2>2. Absorb(copies[writeSide], oplog[1]) \in Book
      BY <1>s, <2>1, AbsorbType
    <2>3. copies' \in [Side -> Book]
      BY <1>16, <1>s, <2>2 DEF AbsorbNew
    <2>4. QED
      BY <1>16, <2>3, CallsType DEF AbsorbNew, Goto, readVars
  <1>17. CASE Publish
    BY <1>17, <1>s, CallsType DEF Publish, Swap, Goto
  <1>18. CASE \E r \in Readers : Enter(r)
    <2>1. PICK r \in Readers : Enter(r)
      BY <1>18
    <2>2. pinned' \in [Readers -> Side \cup {"none"}] /\ saw' \in [Readers -> Book]
      BY <2>1 DEF Enter
    <2>3. QED
      BY <2>1, <2>2, CallsType DEF Enter, logVars, taskVars
  <1>19. CASE \E r \in Readers : Leave(r)
    <2>1. PICK r \in Readers : Leave(r)
      BY <1>19
    <2>2. pinned' \in [Readers -> Side \cup {"none"}] /\ waitFor' \in SUBSET Readers
      BY <2>1 DEF Leave
    <2>3. QED
      BY <2>1, <2>2, CallsType DEF Leave, logVars, taskVars
  <1>20. CASE CtrlC
    BY <1>20, CallsType DEF CtrlC, logVars, readVars
  <1>21. CASE UNCHANGED vars
    BY <1>21, CallsType DEF vars, logVars, readVars, taskVars
  <1>22. QED
    BY <1>1, <1>2, <1>3, <1>4, <1>5, <1>6, <1>7, <1>8, <1>9, <1>10, <1>11, <1>12, <1>13,
       <1>14, <1>15, <1>16, <1>17, <1>18, <1>19, <1>20, <1>21
    DEF Next, Task

LEMMA LengthsStep ==
  ASSUME TypeOK, Lengths, [Next]_vars
  PROVE  Lengths'
  <1>. USE DEF TypeOK, Lengths, Publishing, Goto
  <1>1. CASE Venue \/ UNCHANGED vars
    BY <1>1 DEF Venue, vars, logVars, taskVars
  <1>2. CASE Connect \/ ConnectFails \/ Fetch \/ BuildFails \/ Share \/ Fill \/ Reveal
    BY <1>2 DEF Connect, ConnectFails, Fetch, BuildFails, Share, Fill, Reveal, logVars
  <1>3. CASE CheckFlag \/ EndOfStream \/ IngestControl \/ DropDiff \/ CtrlC
    BY <1>3 DEF CheckFlag, EndOfStream, IngestControl, DropDiff, CtrlC, logVars
  <1>4. CASE IngestDiff
    <2>1. Head(socket) \in DepthUpdate
      BY <1>4 DEF IngestDiff, ReadDiff, VenueTypeOK
    <2>2. Len(oplog') = Len(oplog) + 1
      BY <1>4, <2>1 DEF IngestDiff
    <2>3. QED
      BY <1>4, <2>2 DEF IngestDiff
  <1>5. CASE Sync \/ AbsorbNew \/ Publish
    BY <1>5 DEF Sync, AbsorbNew, Publish
  <1>6. CASE Drain
    <2>1. Len(oplog) = swapIndex + 1 /\ swapIndex' = 0 /\ pc' = "absorb" /\ oplog # <<>>
      BY <1>6 DEF Drain
    <2>2. CASE swapIndex = 1
      <3>1. oplog' = Tail(oplog)
        BY <1>6, <2>2 DEF Drain
      <3>2. Len(Tail(oplog)) = Len(oplog) - 1
        BY <2>1
      <3>3. Len(oplog') = 1
        BY <2>1, <2>2, <3>1, <3>2
      <3>4. QED
        BY <2>1, <3>3
    <2>3. CASE swapIndex = 0
      <3>1. oplog' = oplog
        BY <1>6, <2>3 DEF Drain
      <3>2. QED
        BY <2>1, <2>3, <3>1
    <2>4. QED
      BY <2>2, <2>3
  <1>7. CASE \E r \in Readers : Enter(r) \/ Leave(r)
    BY <1>7 DEF Enter, Leave, logVars, taskVars
  <1>8. QED
    BY <1>1, <1>2, <1>3, <1>4, <1>5, <1>6, <1>7 DEF Next, Task

LEMMA GuardsStep ==
  ASSUME TypeOK, Guards, [Next]_vars
  PROVE  Guards'
  <1>. USE DEF TypeOK, Guards, Goto, writeSide
  <1>1. CASE Venue \/ UNCHANGED vars
    BY <1>1 DEF Venue, vars, logVars, readVars, taskVars
  <1>2. CASE Connect \/ ConnectFails \/ Fetch \/ BuildFails \/ Share \/ Fill
    BY <1>2 DEF Connect, ConnectFails, Fetch, BuildFails, Share, Fill, logVars, readVars
  <1>3. CASE CheckFlag \/ EndOfStream \/ IngestControl \/ DropDiff \/ CtrlC
    BY <1>3 DEF CheckFlag, EndOfStream, IngestControl, DropDiff, CtrlC, logVars, readVars
  <1>4. CASE IngestDiff \/ Sync \/ Drain \/ AbsorbNew
    BY <1>4 DEF IngestDiff, Sync, Drain, AbsorbNew, readVars
  <1>5. CASE Reveal \/ Publish
    <2>1. \A r \in Readers : pinned[r] # "none" => r \in waitFor'
      BY <1>5 DEF Reveal, Publish, Swap
    <2>2. pinned' = pinned /\ readSide' \in Side /\ pc' = "check"
      BY <1>5, Sides DEF Reveal, Publish, Swap
    <2>3. Other(readSide') # "none"
      BY <2>2 DEF Other
    <2>4. QED
      BY <2>1, <2>2, <2>3
  <1>6. CASE \E r \in Readers : Enter(r)
    <2>1. PICK r \in Readers : Enter(r)
      BY <1>6
    <2>2. Other(readSide) # readSide
      BY DEF Side, Other
    <2>3. QED
      BY <2>1, <2>2 DEF Enter, logVars, taskVars
  <1>7. CASE \E r \in Readers : Leave(r)
    <2>1. PICK r \in Readers : Leave(r)
      BY <1>7
    <2>2. Other(readSide) # "none"
      BY DEF Other
    <2>3. QED
      BY <2>1, <2>2 DEF Leave, logVars, taskVars
  <1>8. QED
    BY <1>1, <1>2, <1>3, <1>4, <1>5, <1>6, <1>7 DEF Next, Task

\* A copy is written only where no reader is.
LEMMA NoTornReadStep ==
  ASSUME TypeOK, Guards, NoTornRead, [Next]_vars
  PROVE  NoTornRead'
  <1>. USE DEF TypeOK, NoTornRead
  <1>s. writeSide \in Side /\ writeSide # readSide
    BY Sides
  <1>1. CASE Venue \/ UNCHANGED vars
    BY <1>1 DEF Venue, vars, logVars, readVars
  <1>2. CASE Connect \/ ConnectFails \/ Fetch \/ BuildFails \/ Share
    BY <1>2 DEF Connect, ConnectFails, Fetch, BuildFails, Share, logVars, readVars
  <1>3. CASE CheckFlag \/ EndOfStream \/ IngestControl \/ DropDiff \/ CtrlC
    BY <1>3 DEF CheckFlag, EndOfStream, IngestControl, DropDiff, CtrlC, logVars, readVars
  <1>4. CASE IngestDiff \/ Reveal \/ Publish
    BY <1>4 DEF IngestDiff, Reveal, Publish, Swap, readVars
  <1>5. CASE Fill \/ Sync \/ Drain \/ AbsorbNew
    <2>1. waitFor = {}
      BY <1>5 DEF Guards, Fill, Sync, Drain, AbsorbNew
    <2>2. \A r \in Readers : pinned[r] # writeSide
      BY <2>1 DEF Guards
    <2>3. \A s \in Side : s # writeSide => copies'[s] = copies[s]
      BY <1>5, <1>s DEF Fill, Sync, Drain, AbsorbNew
    <2>4. pinned' = pinned /\ saw' = saw
      BY <1>5 DEF Fill, Sync, Drain, AbsorbNew, readVars
    <2>5. QED
      BY <2>2, <2>3, <2>4
  <1>6. CASE \E r \in Readers : Enter(r)
    BY <1>6 DEF Enter, logVars
  <1>7. CASE \E r \in Readers : Leave(r)
    BY <1>7 DEF Leave, logVars
  <1>8. QED
    BY <1>1, <1>2, <1>3, <1>4, <1>5, <1>6, <1>7 DEF Next, Task

\* While the task builds and until the snapshot is published.
LEMMA BuildCopies ==
  ASSUME TypeOK, Copies,
         Connect \/ ConnectFails \/ Fetch \/ BuildFails \/ Share \/ Fill \/ Reveal
  PROVE  Copies'
  <1>. USE DEF TypeOK, Building, Publishing, Goto
  <1>s. writeSide \in Side /\ writeSide # readSide /\ Other(writeSide) = readSide
    BY Sides
  <1>1. CASE Connect \/ ConnectFails \/ Fetch \/ BuildFails \/ Share
    <2>1. UNCHANGED <<copies, readSide, oplog, swapIndex, second>> /\ writeSide' = writeSide
      BY <1>1 DEF Connect, ConnectFails, Fetch, BuildFails, Share, logVars, writeSide
    <2>2. pc \in Building \ {"fill", "reveal"} /\ pc' \in {"fetch", "build", "fill", "check", "done"}
      BY <1>1 DEF Connect, ConnectFails, Fetch, BuildFails, Share
    <2>3. pc' \in {"fetch", "build", "fill"} => handler' = "none"
      BY <1>1 DEF Copies, Connect, ConnectFails, Fetch, BuildFails, Share
    <2>4. handler' # "live"
      BY <1>1 DEF Copies, Connect, ConnectFails, Fetch, BuildFails, Share
    <2>5. pc' = "fill" => rest'.st = "replied"
      BY <1>1 DEF Connect, ConnectFails, Fetch, BuildFails, Share, venueVars
    <2>6. QED
      BY <2>1, <2>2, <2>3, <2>4, <2>5 DEF Copies
  <1>2. CASE Fill
    <2>1. /\ copies'[writeSide] = Extend(Default, rest.book)
          /\ copies'[readSide] = Default
      BY <1>2, <1>s DEF Fill, Copies
    <2>2. UNCHANGED <<readSide, second, swapIndex, handler, rest>> /\ pc' = "reveal"
          /\ writeSide' = writeSide
      BY <1>2 DEF Fill, venueVars, writeSide
    <2>3. pc = "fill"
      BY <1>2 DEF Fill
    <2>4. QED
      BY <2>1, <2>2, <2>3 DEF Copies
  <1>3. CASE Reveal
    <2>1. /\ readSide' = writeSide
          /\ UNCHANGED <<copies, oplog, swapIndex, second>>
          /\ pc = "reveal" /\ pc' = "check"
      BY <1>3 DEF Reveal, Swap
    <2>2. writeSide' = readSide
      BY <1>s, <2>1 DEF writeSide
    <2>3. Fresh'
      BY <2>1, <2>2 DEF Copies, Fresh
    <2>4. QED
      BY <2>1, <2>3 DEF Copies
  <1>4. QED
    BY <1>1, <1>2, <1>3

\* During a publish.
LEMMA PublishCopies ==
  ASSUME TypeOK, Lengths, Copies, Sync \/ Drain \/ AbsorbNew \/ Publish
  PROVE  Copies'
  <1>. USE DEF TypeOK, Building, Publishing, Goto
  <1>s. writeSide \in Side /\ writeSide # readSide /\ Other(writeSide) = readSide
    BY Sides
  <1>1. CASE Sync
    <2>1. pc = "sync" /\ pc' = "drain" /\ handler' = "live" /\ second' = FALSE
          /\ UNCHANGED <<readSide, oplog, swapIndex>> /\ writeSide' = writeSide
      BY <1>1 DEF Sync, Copies, writeSide
    <2>2. CASE Fresh
      <3>1. copies'[readSide] = copies[readSide]
        BY <1>1, <1>s DEF Sync
      <3>2. copies'[writeSide] = Extend(Default, copies[readSide])
        BY <1>1, <1>s, <2>2 DEF Sync, Fresh, SyncWith
      <3>3. copies'[writeSide] = copies[readSide]
        BY <3>2, ExtendDefault
      <3>4. Even'
        BY <2>1, <2>2, <3>1, <3>3 DEF Even, Fresh
      <3>5. QED
        BY <2>1, <3>4 DEF Copies
    <2>3. CASE Behind
      <3>1. copies' = copies
        BY <1>1, <2>3 DEF Sync, Behind
      <3>2. Behind'
        BY <2>1, <2>3, <3>1 DEF Behind
      <3>3. QED
        BY <2>1, <3>2 DEF Copies
    <2>4. QED
      BY <2>1, <2>2, <2>3 DEF Copies
  <1>2. CASE Drain
    <2>1. pc = "drain" /\ pc' = "absorb" /\ handler' = "live" /\ swapIndex' = 0
          /\ UNCHANGED <<readSide, second>> /\ writeSide' = writeSide
      BY <1>2 DEF Drain, Copies, writeSide
    <2>2. CASE Even
      <3>1. copies' = copies
        BY <1>2, <2>2 DEF Drain, Even
      <3>2. Even'
        BY <2>1, <2>2, <3>1 DEF Even
      <3>3. QED
        BY <2>1, <3>2 DEF Copies
    <2>3. CASE Behind
      <3>1. copies'[readSide] = copies[readSide]
        BY <1>2, <1>s DEF Drain
      <3>2. copies'[writeSide] = Absorb(copies[writeSide], oplog[1])
        BY <1>2, <1>s, <2>3 DEF Drain, Behind
      <3>3. Even'
        BY <2>1, <2>3, <3>1, <3>2 DEF Even, Behind
      <3>4. QED
        BY <2>1, <3>3 DEF Copies
    <2>4. QED
      BY <2>1, <2>2, <2>3 DEF Copies
  <1>3. CASE AbsorbNew
    <2>1. pc = "absorb" /\ pc' = "swap" /\ handler' = "live" /\ Even
          /\ UNCHANGED <<readSide, oplog, second>> /\ writeSide' = writeSide
      BY <1>3 DEF AbsorbNew, Copies, writeSide
    <2>2. /\ copies'[readSide] = copies[readSide]
          /\ copies'[writeSide] = Absorb(copies[writeSide], oplog[1])
      BY <1>3, <1>s DEF AbsorbNew
    <2>3. QED
      BY <2>1, <2>2 DEF Copies, Even
  <1>4. CASE Publish
    <2>1. /\ pc = "swap" /\ pc' = "check" /\ swapIndex' = 1
          /\ readSide' = writeSide
          /\ UNCHANGED <<copies, oplog, second>>
      BY <1>4 DEF Publish, Swap
    <2>2. writeSide' = readSide
      BY <1>s, <2>1 DEF writeSide
    <2>3. Behind'
      BY <2>1, <2>2 DEF Copies, Behind
    <2>4. QED
      BY <2>1, <2>3 DEF Copies
  <1>5. QED
    BY <1>1, <1>2, <1>3, <1>4

\* In the loop, and for everyone else.
LEMMA LoopCopies ==
  ASSUME TypeOK, Lengths, Copies,
         \/ CheckFlag \/ EndOfStream \/ IngestControl \/ IngestDiff \/ DropDiff
         \/ Venue \/ CtrlC \/ UNCHANGED vars
         \/ \E r \in Readers : Enter(r) \/ Leave(r)
  PROVE  Copies'
  <1>. USE DEF TypeOK, Building, Publishing, Goto
  <1>1. CASE CheckFlag \/ EndOfStream \/ IngestControl \/ DropDiff
    <2>1. UNCHANGED <<copies, readSide, oplog, swapIndex, second>> /\ writeSide' = writeSide
      BY <1>1 DEF CheckFlag, EndOfStream, IngestControl, DropDiff, logVars, writeSide
    <2>2. pc \in {"check", "await"} /\ pc' \in {"check", "await", "done"}
      BY <1>1 DEF CheckFlag, EndOfStream, IngestControl, DropDiff
    <2>3. handler' = handler \/ pc' = "done"
      BY <1>1 DEF CheckFlag, EndOfStream, IngestControl, DropDiff
    <2>4. QED
      BY <2>1, <2>2, <2>3 DEF Copies, Fresh, Behind
  <1>2. CASE IngestDiff
    <2>1. /\ UNCHANGED <<copies, readSide, swapIndex, second, handler>>
          /\ writeSide' = writeSide
          /\ pc = "await" /\ pc' = "sync" /\ handler = "live"
      BY <1>2 DEF IngestDiff, writeSide
    <2>2. CASE Fresh
      BY <2>1, <2>2 DEF Copies, Fresh
    <2>3. CASE Behind
      <3>1. Len(oplog) = 1 /\ oplog' = Append(oplog, Head(socket))
        BY <1>2, <2>3 DEF IngestDiff, Lengths, Behind
      <3>2. oplog'[1] = oplog[1]
        BY <3>1
      <3>3. Behind'
        BY <2>1, <2>3, <3>2 DEF Behind
      <3>4. QED
        BY <2>1, <3>3 DEF Copies
    <2>4. QED
      BY <2>1, <2>2, <2>3 DEF Copies
  <1>3. CASE Venue \/ CtrlC \/ UNCHANGED vars \/ \E r \in Readers : Enter(r) \/ Leave(r)
    <2>1. UNCHANGED <<copies, readSide, oplog, swapIndex, second, pc, handler>>
          /\ writeSide' = writeSide
      BY <1>3 DEF Venue, CtrlC, vars, Enter, Leave, logVars, taskVars, writeSide
    <2>2. rest.st = "replied" => rest' = rest
      BY <1>3 DEF Venue, VenueNext, VenueChange, VenueActivate, VenueEmit, VenuePing,
         VenueClose, VenueReply, VenueRefuse, CtrlC, vars, venueVars, Enter, Leave
    <2>3. QED
      BY <2>1, <2>2 DEF Copies, Fresh, Behind, Even
  <1>4. QED
    BY <1>1, <1>2, <1>3

LEMMA InvStep == IInv /\ [Next]_vars => IInv'
  <1>. SUFFICES ASSUME IInv, [Next]_vars
                PROVE  IInv'
    OBVIOUS
  <1>1. TypeOK' /\ Lengths' /\ Guards' /\ NoTornRead'
    BY TypeStep, LengthsStep, GuardsStep, NoTornReadStep DEF IInv
  <1>2. Copies'
    BY BuildCopies, PublishCopies, LoopCopies DEF IInv, Next, Task
  <1>3. QED
    BY <1>1, <1>2 DEF IInv

\* The inductive invariant of the left-right book: lengths of the log, what the two
\* copies are to each other, and who may be inside them.
THEOREM Invariance == Spec => []IInv
  BY InvInit, InvStep, PTL DEF Spec

\* Every state is well typed, whatever the readers do.
THEOREM TypeCorrect == Spec => []TypeOK
  <1>1. IInv => TypeOK
    BY DEF IInv
  <1>2. QED
    BY <1>1, Invariance, PTL

\* publish() never writes the copy that a reader's guard is on, for any number of readers.
THEOREM NoReadIsTorn == Spec => []NoTornRead
  <1>1. IInv => NoTornRead
    BY DEF IInv
  <1>2. QED
    BY <1>1, Invariance, PTL

\* Between two publishes the two copies differ by the one operation in the log, and
\* Initialize finds both of them empty.
THEOREM NoDrift == Spec => []CopiesDoNotDrift
  <1>1. ASSUME IInv PROVE CopiesDoNotDrift
    <2>1. pc = "fill" => \A s \in Side : copies[s] = Default
      BY <1>1, Sides DEF IInv, TypeOK, Copies, Building
    <2>2. ASSUME pc \in {"check", "await"}, handler = "live"
          PROVE  \/ second /\ copies[writeSide] = Default /\ oplog = <<>>
                 \/ ~ second /\ copies[readSide] = Absorb(copies[writeSide], oplog[1])
      <3>1. Fresh \/ Behind
        BY <1>1, <2>2 DEF IInv, Copies
      <3>2. Len(oplog) = swapIndex /\ oplog \in Seq(DepthUpdate)
        BY <1>1, <2>2 DEF IInv, TypeOK, Lengths, Publishing
      <3>3. Fresh => oplog = <<>>
        BY <3>2 DEF Fresh
      <3>4. QED
        BY <3>1, <3>3 DEF Fresh, Behind
    <2>3. QED
      BY <2>1, <2>2 DEF CopiesDoNotDrift
  <1>2. QED
    BY <1>1, Invariance, PTL

-----------------------------------------------------------------------------
\* The refinement.  A diff in the log that is not published yet is put back in front
\* of the abstract socket.

LEMMA Front ==
  ASSUME NEW S, NEW x \in S, NEW s \in Seq(S)
  PROVE  /\ <<x>> \o s # <<>>
         /\ Head(<<x>> \o s) = x
         /\ Tail(<<x>> \o s) = s
  <1>1. <<x>> \in Seq(S) /\ Len(<<x>> \o s) = Len(s) + 1
    OBVIOUS
  <1>2. \A i \in 1 .. Len(s) : (<<x>> \o s)[i + 1] = s[i]
    OBVIOUS
  <1>3. (<<x>> \o s)[1] = x
    OBVIOUS
  <1>4. <<x>> \o s \in Seq(S)
    OBVIOUS
  <1>5. Tail(<<x>> \o s) \in Seq(S) /\ Len(Tail(<<x>> \o s)) = Len(s)
        /\ \A i \in 1 .. Len(s) : Tail(<<x>> \o s)[i] = s[i]
    BY <1>1, <1>2, <1>4
  <1>6. Tail(<<x>> \o s) = s
    BY <1>5, SeqEqual
  <1>7. QED
    BY <1>1, <1>3, <1>4, <1>6

LEMMA FrontAppend ==
  ASSUME NEW S, NEW x \in S, NEW s \in Seq(S), NEW y \in S
  PROVE  Append(<<x>> \o s, y) = <<x>> \o Append(s, y)
  BY ConcatAssociative, AppendIsConcat

LEMMA FrontOfTail ==
  ASSUME NEW S, NEW s \in Seq(S), s # <<>>
  PROVE  <<Head(s)>> \o Tail(s) = s
  BY HeadTailProperties

LEMMA FeedInit == Init => Feed!Init
  <1>. SUFFICES ASSUME Init PROVE Feed!Init
    OBVIOUS
  <1>1. copies[readSide] = Default
    BY DEF Init, Side
  <1>2. feedSocket = socket /\ feedPc = pc
    BY DEF Init, feedSocket, feedPc
  <1>3. QED
    BY <1>1, <1>2
    DEF Init, VenueInit, Feed!Init, Feed!VenueInit, Default, Feed!Default, Ids, Feed!Ids,
        Levels, Feed!Levels

\* Building the book: sharing the factory and filling the write copy are not visible,
\* the first publish is the load.
LEMMA FeedBuild ==
  ASSUME IInv,
         Connect \/ ConnectFails \/ Fetch \/ BuildFails \/ Share \/ Fill \/ Reveal
  PROVE  [Feed!Next]_(Feed!vars)
  <1>. USE DEF IInv, TypeOK, Goto
  <1>s. writeSide \in Side /\ writeSide # readSide
    BY Sides
  <1>1. pc \in Building /\ pc \notin Publishing
    BY DEF Connect, ConnectFails, Fetch, BuildFails, Share, Fill, Reveal, Building, Publishing
  <1>2. feedSocket = socket /\ Len(oplog) = swapIndex
    BY <1>1 DEF feedSocket, Lengths
  <1>3. UNCHANGED <<oplog, swapIndex, socket>>
    BY DEF Connect, ConnectFails, Fetch, BuildFails, Share, Fill, Reveal, logVars, venueVars,
           SendSubscription, SendRequest
  <1>4. feedSocket' = socket'
    BY <1>2, <1>3 DEF feedSocket
  <1>5. CASE Connect
    <2>1. feedPc = "connect" /\ feedPc' = "fetch"
      BY <1>5 DEF Connect, feedPc
    <2>2. Feed!Connect
      BY <1>2, <1>4, <1>5, <2>1
      DEF Connect, SendSubscription, logVars, Feed!Connect, Feed!SendSubscription
    <2>3. QED
      BY <2>2 DEF Feed!Next
  <1>6. CASE ConnectFails
    <2>1. feedPc = "connect" /\ feedPc' = "done"
      BY <1>6 DEF ConnectFails, feedPc
    <2>2. Feed!ConnectFails
      BY <1>2, <1>4, <1>6, <2>1
      DEF ConnectFails, venueVars, logVars, Feed!ConnectFails, Feed!venueVars
    <2>3. QED
      BY <2>2 DEF Feed!Next
  <1>7. CASE Fetch
    <2>1. feedPc = "fetch" /\ feedPc' = "build"
      BY <1>7 DEF Fetch, feedPc
    <2>2. Feed!Fetch
      BY <1>2, <1>4, <1>7, <2>1
      DEF Fetch, SendRequest, logVars, Feed!Fetch, Feed!SendRequest
    <2>3. QED
      BY <2>2 DEF Feed!Next
  <1>8. CASE BuildFails
    <2>1. feedPc = "build" /\ feedPc' = "loop"
      BY <1>8 DEF BuildFails, feedPc
    <2>2. Feed!LoadFails
      BY <1>2, <1>4, <1>8, <2>1
      DEF BuildFails, venueVars, logVars, Feed!LoadFails, Feed!venueVars
    <2>3. QED
      BY <2>2 DEF Feed!Next
  <1>9. CASE Share \/ Fill
    <2>1. feedPc = "build" /\ feedPc' = "build"
      BY <1>9 DEF Share, Fill, feedPc
    <2>2. copies'[readSide'] = copies[readSide]
      BY <1>s, <1>9 DEF Share, Fill, logVars
    <2>3. UNCHANGED Feed!vars
      BY <1>2, <1>4, <1>9, <2>1, <2>2
      DEF Share, Fill, venueVars, Feed!vars, Feed!venueVars
    <2>4. QED
      BY <2>3
  <1>10. CASE Reveal
    <2>1. feedPc = "build" /\ feedPc' = "loop"
      BY <1>10 DEF Reveal, feedPc
    <2>2. copies'[readSide'] = Extend(copies[readSide], rest.book) /\ rest.st = "replied"
      BY <1>10, <1>1 DEF Reveal, Swap, Copies
    <2>3. Feed!Load
      BY <1>2, <1>4, <1>10, <2>1, <2>2
      DEF Reveal, venueVars, Feed!Load, Feed!venueVars, Extend, Feed!Extend
    <2>4. QED
      BY <2>3 DEF Feed!Next
  <1>11. QED
    BY <1>5, <1>6, <1>7, <1>8, <1>9, <1>10

\* The loop between two publishes.  Reading a diff for the log is not visible.
LEMMA FeedLoop ==
  ASSUME IInv,
         CheckFlag \/ EndOfStream \/ IngestControl \/ IngestDiff \/ DropDiff
  PROVE  [Feed!Next]_(Feed!vars)
  <1>. USE DEF IInv, TypeOK, Goto
  <1>1. pc \in {"check", "await"}
    BY DEF CheckFlag, EndOfStream, IngestControl, IngestDiff, DropDiff
  <1>2. feedSocket = socket /\ Len(oplog) = swapIndex /\ feedPc = "loop"
    BY <1>1 DEF feedSocket, Lengths, Publishing, feedPc
  <1>3. UNCHANGED <<copies, readSide, swapIndex>>
    BY DEF CheckFlag, EndOfStream, IngestControl, IngestDiff, DropDiff, logVars
  <1>4. CASE CheckFlag
    <2>1. feedSocket' = feedSocket /\ feedPc' = IF stop THEN "done" ELSE "loop"
      BY <1>4 DEF CheckFlag, venueVars, logVars, feedSocket, feedPc
    <2>2. stop => Feed!Finish
      BY <1>2, <1>3, <1>4, <2>1 DEF CheckFlag, venueVars, Feed!Finish, Feed!venueVars
    <2>3. ~ stop => UNCHANGED Feed!vars
      BY <1>2, <1>3, <1>4, <2>1 DEF CheckFlag, venueVars, Feed!vars, Feed!venueVars
    <2>4. QED
      BY <2>2, <2>3 DEF Feed!Next
  <1>5. CASE EndOfStream
    <2>1. feedSocket' = feedSocket /\ feedPc' = "done"
      BY <1>5 DEF EndOfStream, venueVars, logVars, feedSocket, feedPc
    <2>2. Feed!Finish
      BY <1>2, <1>3, <1>5, <2>1
      DEF EndOfStream, StreamEnded, venueVars, Feed!Finish, Feed!StreamEnded, Feed!venueVars
    <2>3. QED
      BY <2>2 DEF Feed!Next
  <1>6. CASE IngestControl
    <2>1. feedSocket' = feedSocket /\ feedPc' = "loop"
      BY <1>6 DEF IngestControl, ReadControl, logVars, feedSocket, feedPc
    <2>2. Feed!IngestControl
      BY <1>2, <1>3, <1>6, <2>1
      DEF IngestControl, ReadControl, Feed!IngestControl, Feed!ReadControl
    <2>3. QED
      BY <2>2 DEF Feed!Next
  <1>7. CASE IngestDiff
    <2>1. socket # <<>> /\ socket' = Tail(socket) /\ oplog' = Append(oplog, Head(socket))
          /\ pc' = "sync"
      BY <1>7 DEF IngestDiff, ReadDiff
    <2>2. socket \in Seq(DepthUpdate) /\ Head(socket) \in DepthUpdate
      BY <2>1 DEF VenueTypeOK
    <2>3. Len(oplog') = swapIndex + 1 /\ oplog'[swapIndex + 1] = Head(socket)
      BY <1>2, <2>1, <2>2
    <2>4. feedSocket' = <<Head(socket)>> \o Tail(socket)
      BY <1>3, <2>1, <2>3 DEF feedSocket
    <2>5. feedSocket' = feedSocket
      BY <1>2, <2>1, <2>2, <2>4, FrontOfTail
    <2>6. feedPc' = "loop"
      BY <2>1 DEF feedPc
    <2>7. QED
      BY <1>2, <1>3, <1>7, <2>5, <2>6 DEF IngestDiff, ReadDiff, Feed!vars, Feed!venueVars
  <1>8. CASE DropDiff
    <2>1. feedSocket' = socket' /\ feedPc' = "loop"
      BY <1>2, <1>8 DEF DropDiff, logVars, feedSocket, feedPc
    <2>2. Feed!IngestDiff
      BY <1>2, <1>3, <1>8, <2>1 DEF DropDiff, ReadDiff, Feed!IngestDiff, Feed!ReadDiff
    <2>3. QED
      BY <2>2 DEF Feed!Next
  <1>9. QED
    BY <1>4, <1>5, <1>6, <1>7, <1>8

\* A publish works on the copy that nobody sees, until it swaps: that is the step that
\* ingests the diff.
LEMMA FeedPublish ==
  ASSUME IInv, Sync \/ Drain \/ AbsorbNew \/ Publish
  PROVE  [Feed!Next]_(Feed!vars)
  <1>. USE DEF IInv, TypeOK, Goto
  <1>s. writeSide \in Side /\ writeSide # readSide
    BY Sides
  <1>1. pc \in Publishing
    BY DEF Sync, Drain, AbsorbNew, Publish, Publishing
  <1>2. Len(oplog) = swapIndex + 1 /\ handler = "live"
    BY <1>1 DEF Lengths, Copies
  <1>3. feedSocket = <<oplog[swapIndex + 1]>> \o socket /\ feedPc = "loop"
    BY <1>1, <1>2 DEF feedSocket, feedPc, Publishing
  <1>4. feedPc' = "loop" /\ UNCHANGED <<venueVars, handler, stop>>
    BY DEF Sync, Drain, AbsorbNew, Publish, feedPc
  <1>5. CASE Sync \/ Drain \/ AbsorbNew
    <2>1. copies'[readSide'] = copies[readSide]
      BY <1>s, <1>5 DEF Sync, Drain, AbsorbNew
    <2>2. feedSocket' = feedSocket
      <3>1. CASE UNCHANGED <<oplog, swapIndex>>
        BY <1>4, <3>1 DEF venueVars, feedSocket
      <3>2. CASE Drain /\ swapIndex = 1
        <4>1. oplog' = Tail(oplog) /\ swapIndex' = 0
          BY <3>2 DEF Drain
        <4>2. Len(oplog) = 1 + 1
          BY <1>2, <3>2
        <4>3. Len(oplog') = 1 /\ oplog'[1] = oplog[2]
          <5>1. Len(Tail(oplog)) = 1 /\ \A i \in 1 .. 1 : Tail(oplog)[i] = oplog[i + 1]
            BY <4>2, Longer
          <5>2. QED
            BY <4>1, <5>1
        <4>4. feedSocket' = <<oplog[2]>> \o socket
          BY <1>4, <4>1, <4>3 DEF feedSocket, venueVars
        <4>5. QED
          BY <1>3, <3>2, <4>4
      <3>3. UNCHANGED <<oplog, swapIndex>> \/ (Drain /\ swapIndex = 1)
        BY <1>5 DEF Sync, Drain, AbsorbNew
      <3>4. QED
        BY <3>1, <3>2, <3>3
    <2>3. QED
      BY <1>3, <1>4, <2>1, <2>2 DEF venueVars, Feed!vars, Feed!venueVars
  <1>6. CASE Publish
    <2>1. pc = "swap" /\ swapIndex = 0 /\ swapIndex' = 1 /\ oplog' = oplog /\ copies' = copies
          /\ readSide' = writeSide
      BY <1>6, <1>1 DEF Publish, Swap, Lengths
    <2>2. oplog[1] \in DepthUpdate
      <3>1. Len(oplog) = 0 + 1
        BY <1>2, <2>1
      <3>2. QED
        BY <3>1, Longer
    <2>3. feedSocket # <<>> /\ Head(feedSocket) = oplog[1] /\ Tail(feedSocket) = socket
      BY <1>3, <2>1, <2>2, Front DEF VenueTypeOK
    <2>4. feedSocket' = Tail(feedSocket)
      <3>1. ~ (Len(oplog') > swapIndex')
        <4>1. Len(oplog') = 1 /\ swapIndex' = 1
          BY <1>2, <2>1
        <4>2. QED
          BY <4>1
      <3>2. QED
        BY <1>4, <2>3, <3>1 DEF feedSocket, venueVars
    <2>5. copies'[readSide'] = Feed!Absorb(copies[readSide], Head(feedSocket))
      BY <1>1, <2>1, <2>3
      DEF Copies, Absorb, SetLevels, SkipUpdate, Feed!Absorb, Feed!SetLevels, Feed!SkipUpdate
    <2>6. Feed!IngestDiff
      BY <1>2, <1>3, <1>4, <2>3, <2>4, <2>5 DEF venueVars, Feed!IngestDiff, Feed!ReadDiff
    <2>7. QED
      BY <2>6 DEF Feed!Next
  <1>7. QED
    BY <1>5, <1>6

\* The venue cannot tell the two apart; readers are not visible.
LEMMA FeedOthers ==
  ASSUME IInv,
         \/ Venue \/ CtrlC \/ UNCHANGED vars
         \/ \E r \in Readers : Enter(r) \/ Leave(r)
  PROVE  [Feed!Next]_(Feed!vars)
  <1>. USE DEF IInv, TypeOK
  <1>1. UNCHANGED <<copies, readSide, oplog, swapIndex, handler, pc, feedPc>>
    BY DEF Venue, CtrlC, vars, Enter, Leave, logVars, taskVars, feedPc
  <1>2. CASE ~ Venue
    <2>1. UNCHANGED <<venueVars, feedSocket>>
      BY <1>1, <1>2 DEF CtrlC, vars, Enter, Leave, venueVars, feedSocket
    <2>2. CASE CtrlC
      BY <1>1, <2>1, <2>2 DEF CtrlC, venueVars, Feed!Next, Feed!CtrlC, Feed!venueVars
    <2>3. CASE ~ CtrlC
      <3>1. stop' = stop
        BY <1>2, <2>3 DEF vars, Enter, Leave, taskVars
      <3>2. QED
        BY <1>1, <2>1, <3>1 DEF venueVars, Feed!vars, Feed!venueVars
    <2>4. QED
      BY <2>2, <2>3
  <1>3. CASE Venue
    <2>1. stop' = stop /\ VenueNext
      BY <1>3 DEF Venue, taskVars
    <2>2. Feed!VenueNext
      <3>1. CASE VenueEmit
        <4>1. socket' = Append(socket, Diff(sent + 1, now)) /\ Diff(sent + 1, now) \in DepthUpdate
          BY <3>1, DiffType DEF VenueEmit, VenueTypeOK, Ids
        <4>2. Diff(sent + 1, now) = Feed!Diff(sent + 1, now)
          BY DEF Diff, Feed!Diff
        <4>3. feedSocket' = Append(feedSocket, Diff(sent + 1, now))
          <5>1. CASE Len(oplog) > swapIndex
            <6>1. oplog[swapIndex + 1] \in DepthUpdate
              BY <5>1
            <6>2. QED
              BY <1>1, <4>1, <5>1, <6>1, FrontAppend DEF feedSocket, VenueTypeOK
          <5>2. CASE ~ Len(oplog) > swapIndex
            BY <1>1, <4>1, <5>2 DEF feedSocket
          <5>3. QED
            BY <5>1, <5>2
        <4>4. Feed!VenueEmit
          BY <3>1, <4>2, <4>3 DEF VenueEmit, Feed!VenueEmit
        <4>5. QED
          BY <4>4 DEF Feed!VenueNext
      <3>2. CASE ~ VenueEmit
        <4>1. socket' = socket
          BY <2>1, <3>2 DEF VenueNext, VenueChange, VenueActivate, VenuePing, VenueClose,
             VenueReply, VenueRefuse
        <4>2. feedSocket' = feedSocket
          BY <1>1, <4>1 DEF feedSocket
        <4>3. CASE VenueReply
          <5>1. Feed!Asked = Asked /\ \A lv : Feed!Cut(lv) = Cut(lv)
            <6>1. Feed!Asked = Asked
              BY DEF Asked, Levels, Feed!Asked, Feed!Levels
            <6>2. \A q, p : Feed!Nearer(q, p) = Nearer(q, p)
              BY DEF Nearer, Feed!Nearer
            <6>3. \A lv : Feed!Reach(lv) = Reach(lv)
              <7>1. ASSUME NEW S PROVE Feed!Cardinality(S) = Cardinality(S)
                BY Zenon DEF Cardinality, Feed!Cardinality
              <7>2. QED
                BY <6>2, <7>1, Zenon DEF Reach, Feed!Reach, Nearer, Feed!Nearer
            <6>4. QED
              BY <6>1, <6>3 DEF Cut, Feed!Cut
          <5>2. Feed!VenueReply
            BY <4>2, <4>3, <5>1 DEF VenueReply, Feed!VenueReply
          <5>3. QED
            BY <5>2 DEF Feed!VenueNext
        <4>4. CASE ~ VenueReply
          BY <2>1, <3>2, <4>2, <4>4
          DEF VenueNext, VenueChange, VenueActivate, VenuePing, VenueClose,
              VenueRefuse, Feed!VenueNext, Feed!VenueChange, Feed!VenueActivate,
              Feed!VenuePing, Feed!VenueClose, Feed!VenueRefuse
        <4>5. QED
          BY <4>3, <4>4
      <3>3. QED
        BY <3>1, <3>2
    <2>3. QED
      BY <1>1, <2>1, <2>2 DEF Feed!Next, Feed!Venue
  <1>4. QED
    BY <1>2, <1>3

\* Two copies, a log and a pointer swap implement one variable that each diff changes in
\* one step: every step of OrderBook is a step of DepthFeed, or one that it cannot see.
THEOREM Implementation == Spec => ImplementsFeed
  <1>1. IInv /\ [Next]_vars => [Feed!Next]_(Feed!vars)
    BY FeedBuild, FeedLoop, FeedPublish, FeedOthers DEF Next, Task
  <1>2. QED
    BY <1>1, FeedInit, Invariance, PTL DEF Spec, ImplementsFeed, Feed!Spec

-----------------------------------------------------------------------------
\* What readers see only grows newer.

\* No guard has shown a book newer than the one the pointer names.
Past == \A r \in Readers : saw[r].id <= copies[readSide].id

LEMMA VisibleRises ==
  ASSUME IInv, [Next]_vars
  PROVE  copies'[readSide'].id >= copies[readSide].id
  <1>. USE DEF IInv, TypeOK
  <1>s. writeSide \in Side /\ writeSide # readSide
    BY Sides
  <1>1. copies[readSide].id \in Nat /\ copies[writeSide].id \in Nat
    BY <1>s DEF Book
  <1>2. CASE Reveal
    <2>1. copies[readSide].id = 0
      BY <1>2 DEF Reveal, Copies, Building, Default
    <2>2. QED
      BY <1>1, <1>2, <2>1 DEF Reveal, Swap
  <1>3. CASE Publish
    <2>1. copies[writeSide] = Absorb(copies[readSide], oplog[1])
      BY <1>3 DEF Publish, Copies
    <2>2. oplog[1] \in DepthUpdate
      <3>1. Len(oplog) = 0 + 1
        BY <1>3 DEF Publish, Lengths, Publishing
      <3>2. QED
        BY <3>1, Longer
    <2>3. QED
      BY <1>3, <2>1, <2>2, AbsorbRaisesId DEF Publish, Swap
  <1>4. CASE ~ Reveal /\ ~ Publish
    <2>1. copies'[readSide'] = copies[readSide]
      BY <1>s, <1>4
      DEF Next, Venue, CtrlC, vars, Enter, Leave, Task, Connect, ConnectFails, Fetch, BuildFails,
          Share, Fill, CheckFlag, EndOfStream, IngestControl, IngestDiff, DropDiff, Sync, Drain,
          AbsorbNew, logVars
    <2>2. QED
      BY <1>1, <2>1
  <1>5. QED
    BY <1>2, <1>3, <1>4

LEMMA PastStep ==
  ASSUME IInv, IInv', Past, [Next]_vars
  PROVE  Past' /\ \A r \in Readers : saw'[r].id >= saw[r].id
  <1>. USE DEF IInv, TypeOK, Past
  <1>1. \A r \in Readers : saw[r].id \in Nat /\ saw'[r].id \in Nat
    BY DEF Book
  <1>2. copies[readSide].id \in Nat /\ copies'[readSide'].id \in Nat
    BY DEF Book
  <1>3. copies'[readSide'].id >= copies[readSide].id
    BY VisibleRises
  <1>4. \A r \in Readers : saw'[r] = saw[r] \/ saw'[r] = copies[readSide]
    BY DEF Next, Venue, CtrlC, vars, Enter, Leave, Task, Connect, ConnectFails, Fetch, BuildFails,
           Share, Fill, Reveal, CheckFlag, EndOfStream, IngestControl, IngestDiff, DropDiff, Sync,
           Drain, AbsorbNew, Publish, Swap, readVars
  <1>5. ASSUME NEW r \in Readers
        PROVE  saw'[r].id <= copies'[readSide'].id /\ saw'[r].id >= saw[r].id
    <2>1. saw[r].id <= copies[readSide].id
      OBVIOUS
    <2>2. saw'[r].id = saw[r].id \/ saw'[r].id = copies[readSide].id
      BY <1>4
    <2>3. QED
      BY <1>1, <1>2, <1>3, <2>1, <2>2
  <1>6. QED
    BY <1>5

\* A reader that enters again finds a book at least as new, for any number of readers.
THEOREM ReadersMoveForward == Spec => ReadsMoveForward
  <1>1. Init => Past
    <2>1. ASSUME Init PROVE Past
      BY <2>1 DEF Init, Past, Side, Default
    <2>2. QED
      BY <2>1
  <1>2. IInv /\ IInv' /\ Past /\ [Next]_vars => Past'
    BY PastStep
  <1>3. IInv /\ IInv' /\ Past /\ [Next]_vars => [\A r \in Readers : saw'[r].id >= saw[r].id]_saw
    BY PastStep
  <1>4. QED
    BY <1>1, <1>2, <1>3, Invariance, PTL DEF Spec, ReadsMoveForward

=============================================================================
