--------------------------- MODULE DepthFeed_proof ---------------------------
(***************************************************************************)
(* Proofs about DepthFeed for every set of price levels and quantities and *)
(* every length of the venue's history; and about FrameRouting, which says *)
(* that a feed sees the diffs of its own symbol, for every set of exchange *)
(* names and every list of subscribed symbols.                             *)
(***************************************************************************)
EXTENDS DepthFeed, FrameRouting, TLAPS

-----------------------------------------------------------------------------
\* Books and diffs.

LEMMA DefaultIsBook == Default \in Book
  BY QtyAssumption DEF Default, Book, Levels

LEMMA AbsorbType ==
  ASSUME NEW b \in Book, NEW u \in DepthUpdate
  PROVE  Absorb(b, u) \in Book
  BY DEF Absorb, SetLevels, Book, DepthUpdate, Levels

\* The staleness test: absorbing never lowers a book's id.
LEMMA AbsorbRaisesId ==
  ASSUME NEW b \in Book, NEW u \in DepthUpdate
  PROVE  Absorb(b, u).id >= b.id
  BY DEF Absorb, SkipUpdate, Book, DepthUpdate

LEMMA ExtendType ==
  ASSUME NEW b \in Book, NEW c \in Book
  PROVE  Extend(b, c) \in Book
  BY DEF Extend, Book, Levels

\* Filling an empty book copies the other one.
LEMMA ExtendDefault ==
  ASSUME NEW c \in Book
  PROVE  Extend(Default, c) = c
  <1>1. c = [id |-> c.id, lv |-> [p \in Price |-> c.lv[p]]]
    BY DEF Book, Levels
  <1>2. \A p \in Price : (IF c.lv[p] # 0 THEN c.lv[p] ELSE Default.lv[p]) = c.lv[p]
    BY DEF Default
  <1>3. QED
    BY <1>1, <1>2 DEF Extend

LEMMA DiffType ==
  ASSUME VenueTypeOK, NEW i \in Nat, NEW j \in Ids
  PROVE  Diff(i, j) \in DepthUpdate
  BY VenueAssumption DEF Diff, DepthUpdate, VenueTypeOK, Ids

\* A snapshot says of a level what the book says, or nothing.
LEMMA CutType ==
  ASSUME NEW lv \in Levels
  PROVE  /\ Cut(lv) \in Levels
         /\ \A p \in Reach(lv) : Cut(lv)[p] = lv[p]
  <1>1. Reach(lv) \subseteq Price
    BY DEF Reach
  <1>2. QED
    BY <1>1, QtyAssumption DEF Cut, Levels

-----------------------------------------------------------------------------
\* The types of the venue's variables.

LEMMA VenueTypeInit ==
  ASSUME VenueInit
  PROVE  VenueTypeOK
  <1>1. PICK lv \in Levels : hist = [i \in Ids |-> lv]
    BY DEF VenueInit
  <1>2. hist \in [Ids -> Levels]
    BY <1>1
  <1>3. chg \in [Ids -> [Price -> Ids]]
    BY VenueAssumption DEF VenueInit, Ids
  <1>4. rest \in Answer
    BY DefaultIsBook DEF VenueInit, Answer
  <1>5. socket \in Seq(DepthUpdate)
    BY DEF VenueInit
  <1>6. prompt \in BOOLEAN /\ overlay \in BOOLEAN /\ now \in Ids \ {0} /\ sent \in Ids
    BY VenueAssumption DEF VenueInit, Ids
  <1>7. QED
    BY <1>2, <1>3, <1>4, <1>5, <1>6 DEF VenueInit, VenueTypeOK

LEMMA VenueStepType ==
  ASSUME VenueTypeOK, VenueNext
  PROVE  VenueTypeOK'
  <1>. USE VenueAssumption DEF VenueTypeOK, Ids
  <1>1. CASE VenueChange
    <2>1. PICK p \in Price : \E q \in Qty \ {hist[now][p]} :
            /\ hist' = [hist EXCEPT ![now + 1] = [hist[now] EXCEPT ![p] = q]]
            /\ chg' = [chg EXCEPT ![now + 1] = [chg[now] EXCEPT ![p] = now + 1]]
      BY <1>1 DEF VenueChange
    <2>2. PICK q \in Qty :
            /\ hist' = [hist EXCEPT ![now + 1] = [hist[now] EXCEPT ![p] = q]]
            /\ chg' = [chg EXCEPT ![now + 1] = [chg[now] EXCEPT ![p] = now + 1]]
      BY <2>1
    <2>3. hist' \in [0 .. MaxId -> Levels]
      BY <2>2, hist[now] \in Levels, [hist[now] EXCEPT ![p] = q] \in Levels DEF Levels
    <2>4. chg' \in [0 .. MaxId -> [Price -> 0 .. MaxId]]
      BY <1>1, <2>2, [chg[now] EXCEPT ![p] = now + 1] \in [Price -> 0 .. MaxId]
      DEF VenueChange
    <2>5. now' \in Ids \ {0}
      BY <1>1 DEF VenueChange
    <2>6. UNCHANGED <<sub, from, sent, socket, ctl, open, rest, prompt, overlay>>
      BY <1>1 DEF VenueChange
    <2>7. QED
      BY <2>3, <2>4, <2>5, <2>6
  <1>2. CASE VenueActivate
    BY <1>2 DEF VenueActivate
  <1>3. CASE VenueEmit
    <2>1. Diff(sent + 1, now) \in DepthUpdate
      BY DiffType
    <2>2. QED
      BY <1>3, <2>1, SMTT(30) DEF VenueEmit
  <1>4. CASE VenuePing
    BY <1>4 DEF VenuePing
  <1>5. CASE VenueClose
    BY <1>5 DEF VenueClose
  <1>6. CASE VenueReply
    <2>1. PICK lv \in Asked :
            rest' = [st |-> "replied", book |-> [id |-> now, lv |-> Cut(lv)]]
      BY <1>6 DEF VenueReply
    <2>2. rest' \in Answer
      <3>1. lv \in Levels
        BY <2>1 DEF Asked
      <3>2. [id |-> now, lv |-> Cut(lv)] \in Book
        BY <3>1, CutType DEF Book
      <3>3. QED
        BY <2>1, <3>2 DEF Answer
    <2>3. QED
      BY <1>6, <2>2 DEF VenueReply
  <1>7. CASE VenueRefuse
    BY <1>7 DEF VenueRefuse, Answer
  <1>8. QED
    BY <1>1, <1>2, <1>3, <1>4, <1>5, <1>6, <1>7 DEF VenueNext

-----------------------------------------------------------------------------
\* Types.

LEMMA TypeInit == Init => TypeOK
  <1>1. ASSUME Init PROVE TypeOK
    <2>1. VenueTypeOK
      BY <1>1, VenueTypeInit DEF Init
    <2>2. QED
      BY <1>1, <2>1, DefaultIsBook DEF Init, TypeOK
  <1>2. QED
    BY <1>1

LEMMA TypeStep == TypeOK /\ [Next]_vars => TypeOK'
  <1>. SUFFICES ASSUME TypeOK, [Next]_vars
                PROVE  TypeOK'
    OBVIOUS
  <1>. USE DEF TypeOK
  <1>1. CASE Venue
    BY <1>1, VenueStepType DEF Venue
  <1>2. CASE Connect
    BY <1>2 DEF Connect, SendSubscription, VenueTypeOK, Ids
  <1>3. CASE ConnectFails
    BY <1>3 DEF ConnectFails, venueVars, VenueTypeOK, Ids
  <1>4. CASE Fetch
    <2>1. rest' \in Answer
      BY <1>4 DEF Fetch, SendRequest, VenueTypeOK, Answer
    <2>2. QED
      BY <1>4, <2>1 DEF Fetch, SendRequest, VenueTypeOK, Ids
  <1>5. CASE Load
    <2>1. Extend(book, rest.book) \in Book
      BY ExtendType DEF VenueTypeOK, Answer
    <2>2. QED
      BY <1>5, <2>1 DEF Load, venueVars, VenueTypeOK, Ids
  <1>6. CASE LoadFails
    BY <1>6 DEF LoadFails, venueVars, VenueTypeOK, Ids
  <1>7. CASE IngestDiff
    <2>1. Head(socket) \in DepthUpdate /\ socket' \in Seq(DepthUpdate)
      BY <1>7 DEF IngestDiff, ReadDiff, VenueTypeOK
    <2>2. book' \in Book
      BY <1>7, <2>1, AbsorbType DEF IngestDiff
    <2>3. QED
      BY <1>7, <2>1, <2>2 DEF IngestDiff, ReadDiff, VenueTypeOK, Ids
  <1>8. CASE IngestControl
    BY <1>8 DEF IngestControl, ReadControl, VenueTypeOK, Ids
  <1>9. CASE Finish
    BY <1>9 DEF Finish, venueVars, VenueTypeOK, Ids
  <1>10. CASE CtrlC
    BY <1>10 DEF CtrlC, venueVars, VenueTypeOK, Ids
  <1>11. CASE UNCHANGED vars
    BY <1>11 DEF vars, venueVars, VenueTypeOK, Ids
  <1>12. QED
    BY <1>1, <1>2, <1>3, <1>4, <1>5, <1>6, <1>7, <1>8, <1>9, <1>10, <1>11 DEF Next

\* Every state of the feed is well typed: in particular the published book always
\* holds quantities that the venue sent.
THEOREM TypeCorrect == Spec => []TypeOK
  BY TypeInit, TypeStep, PTL DEF Spec

-----------------------------------------------------------------------------
\* The inductive invariant, in four parts.

\* The venue's history: a level that has not changed since i is at j what it was at i.
History ==
  \A i \in 1 .. now, j \in 1 .. now : \A p \in Price :
    i <= j =>
      /\ chg[j][p] <= j
      /\ chg[j][p] <= i => chg[i][p] = chg[j][p] /\ hist[i][p] = hist[j][p]

\* The websocket: consecutive diffs, from the first id of the stream to the last sent.
Stream ==
  /\ sub # "active" => socket = <<>>
  /\ sub = "active" => from > 1 /\ from - 1 <= sent /\ sent <= now
  /\ socket # <<>> => socket[1].first >= from /\ socket[Len(socket)].last = sent
  /\ \A k \in 1 .. Len(socket) :
       /\ socket[k].first <= socket[k].last
       /\ from <= socket[k].first
       /\ socket[k].last \in 1 .. sent
       /\ socket[k] = Diff(socket[k].first, socket[k].last)
  /\ \A k \in 1 .. Len(socket) - 1 : socket[k + 1].first = socket[k].last + 1

\* The snapshot and the stream, as the two sides agree on them.
Answered ==
  /\ rest.st = "replied" =>
       SnapId \in 1 .. now /\ (~ overlay => rest.book.lv = Cut(hist[SnapId]))
  /\ rest.st = "replied" /\ prompt =>
       \/ sub = "active" /\ from <= SnapId + 1
       \/ sub = "sent" /\ ~ open

\* Where the client is determines what it has asked for and what it holds.
Progress ==
  /\ pc = "connect" => sub = "none"
  /\ pc \in {"connect", "fetch"} => rest.st = "idle"
  /\ pc \in {"fetch", "build", "loop"} => sub # "none"
  /\ rest.st # "idle" => sub # "none"
  /\ pc \in {"connect", "fetch", "build"} => handler = "none"
  /\ handler = "none" => book = Default
  /\ handler = "live" => rest.st = "replied" /\ pc = "loop"

\* The order in which the client asks and the venue answers.
Protocol ==
  /\ Answered
  /\ Progress
  /\ pc \in {"connect", "fetch", "build"} /\ sub = "active" => Delivered = from - 1

\* The stream has covered the last change of level p, or the snapshot has come before it.
Covered(p) == sub = "active" /\ chg[book.id][p] >= from

\* The published book: each level is the snapshot's or, of the changes that the stream
\* covers, the venue's as of the book's id; the latter if the change is the snapshot's junior.
Levelwise ==
  handler = "live" =>
    \A p \in Price :
      \/ book.lv[p] = rest.book.lv[p] /\ ~ (Covered(p) /\ chg[book.id][p] > SnapId)
      \/ book.lv[p] = hist[book.id][p] /\ Covered(p)

IInv == TypeOK /\ History /\ Stream /\ Protocol /\ CaughtUp /\ Levelwise

-----------------------------------------------------------------------------
LEMMA InvInit == Init => IInv
  <1>. SUFFICES ASSUME Init PROVE IInv
    OBVIOUS
  <1>1. TypeOK
    BY TypeInit
  <1>2. PICK lv \in Levels : hist = [i \in Ids |-> lv]
    BY DEF Init, VenueInit
  <1>3. History
    <2>1. \A i \in 1 .. now : i \in Ids /\ i = 1
      BY VenueAssumption DEF Init, VenueInit, Ids
    <2>2. QED
      BY <2>1, <1>2 DEF History, Init, VenueInit
  <1>4. Stream
    BY DEF Stream, Init, VenueInit
  <1>5. Protocol
    BY DEF Protocol, Answered, Progress, Init, VenueInit
  <1>6. CaughtUp /\ Levelwise
    BY DEF CaughtUp, Levelwise, Init
  <1>7. QED
    BY <1>1, <1>3, <1>4, <1>5, <1>6 DEF IInv

\* Everything but a change of the venue's book leaves its history alone.
LEMMA HistoryUntouched ==
  ASSUME [Next]_vars, ~ VenueChange
  PROVE  UNCHANGED <<now, hist, chg>>
  <1>1. CASE Venue
    BY <1>1 DEF Venue, VenueNext, VenueActivate, VenueEmit, VenuePing, VenueClose,
       VenueReply, VenueRefuse
  <1>2. CASE UNCHANGED vars
    BY <1>2 DEF vars, venueVars
  <1>3. CASE Connect \/ Fetch \/ IngestDiff \/ IngestControl
    BY <1>3 DEF Connect, Fetch, IngestDiff, IngestControl, SendSubscription, SendRequest,
       ReadDiff, ReadControl
  <1>4. CASE ConnectFails \/ Load \/ LoadFails \/ Finish \/ CtrlC
    BY <1>4 DEF ConnectFails, Load, LoadFails, Finish, CtrlC, venueVars
  <1>5. QED
    BY <1>1, <1>2, <1>3, <1>4 DEF Next

\* A change adds one book to the history.
LEMMA ChangeExtendsHistory ==
  ASSUME TypeOK, VenueChange
  PROVE  /\ now' = now + 1 /\ now' \in Ids
         /\ \A i \in 1 .. now : hist'[i] = hist[i] /\ chg'[i] = chg[i]
         /\ \A p \in Price :
              \/ hist'[now'][p] = hist[now][p] /\ chg'[now'][p] = chg[now][p]
              \/ chg'[now'][p] = now'
  <1>. USE VenueAssumption DEF TypeOK, VenueTypeOK, Ids
  <1>1. PICK p \in Price : \E q \in Qty \ {hist[now][p]} :
          /\ hist' = [hist EXCEPT ![now + 1] = [hist[now] EXCEPT ![p] = q]]
          /\ chg' = [chg EXCEPT ![now + 1] = [chg[now] EXCEPT ![p] = now + 1]]
    BY DEF VenueChange
  <1>2. PICK q \in Qty :
          /\ hist' = [hist EXCEPT ![now + 1] = [hist[now] EXCEPT ![p] = q]]
          /\ chg' = [chg EXCEPT ![now + 1] = [chg[now] EXCEPT ![p] = now + 1]]
    BY <1>1
  <1>3. now' = now + 1 /\ now' \in 0 .. MaxId
    BY DEF VenueChange
  <1>4. \A i \in 1 .. now : hist'[i] = hist[i] /\ chg'[i] = chg[i]
    BY <1>2
  <1>5. hist'[now'] = [hist[now] EXCEPT ![p] = q] /\ chg'[now'] = [chg[now] EXCEPT ![p] = now']
    BY <1>2, <1>3
  <1>6. \A r \in Price :
          \/ hist'[now'][r] = hist[now][r] /\ chg'[now'][r] = chg[now][r]
          \/ chg'[now'][r] = now'
    <2>1. hist[now] \in Levels /\ chg[now] \in [Price -> 0 .. MaxId]
      OBVIOUS
    <2>2. QED
      BY <1>5, <2>1 DEF Levels
  <1>7. QED
    BY <1>3, <1>4, <1>6

LEMMA HistoryStep ==
  ASSUME TypeOK, History, [Next]_vars
  PROVE  History'
  <1>1. CASE VenueChange
    <2>. SUFFICES ASSUME NEW i \in 1 .. now', NEW j \in 1 .. now', NEW p \in Price, i <= j
                  PROVE  /\ chg'[j][p] <= j
                         /\ chg'[j][p] <= i =>
                              chg'[i][p] = chg'[j][p] /\ hist'[i][p] = hist'[j][p]
      BY DEF History
    <2>. USE DEF TypeOK, VenueTypeOK, Ids
    <2>1. now \in Nat /\ now' = now + 1 /\ now >= 1
      <3>1. now' = now + 1
        BY <1>1 DEF VenueChange
      <3>2. QED
        BY <3>1, VenueAssumption
    <2>2. CASE j <= now
      <3>1. i \in 1 .. now /\ j \in 1 .. now
        BY <2>1, <2>2
      <3>2. chg'[i] = chg[i] /\ chg'[j] = chg[j] /\ hist'[i] = hist[i] /\ hist'[j] = hist[j]
        BY <3>1, <1>1, ChangeExtendsHistory
      <3>3. QED
        BY <3>1, <3>2 DEF History
    <2>3. CASE j = now' /\ i = now'
      <3>1. now \in 1 .. now /\ chg[now][p] <= now
        BY <2>1 DEF History
      <3>2. chg[now][p] \in Nat
        BY VenueAssumption
      <3>3. \/ hist'[now'][p] = hist[now][p] /\ chg'[now'][p] = chg[now][p]
            \/ chg'[now'][p] = now'
        BY <1>1, ChangeExtendsHistory
      <3>. HIDE DEF TypeOK, VenueTypeOK, Ids
      <3>4. QED
        BY <2>1, <2>3, <3>1, <3>2, <3>3
    <2>4. CASE j = now' /\ i <= now
      <3>1. now \in 1 .. now /\ i \in 1 .. now
        BY <2>1, <2>4
      <3>2. /\ chg[now][p] <= now
            /\ chg[now][p] <= i => chg[i][p] = chg[now][p] /\ hist[i][p] = hist[now][p]
        BY <3>1 DEF History
      <3>3. chg'[i] = chg[i] /\ hist'[i] = hist[i]
        BY <3>1, <1>1, ChangeExtendsHistory
      <3>4. chg[now][p] \in Nat
        BY VenueAssumption
      <3>5. CASE hist'[now'][p] = hist[now][p] /\ chg'[now'][p] = chg[now][p]
        BY <2>1, <2>4, <3>1, <3>2, <3>3, <3>4, <3>5
      <3>6. CASE chg'[now'][p] = now'
        BY <2>1, <2>4, <3>1, <3>6
      <3>7. QED
        BY <1>1, <3>5, <3>6, ChangeExtendsHistory
    <2>5. QED
      BY <2>1, <2>2, <2>3, <2>4
  <1>2. CASE ~ VenueChange
    BY <1>2, HistoryUntouched DEF History
  <1>3. QED
    BY <1>1, <1>2

-----------------------------------------------------------------------------
\* The websocket.

\* Every step but these leaves the stream as it is.
LEMMA StreamUntouched ==
  ASSUME [Next]_vars, ~ VenueActivate, ~ VenueEmit, ~ Connect, ~ IngestDiff
  PROVE  UNCHANGED <<sub, from, sent, socket>>
  <1>1. CASE Venue
    BY <1>1 DEF Venue, VenueNext, VenueChange, VenuePing, VenueClose, VenueReply,
       VenueRefuse
  <1>2. CASE UNCHANGED vars
    BY <1>2 DEF vars, venueVars
  <1>3. CASE Fetch \/ IngestControl
    BY <1>3 DEF Fetch, IngestControl, SendRequest, ReadControl
  <1>4. CASE ConnectFails \/ Load \/ LoadFails \/ Finish \/ CtrlC
    BY <1>4 DEF ConnectFails, Load, LoadFails, Finish, CtrlC, venueVars
  <1>5. QED
    BY <1>1, <1>2, <1>3, <1>4 DEF Next

\* What has happened up to an id that the venue has reached is never rewritten.
LEMMA PastIsFixed ==
  ASSUME TypeOK, [Next]_vars
  PROVE  /\ now' >= now
         /\ \A i \in 1 .. now : hist'[i] = hist[i] /\ chg'[i] = chg[i]
         /\ \A i \in Nat, j \in 1 .. now : Diff(i, j)' = Diff(i, j)
  <1>1. now \in Nat
    BY VenueAssumption DEF TypeOK, VenueTypeOK, Ids
  <1>2. now' >= now /\ \A i \in 1 .. now : hist'[i] = hist[i] /\ chg'[i] = chg[i]
    <2>1. CASE VenueChange
      <3>1. now' = now + 1
        BY <2>1 DEF VenueChange
      <3>2. QED
        BY <1>1, <2>1, <3>1, ChangeExtendsHistory
    <2>2. CASE ~ VenueChange
      BY <1>1, <2>2, HistoryUntouched
    <2>3. QED
      BY <2>1, <2>2
  <1>3. QED
    BY <1>2 DEF Diff

LEMMA StreamStep ==
  ASSUME TypeOK, TypeOK', Stream, Protocol, [Next]_vars
  PROVE  Stream'
  <1>0. /\ now \in Nat /\ now >= 1 /\ sent \in Nat /\ from \in Nat
        /\ now' \in Nat /\ sent' \in Nat /\ socket \in Seq(DepthUpdate)
        /\ socket' \in Seq(DepthUpdate)
    BY VenueAssumption DEF TypeOK, VenueTypeOK, Ids
  <1>1. CASE VenueActivate
    <2>1. socket = <<>> /\ socket' = <<>> /\ sub' = "active" /\ from' = now + 1
          /\ sent' = now /\ now' = now
      BY <1>1 DEF VenueActivate, Stream
    <2>2. QED
      BY <1>0, <2>1 DEF Stream
  <1>2. CASE VenueEmit
    <2>1. /\ sub = "active" /\ sub' = "active" /\ from' = from /\ now' = now
          /\ hist' = hist /\ chg' = chg
          /\ sent < now /\ sent' = now
          /\ socket' = Append(socket, Diff(sent + 1, now))
      BY <1>2 DEF VenueEmit
    <2>2. from > 1 /\ from <= sent + 1
      BY <1>0, <2>1 DEF Stream
    <2>3. /\ Len(socket') = Len(socket) + 1
          /\ Len(socket) \in Nat
          /\ \A k \in 1 .. Len(socket) : socket'[k] = socket[k]
          /\ socket'[Len(socket) + 1] = Diff(sent + 1, now)
          /\ socket' # <<>>
      BY <1>0, <2>1, DiffType DEF TypeOK
    <2>4. Diff(sent + 1, now).first = sent + 1 /\ Diff(sent + 1, now).last = now
      BY DEF Diff
    <2>5. ASSUME NEW k \in 1 .. Len(socket')
          PROVE  /\ socket'[k].first <= socket'[k].last
                 /\ from <= socket'[k].first
                 /\ socket'[k].last \in 1 .. sent'
                 /\ socket'[k] = Diff(socket'[k].first, socket'[k].last)
      <3>1. CASE k = Len(socket) + 1
        BY <1>0, <2>1, <2>2, <2>3, <2>4, <3>1
      <3>2. CASE k \in 1 .. Len(socket)
        <4>1. socket[k].last \in 1 .. sent /\ socket'[k] = socket[k]
          BY <2>3, <3>2 DEF Stream
        <4>2. /\ socket[k].first <= socket[k].last
              /\ from <= socket[k].first
              /\ socket[k] = Diff(socket[k].first, socket[k].last)
          BY <3>2 DEF Stream
        <4>3. QED
          BY <1>0, <2>1, <4>1, <4>2
      <3>3. QED
        BY <2>3, <3>1, <3>2
    <2>6. ASSUME NEW k \in 1 .. Len(socket') - 1
          PROVE  socket'[k + 1].first = socket'[k].last + 1
      <3>1. k \in 1 .. Len(socket) /\ k + 1 \in 1 .. Len(socket) + 1
        BY <2>3
      <3>2. CASE k = Len(socket)
        <4>1. socket # <<>> /\ socket[k].last = sent
          BY <1>0, <3>1, <3>2 DEF Stream
        <4>2. socket'[k] = socket[k] /\ socket'[k + 1] = Diff(sent + 1, now)
          BY <2>3, <3>1, <3>2
        <4>3. QED
          BY <2>4, <4>1, <4>2
      <3>3. CASE k + 1 \in 1 .. Len(socket)
        <4>1. k \in 1 .. Len(socket) - 1
          BY <2>3, <3>1, <3>3
        <4>2. socket[k + 1].first = socket[k].last + 1
          BY <4>1 DEF Stream
        <4>3. QED
          BY <2>3, <3>1, <3>3, <4>2
      <3>4. QED
        BY <3>1, <3>2, <3>3, <2>3
    <2>7. socket'[1].first >= from /\ socket'[Len(socket')].last = sent'
      <3>1. 1 \in 1 .. Len(socket')
        BY <2>3
      <3>2. socket'[1].first >= from
        <4>1. socket'[1] \in DepthUpdate
          BY <1>0, <3>1
        <4>2. QED
          BY <1>0, <2>5, <3>1, <4>1 DEF DepthUpdate
      <3>3. QED
        BY <2>1, <2>3, <2>4, <3>2
    <2>8. \A k \in 1 .. Len(socket') :
            socket'[k] = Diff(socket[k].first, socket[k].last)'
      BY <2>1, <2>5 DEF Diff
    <2>9. sub' = "active" => from' > 1 /\ from' - 1 <= sent' /\ sent' <= now'
      BY <1>0, <2>1, <2>2
    <2>10. QED
      BY <2>1, <2>5, <2>6, <2>7, <2>8, <2>9 DEF Stream
  <1>3. CASE Connect
    <2>1. sub = "none" /\ sub' = "sent" /\ socket' = socket
      BY <1>3 DEF Connect, SendSubscription, Protocol, Answered, Progress
    <2>2. socket' = <<>>
      BY <2>1 DEF Stream
    <2>3. QED
      BY <2>1, <2>2 DEF Stream
  <1>4. CASE IngestDiff
    <2>1. /\ socket # <<>> /\ socket' = Tail(socket)
          /\ UNCHANGED <<now, hist, chg, sub, from, sent>>
      BY <1>4 DEF IngestDiff, ReadDiff
    <2>2. /\ Len(socket) \in Nat /\ Len(socket') = Len(socket) - 1
          /\ \A k \in 1 .. Len(socket') : socket'[k] = socket[k + 1] /\ k + 1 \in 1 .. Len(socket)
          /\ \A k \in 1 .. Len(socket') - 1 : k + 1 \in 1 .. Len(socket) - 1
      BY <1>0, <2>1
    <2>3. sub = "active" /\ from > 1 /\ from - 1 <= sent /\ sent <= now
      BY <2>1 DEF Stream
    <2>4. \A k \in 1 .. Len(socket') :
            /\ socket'[k].first <= socket'[k].last
            /\ from <= socket'[k].first
            /\ socket'[k].last \in 1 .. sent
            /\ socket'[k] = Diff(socket'[k].first, socket'[k].last)
      BY <2>2 DEF Stream
    <2>5. \A k \in 1 .. Len(socket') - 1 : socket'[k + 1].first = socket'[k].last + 1
      <3>1. TAKE k \in 1 .. Len(socket') - 1
      <3>2. k \in 1 .. Len(socket') /\ k + 1 \in 1 .. Len(socket')
            /\ k + 1 \in 1 .. Len(socket) - 1
        BY <2>2
      <3>3. socket[k + 1 + 1].first = socket[k + 1].last + 1
        BY <3>2 DEF Stream
      <3>4. QED
        BY <2>2, <3>2, <3>3
    <2>6. socket' # <<>> => socket'[1].first >= from /\ socket'[Len(socket')].last = sent
      <3>1. SUFFICES ASSUME socket' # <<>> PROVE socket'[1].first >= from /\ socket'[Len(socket')].last = sent
        OBVIOUS
      <3>2. Len(socket') \in 1 .. Len(socket') /\ 1 \in 1 .. Len(socket')
        BY <1>0, <2>2, <3>1
      <3>3. socket'[Len(socket')] = socket[Len(socket)]
        BY <2>2, <3>2
      <3>4. socket[Len(socket)].last = sent
        BY <2>1 DEF Stream
      <3>5. socket'[1] \in DepthUpdate
        BY <1>0, <3>2
      <3>6. QED
        BY <1>0, <2>4, <3>2, <3>3, <3>4, <3>5 DEF DepthUpdate
    <2>7. \A i, j : Diff(i, j)' = Diff(i, j)
      BY <2>1 DEF Diff
    <2>8. QED
      BY <2>1, <2>3, <2>4, <2>5, <2>6, <2>7 DEF Stream, Diff
  <1>5. CASE ~ VenueActivate /\ ~ VenueEmit /\ ~ Connect /\ ~ IngestDiff
    <2>1. UNCHANGED <<sub, from, sent, socket>>
      BY <1>5, StreamUntouched
    <2>2. /\ now' >= now
          /\ \A i \in Nat, j \in 1 .. now : Diff(i, j)' = Diff(i, j)
      BY PastIsFixed
    <2>3. sub' = "active" => from' > 1 /\ from' - 1 <= sent' /\ sent' <= now'
      BY <1>0, <2>1, <2>2 DEF Stream
    <2>4. ASSUME NEW k \in 1 .. Len(socket)
          PROVE  socket[k] = Diff(socket[k].first, socket[k].last)'
      <3>1. sub = "active" /\ sent <= now /\ socket[k].last \in 1 .. sent
        BY <1>0 DEF Stream
      <3>2. socket[k].last \in 1 .. now /\ socket[k].first \in Nat
        <4>1. socket[k] \in DepthUpdate
          BY <1>0
        <4>2. socket[k].first \in Nat
          BY <4>1 DEF DepthUpdate
        <4>3. QED
          BY <1>0, <3>1, <4>2
      <3>3. Diff(socket[k].first, socket[k].last)' = Diff(socket[k].first, socket[k].last)
        BY <2>1, <2>2, <3>2 DEF Diff
      <3>4. QED
        BY <3>3 DEF Stream
    <2>5. QED
      BY <2>1, <2>3, <2>4 DEF Stream
  <1>6. QED
    BY <1>1, <1>2, <1>3, <1>4, <1>5

-----------------------------------------------------------------------------
\* What has been delivered: moved by a diff that is read, and by the activation.

LEMMA DeliveredStep ==
  ASSUME TypeOK, Stream, Protocol, [Next]_vars
  PROVE  /\ VenueActivate => sub' = "active" /\ Delivered' = from' - 1 /\ from' = now + 1
         /\ IngestDiff => /\ sub = "active"
                          /\ Head(socket) = socket[1]
                          /\ socket[1] = Diff(socket[1].first, socket[1].last)
                          /\ Delivered = socket[1].first - 1
                          /\ Delivered' = socket[1].last
         /\ ~ VenueActivate /\ ~ IngestDiff => Delivered' = Delivered
  <1>0. socket \in Seq(DepthUpdate) /\ sent \in Nat /\ now \in Nat
    BY VenueAssumption DEF TypeOK, VenueTypeOK, Ids
  <1>1. ASSUME VenueActivate
        PROVE  sub' = "active" /\ Delivered' = from' - 1 /\ from' = now + 1
    <2>1. socket' = <<>> /\ sent' = now /\ from' = now + 1 /\ sub' = "active"
      BY <1>1 DEF VenueActivate, Stream
    <2>2. QED
      BY <1>0, <2>1 DEF Delivered
  <1>2. ASSUME IngestDiff
        PROVE  /\ sub = "active"
               /\ Head(socket) = socket[1]
               /\ socket[1] = Diff(socket[1].first, socket[1].last)
               /\ Delivered = socket[1].first - 1
               /\ Delivered' = socket[1].last
    <2>1. socket # <<>> /\ socket' = Tail(socket) /\ sent' = sent
      BY <1>2 DEF IngestDiff, ReadDiff
    <2>2. Len(socket) \in Nat /\ Len(socket) >= 1 /\ 1 \in 1 .. Len(socket)
      BY <1>0, <2>1
    <2>3. CASE Len(socket) = 1
      <3>1. socket' = <<>> /\ socket[1].last = sent
        BY <1>0, <2>1, <2>3 DEF Stream
      <3>2. Delivered' = socket[1].last
        BY <2>1, <3>1 DEF Delivered
      <3>3. QED
        BY <1>0, <2>1, <2>2, <3>2 DEF Stream, Delivered
    <2>4. CASE Len(socket) > 1
      <3>1. socket' # <<>> /\ socket'[1] = socket[2] /\ 1 \in 1 .. Len(socket) - 1
        BY <1>0, <2>1, <2>4
      <3>2. socket[1 + 1].first = socket[1].last + 1
        BY <3>1 DEF Stream
      <3>3. socket[1].last \in Nat
        <4>1. socket[1] \in DepthUpdate
          BY <1>0, <2>2
        <4>2. QED
          BY <4>1 DEF DepthUpdate
      <3>4. Delivered' = socket[1].last
        BY <3>1, <3>2, <3>3 DEF Delivered
      <3>5. QED
        BY <1>0, <2>1, <2>2, <3>4 DEF Stream, Delivered
    <2>5. QED
      BY <2>2, <2>3, <2>4
  <1>3. ASSUME ~ VenueActivate, ~ IngestDiff
        PROVE  Delivered' = Delivered
    <2>1. CASE VenueEmit
      <3>1. socket' = Append(socket, Diff(sent + 1, now)) /\ socket' # <<>>
        BY <1>0, <2>1, DiffType DEF VenueEmit, TypeOK
      <3>2. CASE socket = <<>>
        <4>1. socket'[1] = Diff(sent + 1, now)
          BY <3>1, <3>2
        <4>2. Diff(sent + 1, now).first = sent + 1
          BY DEF Diff
        <4>3. QED
          BY <1>0, <3>1, <3>2, <4>1, <4>2 DEF Delivered
      <3>3. CASE socket # <<>>
        <4>1. socket'[1] = socket[1]
          BY <1>0, <3>1, <3>3, DiffType DEF TypeOK
        <4>2. QED
          BY <3>1, <3>3, <4>1 DEF Delivered
      <3>4. QED
        BY <3>2, <3>3
    <2>2. CASE Connect
      BY <2>2 DEF Connect, SendSubscription, Delivered
    <2>3. CASE ~ VenueEmit /\ ~ Connect
      BY <1>3, <2>3, StreamUntouched DEF Delivered
    <2>4. QED
      BY <2>1, <2>2, <2>3
  <1>4. QED
    BY <1>1, <1>2, <1>3

\* The loop's bounds on what it has read and on what it holds.
LEMMA DeliveredBound ==
  ASSUME TypeOK, Stream, sub = "active"
  PROVE  Delivered \in Nat /\ Delivered <= now /\ from - 1 <= Delivered
  <1>0. /\ now \in Nat /\ sent \in Nat /\ from \in Nat /\ socket \in Seq(DepthUpdate)
        /\ from > 1 /\ from - 1 <= sent /\ sent <= now
    BY VenueAssumption DEF TypeOK, VenueTypeOK, Ids, Stream
  <1>1. CASE socket = <<>>
    BY <1>0, <1>1 DEF Delivered
  <1>2. CASE socket # <<>>
    <2>1. 1 \in 1 .. Len(socket) /\ socket[1] \in DepthUpdate
      BY <1>0, <1>2
    <2>2. socket[1].first <= socket[1].last /\ from <= socket[1].first
          /\ socket[1].last \in 1 .. sent
      BY <2>1 DEF Stream
    <2>3. socket[1].first \in Nat
      BY <2>1 DEF DepthUpdate
    <2>4. QED
      BY <1>0, <1>2, <2>2, <2>3 DEF Delivered
  <1>3. QED
    BY <1>1, <1>2

-----------------------------------------------------------------------------
\* The client's protocol with the venue.

\* The snapshot, once it is there, stays, and tells of the venue's book of its id.
LEMMA SnapshotStep ==
  ASSUME TypeOK, Stream, Protocol, [Next]_vars
  PROVE  /\ rest.st = "replied" => rest' = rest /\ SnapId' = SnapId
         /\ rest'.st = "replied" /\ rest.st # "replied" => VenueReply
         /\ VenueReply => rest'.st = "replied" /\ SnapId' = now
                          /\ (~ overlay => rest'.book.lv = Cut(hist[now]))
  <1>1. ASSUME VenueReply
        PROVE  /\ rest'.st = "replied" /\ SnapId' = now /\ rest.st = "asked"
               /\ ~ overlay => rest'.book.lv = Cut(hist[now])
    <2>1. PICK lv \in Asked :
            rest' = [st |-> "replied", book |-> [id |-> now, lv |-> Cut(lv)]]
      BY <1>1 DEF VenueReply
    <2>2. ~ overlay => lv = hist[now]
      BY <2>1 DEF Asked
    <2>3. QED
      BY <1>1, <2>1, <2>2 DEF VenueReply, SnapId
  <1>2. ASSUME VenueRefuse \/ Fetch
        PROVE  rest.st # "replied" /\ rest'.st # "replied"
    <2>1. CASE VenueRefuse
      BY <2>1 DEF VenueRefuse, TypeOK, VenueTypeOK, Answer
    <2>2. CASE Fetch
      BY <2>2 DEF Fetch, SendRequest, Protocol, Answered, Progress, TypeOK, VenueTypeOK, Answer
    <2>3. QED
      BY <1>2, <2>1, <2>2
  <1>3. ASSUME ~ VenueReply, ~ VenueRefuse, ~ Fetch
        PROVE  rest' = rest
    <2>1. CASE Venue
      BY <1>3, <2>1 DEF Venue, VenueNext, VenueChange, VenueActivate, VenueEmit,
         VenuePing, VenueClose
    <2>2. CASE UNCHANGED vars
      BY <2>2 DEF vars, venueVars
    <2>3. CASE Connect \/ IngestDiff \/ IngestControl
      BY <2>3 DEF Connect, IngestDiff, IngestControl, SendSubscription, ReadDiff,
         ReadControl
    <2>4. CASE ConnectFails \/ Load \/ LoadFails \/ Finish \/ CtrlC
      BY <2>4 DEF ConnectFails, Load, LoadFails, Finish, CtrlC, venueVars
    <2>5. QED
      BY <1>3, <2>1, <2>2, <2>3, <2>4 DEF Next
  <1>4. QED
    BY <1>1, <1>2, <1>3 DEF SnapId

LEMMA AnsweredStep ==
  ASSUME TypeOK, Stream, Protocol, [Next]_vars
  PROVE  Answered'
  <1>1. now \in Nat /\ now >= 1 /\ sent \in Nat /\ from \in Nat
    BY VenueAssumption DEF TypeOK, VenueTypeOK, Ids
  <1>2. CASE VenueReply
    <2>1. /\ rest'.st = "replied" /\ SnapId' = now /\ rest.st = "asked"
          /\ ~ overlay => rest'.book.lv = Cut(hist[now])
          /\ UNCHANGED <<now, hist, sub, from, open, prompt, overlay>>
          /\ prompt => sub # "sent" \/ ~ open
      BY <1>2, SnapshotStep DEF VenueReply
    <2>2. sub = "sent" \/ sub = "active"
      BY <2>1 DEF Protocol, Answered, Progress, TypeOK, VenueTypeOK
    <2>3. sub = "active" => from <= now + 1
      BY <1>1 DEF Stream
    <2>4. Cut(hist[now])' = Cut(hist[now])
      BY <2>1 DEF Cut, Reach
    <2>5. QED
      BY <1>1, <2>1, <2>2, <2>3, <2>4 DEF Answered
  <1>3. CASE rest.st # "replied" /\ ~ VenueReply
    BY <1>3, SnapshotStep DEF Answered
  <1>4. CASE rest.st = "replied" /\ ~ VenueReply
    <2>1. rest' = rest /\ SnapId' = SnapId
      BY <1>4, SnapshotStep
    <2>2. SnapId \in 1 .. now /\ (~ overlay => rest.book.lv = Cut(hist[SnapId]))
      BY <1>4 DEF Protocol, Answered, Progress
    <2>3. now' \in Nat /\ now' >= now /\ hist'[SnapId] = hist[SnapId]
      <3>1. now' \in Nat
        BY TypeStep, VenueAssumption DEF TypeOK, VenueTypeOK, Ids
      <3>2. QED
        BY <2>2, <3>1, PastIsFixed
    <2>4. SnapId' \in 1 .. now' /\ (~ overlay => rest'.book.lv = Cut(hist[SnapId])')
      <3>1. Cut(hist[SnapId])' = Cut(hist[SnapId])
        BY <2>1, <2>3 DEF Cut, Reach
      <3>2. QED
        BY <1>1, <2>1, <2>2, <2>3, <3>1
    <2>5. prompt' = prompt /\ overlay' = overlay /\ (sub' = "active" \/ sub' = sub)
          /\ (sub = "active" => from' = from /\ sub' = "active")
          /\ (sub = "sent" /\ ~ open => sub' = sub /\ ~ open')
      <3>1. CASE Venue
        BY <1>4, <3>1 DEF Venue, VenueNext, VenueChange, VenueActivate, VenueEmit,
           VenuePing, VenueClose, VenueRefuse
      <3>2. CASE UNCHANGED vars
        BY <3>2 DEF vars, venueVars
      <3>3. CASE Connect
        BY <1>4, <3>3 DEF Connect, Protocol, Answered, Progress
      <3>4. CASE Fetch \/ IngestDiff \/ IngestControl
        BY <3>4 DEF Fetch, IngestDiff, IngestControl, SendRequest, ReadDiff, ReadControl
      <3>5. CASE ConnectFails \/ Load \/ LoadFails \/ Finish \/ CtrlC
        BY <3>5 DEF ConnectFails, Load, LoadFails, Finish, CtrlC, venueVars
      <3>6. QED
        BY <3>1, <3>2, <3>3, <3>4, <3>5 DEF Next
    <2>6. prompt => \/ sub = "active" /\ from <= SnapId + 1
                    \/ sub = "sent" /\ ~ open
      BY <1>4 DEF Protocol, Answered, Progress
    <2>7. QED
      BY <2>1, <2>4, <2>5, <2>6 DEF Answered
  <1>5. QED
    BY <1>2, <1>3, <1>4

LEMMA ProgressStep ==
  ASSUME TypeOK, Protocol, [Next]_vars
  PROVE  Progress'
  <1>. USE DEF Protocol, Answered, Progress
  <1>1. CASE Venue
    <2>1. UNCHANGED <<book, handler, pc>>
      BY <1>1 DEF Venue
    <2>2. CASE VenueReply
      BY <2>1, <2>2 DEF VenueReply
    <2>3. CASE VenueRefuse
      BY <2>1, <2>3 DEF VenueRefuse, TypeOK, VenueTypeOK, Answer
    <2>4. CASE VenueActivate
      BY <2>1, <2>4 DEF VenueActivate
    <2>5. CASE VenueChange \/ VenueEmit \/ VenuePing \/ VenueClose
      BY <2>1, <2>5 DEF VenueChange, VenueEmit, VenuePing, VenueClose
    <2>6. QED
      BY <1>1, <2>2, <2>3, <2>4, <2>5 DEF Venue, VenueNext
  <1>2. CASE Connect
    BY <1>2 DEF Connect, SendSubscription
  <1>3. CASE Fetch
    BY <1>3 DEF Fetch, SendRequest, TypeOK, VenueTypeOK, Answer
  <1>4. CASE Load
    BY <1>4 DEF Load, venueVars
  <1>5. CASE LoadFails
    BY <1>5 DEF LoadFails, venueVars
  <1>6. CASE IngestDiff
    BY <1>6 DEF IngestDiff, ReadDiff
  <1>7. CASE IngestControl
    BY <1>7 DEF IngestControl, ReadControl
  <1>8. CASE Finish \/ ConnectFails
    BY <1>8 DEF Finish, ConnectFails, venueVars
  <1>9. CASE CtrlC \/ UNCHANGED vars
    BY <1>9 DEF CtrlC, vars, venueVars
  <1>10. QED
    BY <1>1, <1>2, <1>3, <1>4, <1>5, <1>6, <1>7, <1>8, <1>9 DEF Next

LEMMA ProtocolStep ==
  ASSUME TypeOK, Stream, Protocol, [Next]_vars
  PROVE  Protocol'
  <1>1. pc' \in {"connect", "fetch", "build"} /\ sub' = "active" => Delivered' = from' - 1
    <2>. SUFFICES ASSUME pc' \in {"connect", "fetch", "build"}, sub' = "active"
                  PROVE  Delivered' = from' - 1
      OBVIOUS
    <2>1. CASE VenueActivate
      BY <2>1, DeliveredStep
    <2>2. CASE ~ VenueActivate
      <3>1. ~ IngestDiff /\ ~ Connect /\ pc \in {"connect", "fetch", "build"}
        BY <2>2 DEF IngestDiff, Connect, SendSubscription, Next, Venue, Fetch, Load,
           LoadFails, IngestControl, ConnectFails, Finish, CtrlC, vars
      <3>2. Delivered' = Delivered
        BY <2>2, <3>1, DeliveredStep
      <3>3. sub' = sub /\ from' = from
        <4>1. CASE VenueEmit
          BY <4>1 DEF VenueEmit
        <4>2. CASE ~ VenueEmit
          BY <2>2, <3>1, <4>2, StreamUntouched
        <4>3. QED
          BY <4>1, <4>2
      <3>4. QED
        BY <3>1, <3>2, <3>3 DEF Protocol, Answered, Progress
    <2>3. QED
      BY <2>1, <2>2
  <1>2. QED
    BY <1>1, AnsweredStep, ProgressStep DEF Protocol, Answered, Progress

-----------------------------------------------------------------------------
\* The published book.

\* Its id is one that the venue has reached.
LEMMA BookIdBound ==
  ASSUME IInv, handler = "live"
  PROVE  /\ book.id \in 1 .. now /\ SnapId \in 1 .. now /\ now \in Nat /\ from \in Nat
         /\ sub = "active" => Delivered \in Nat /\ from > 1
  <1>1. now \in Nat /\ SnapId \in 1 .. now /\ from \in Nat
    BY VenueAssumption DEF IInv, TypeOK, VenueTypeOK, Ids, Protocol, Answered, Progress
  <1>2. sub = "active" => Delivered \in Nat /\ Delivered <= now /\ from > 1
    BY DeliveredBound DEF IInv, Stream
  <1>3. \/ book.id = SnapId
        \/ sub = "active" /\ book.id = Delivered /\ Delivered >= from
    BY DEF IInv, CaughtUp
  <1>4. QED
    BY <1>1, <1>2, <1>3

\* A live book is one that Load has just filled or one that was live before.
LEMMA LiveStep ==
  ASSUME IInv, [Next]_vars, handler' = "live"
  PROVE  \/ Load /\ book' = rest.book
         \/ IngestDiff /\ handler = "live"
         \/ handler = "live" /\ book' = book /\ ~ IngestDiff
  <1>1. CASE Load
    <2>1. book = Default /\ rest.book \in Book
      BY <1>1 DEF Load, IInv, Protocol, Progress, TypeOK, VenueTypeOK, Answer
    <2>2. QED
      BY <1>1, <2>1, ExtendDefault DEF Load
  <1>2. CASE IngestDiff
    BY <1>2 DEF IngestDiff
  <1>3. CASE ~ Load /\ ~ IngestDiff
    BY <1>3 DEF Next, Venue, Connect, ConnectFails, Fetch, LoadFails, IngestControl,
       Finish, CtrlC, vars
  <1>4. QED
    BY <1>1, <1>2, <1>3

\* What Load fills the book with.
LEMMA LoadStep ==
  ASSUME IInv, [Next]_vars, Load
  PROVE  /\ book'.id = SnapId' /\ SnapId' \in 1 .. now'
         /\ book'.lv = rest'.book.lv
         /\ sub' = "active" => Delivered' < from' /\ from' \in Nat
         /\ UNCHANGED <<now, hist, chg, sub, from>>
  <1>1. UNCHANGED <<now, hist, chg, sub, from, rest>> /\ SnapId' = SnapId
    BY DEF Load, venueVars, SnapId
  <1>2. book' = rest.book
    <2>1. book = Default /\ rest.book \in Book
      BY DEF Load, IInv, Protocol, Progress, TypeOK, VenueTypeOK, Answer
    <2>2. QED
      BY <2>1, ExtendDefault DEF Load
  <1>3. rest.st = "replied" /\ pc = "build"
    BY DEF Load
  <1>4. SnapId \in 1 .. now
    BY <1>3 DEF IInv, Protocol, Answered
  <1>5. Delivered' = Delivered
    BY DEF Load, venueVars, Delivered
  <1>6. sub = "active" => Delivered < from /\ from \in Nat
    BY <1>3 DEF IInv, Protocol, TypeOK, VenueTypeOK
  <1>7. QED
    BY <1>1, <1>2, <1>4, <1>5, <1>6 DEF SnapId

LEMMA CaughtUpStep ==
  ASSUME IInv, [Next]_vars
  PROVE  CaughtUp'
  <1>0. TypeOK /\ Stream /\ Protocol
    BY DEF IInv
  <1>. USE <1>0
  <1>. SUFFICES ASSUME handler' = "live"
                PROVE  book'.id = IF sub' = "active" /\ Delivered' >= from' /\ Delivered' >= SnapId'
                                  THEN Delivered' ELSE SnapId'
    BY DEF CaughtUp
  <1>1. CASE Load
    <2>1. book'.id = SnapId' /\ (sub' = "active" => Delivered' < from' /\ from' \in Nat)
      BY <1>1, LoadStep
    <2>2. sub' = "active" => Delivered' \in Int
      <3>1. Delivered' = Delivered /\ sub' = sub
        BY <1>1 DEF Load, venueVars, Delivered
      <3>2. QED
        BY <3>1, DeliveredBound
    <2>3. QED
      BY <2>1, <2>2
  <1>2. CASE handler = "live"
    <2>0. /\ book.id \in 1 .. now /\ SnapId \in 1 .. now /\ now \in Nat /\ from \in Nat
          /\ sub = "active" => Delivered \in Nat /\ from > 1
      BY <1>2, BookIdBound
    <2>1. rest.st = "replied" /\ SnapId' = SnapId
      BY <1>2, SnapshotStep DEF Protocol, Progress
    <2>2. book.id = IF sub = "active" /\ Delivered >= from /\ Delivered >= SnapId
                    THEN Delivered ELSE SnapId
      BY <1>2 DEF IInv, CaughtUp
    <2>3. CASE IngestDiff
      <3>1. /\ sub = "active" /\ Head(socket) = socket[1]
            /\ Delivered = socket[1].first - 1 /\ Delivered' = socket[1].last
        BY <2>3, DeliveredStep
      <3>2. /\ sub' = sub /\ from' = from
            /\ book' = Absorb(book, socket[1])
        BY <1>2, <2>3, <3>1 DEF IngestDiff, ReadDiff
      <3>3. socket[1].first <= socket[1].last /\ from <= socket[1].first
            /\ socket[1].first \in Nat /\ socket[1].last \in Nat
        <4>1. socket # <<>> /\ socket \in Seq(DepthUpdate)
          BY <2>3 DEF IngestDiff, ReadDiff, TypeOK, VenueTypeOK
        <4>2. 1 \in 1 .. Len(socket) /\ socket[1] \in DepthUpdate
          BY <4>1
        <4>3. QED
          BY <4>2 DEF Stream, DepthUpdate
      <3>4. book'.id = IF socket[1].last < book.id THEN book.id ELSE socket[1].last
        BY <3>2 DEF Absorb, SkipUpdate
      <3>5. QED
        BY <2>0, <2>1, <2>2, <3>1, <3>2, <3>3, <3>4
    <2>4. CASE VenueActivate
      <3>1. sub' = "active" /\ Delivered' = from' - 1 /\ from' = now + 1 /\ sub # "active"
        BY <2>4, DeliveredStep DEF VenueActivate
      <3>2. book' = book
        BY <2>4, LiveStep DEF Load, IngestDiff, VenueActivate, venueVars, ReadDiff
      <3>3. QED
        BY <2>0, <2>1, <2>2, <3>1, <3>2
    <2>5. CASE ~ IngestDiff /\ ~ VenueActivate
      <3>1. book' = book
        BY <1>2, <2>5, LiveStep DEF Load, IInv, Protocol, Progress
      <3>2. Delivered' = Delivered
        BY <2>5, DeliveredStep
      <3>3. sub' = sub /\ from' = from
        <4>1. ~ Connect
          BY <1>2 DEF Connect, Protocol, Progress
        <4>2. CASE VenueEmit
          BY <4>2 DEF VenueEmit
        <4>3. CASE ~ VenueEmit
          BY <2>5, <4>1, <4>3, StreamUntouched
        <4>4. QED
          BY <4>2, <4>3
      <3>4. QED
        BY <2>1, <2>2, <3>1, <3>2, <3>3
    <2>6. QED
      BY <2>3, <2>4, <2>5
  <1>3. QED
    BY <1>1, <1>2, LiveStep

\* A level whose last change is before i is at j what it was at i.
LEMMA Unchanged ==
  ASSUME History, NEW i \in 1 .. now, NEW j \in 1 .. now, NEW p \in Price,
         i <= j, chg[j][p] <= i
  PROVE  chg[i][p] = chg[j][p] /\ hist[i][p] = hist[j][p]
  BY DEF History

LEMMA LevelwiseStep ==
  ASSUME IInv, [Next]_vars
  PROVE  Levelwise'
  <1>0. TypeOK /\ Stream /\ Protocol /\ History
    BY DEF IInv
  <1>. SUFFICES ASSUME handler' = "live", NEW p \in Price
                PROVE  \/ /\ book'.lv[p] = rest'.book.lv[p]
                          /\ ~ (/\ sub' = "active" /\ chg'[book'.id][p] >= from'
                                /\ chg'[book'.id][p] > SnapId')
                       \/ /\ book'.lv[p] = hist'[book'.id][p]
                          /\ sub' = "active" /\ chg'[book'.id][p] >= from'
    BY DEF Levelwise, Covered
  <1>1. CASE Load
    <2>1. /\ book'.id = SnapId' /\ SnapId' \in 1 .. now'
          /\ book'.lv = rest'.book.lv
      BY <1>1, LoadStep
    <2>2. chg'[SnapId'][p] <= SnapId' /\ chg'[SnapId'][p] \in Int
      <3>1. History' /\ TypeOK'
        BY <1>0, HistoryStep, TypeStep
      <3>2. now' \in Nat /\ SnapId' \in Ids
        BY <2>1, <3>1, VenueAssumption DEF TypeOK, VenueTypeOK, Ids
      <3>3. chg'[SnapId'][p] \in Ids
        BY <3>1, <3>2 DEF TypeOK, VenueTypeOK
      <3>4. QED
        BY <2>1, <3>1, <3>2, <3>3, VenueAssumption DEF History, Ids
    <2>3. QED
      BY <2>1, <2>2
  <1>2. CASE handler = "live"
    <2>0. /\ book.id \in 1 .. now /\ SnapId \in 1 .. now /\ now \in Nat /\ from \in Nat
          /\ sub = "active" => Delivered \in Nat /\ from > 1
      BY <1>2, BookIdBound
    <2>1. SnapId' = SnapId /\ rest' = rest
      BY <1>0, <1>2, SnapshotStep DEF Protocol, Progress
    <2>2. \/ /\ book.lv[p] = rest.book.lv[p]
             /\ ~ (sub = "active" /\ chg[book.id][p] >= from /\ chg[book.id][p] > SnapId)
          \/ /\ book.lv[p] = hist[book.id][p]
             /\ sub = "active" /\ chg[book.id][p] >= from
      BY <1>2 DEF IInv, Levelwise, Covered
    <2>3. \A i \in 1 .. now : hist'[i] = hist[i] /\ chg'[i] = chg[i]
      BY <1>0, PastIsFixed
    <2>4. \A i \in 1 .. now : chg[i][p] \in Nat /\ chg[i][p] <= i
      <3>1. \A i \in 1 .. now : chg[i][p] <= i
        BY <2>0, <1>0 DEF History
      <3>2. \A i \in 1 .. now : i \in Ids
        BY <1>0, VenueAssumption DEF TypeOK, VenueTypeOK, Ids
      <3>3. chg \in [Ids -> [Price -> Ids]]
        BY <1>0 DEF TypeOK, VenueTypeOK
      <3>4. \A i \in 1 .. now : chg[i][p] \in Ids
        BY <3>2, <3>3
      <3>5. QED
        BY <3>1, <3>4, VenueAssumption DEF Ids
    <2>5. CASE IngestDiff
      <3> DEFINE u == socket[1]
      <3>1. /\ sub = "active" /\ Head(socket) = u
            /\ u = Diff(u.first, u.last)
            /\ Delivered = u.first - 1
        BY <1>0, <2>5, DeliveredStep
      <3>2. /\ UNCHANGED <<now, hist, chg, sub, from>>
            /\ book' = Absorb(book, u)
        BY <1>2, <2>5, <3>1 DEF IngestDiff, ReadDiff
      <3>3. /\ u.first <= u.last /\ from <= u.first /\ u.last <= now
            /\ u.first \in Nat /\ u.last \in Nat
        <4>1. socket # <<>> /\ socket \in Seq(DepthUpdate)
          BY <1>0, <2>5 DEF IngestDiff, ReadDiff, TypeOK, VenueTypeOK
        <4>2. 1 \in 1 .. Len(socket) /\ u \in DepthUpdate
          BY <4>1
        <4>3. u.first <= u.last /\ from <= u.first /\ u.last \in 1 .. sent
          BY <1>0, <4>2 DEF Stream
        <4>4. sent <= now /\ sent \in Nat
          BY <1>0, <3>1, VenueAssumption DEF Stream, TypeOK, VenueTypeOK, Ids
        <4>5. u.first \in Nat /\ u.last \in Nat
          BY <4>2 DEF DepthUpdate
        <4>6. QED
          BY <2>0, <4>3, <4>4, <4>5
      <3>4. CASE u.last < book.id
        <4>1. book' = book
          BY <3>2, <3>4 DEF Absorb, SkipUpdate
        <4>2. QED
          BY <2>1, <2>2, <3>2, <4>1
      <3>5. CASE ~ (u.last < book.id)
        <4>1. book'.id = u.last /\ book'.lv[p] = IF p \in u.touched THEN u.lv[p] ELSE book.lv[p]
          BY <3>2, <3>5 DEF Absorb, SkipUpdate, SetLevels
        <4>2. u.lv = hist[u.last] /\ (p \in u.touched <=> chg[u.last][p] >= u.first)
          BY <3>1 DEF Diff
        <4>3. u.last \in 1 .. now /\ chg[u.last][p] \in Nat
          BY <2>0, <2>4, <3>3, <3>5
        <4>4. CASE chg[u.last][p] >= u.first
          BY <2>0, <3>1, <3>2, <3>3, <4>1, <4>2, <4>3, <4>4
        <4>5. CASE chg[u.last][p] < u.first
          <5>0. book'.lv[p] = book.lv[p]
            BY <3>3, <4>1, <4>2, <4>3, <4>5
          <5>1. book.id = IF Delivered >= from /\ Delivered >= SnapId
                          THEN Delivered ELSE SnapId
            BY <1>2, <3>1 DEF IInv, CaughtUp
          <5>2. CASE book.id = Delivered /\ Delivered >= from
            <6>1. book.id <= u.last /\ chg[u.last][p] <= book.id
              BY <2>0, <3>1, <3>3, <4>3, <4>5, <5>2
            <6>2. chg[book.id][p] = chg[u.last][p] /\ hist[book.id][p] = hist[u.last][p]
              BY <1>0, <2>0, <4>3, <6>1, Unchanged
            <6>3. QED
              BY <2>1, <2>2, <3>1, <3>2, <4>1, <5>0, <6>2
          <5>3. CASE book.id = SnapId /\ Delivered < from
            <6>1. chg[u.last][p] < from
              BY <2>0, <3>1, <3>3, <4>3, <4>5, <5>3
            <6>2. chg[SnapId][p] < from
              <7>1. chg[u.last][p] <= SnapId => chg[SnapId][p] = chg[u.last][p]
                BY <1>0, <2>0, <3>3, <3>5, <4>3, <5>3, Unchanged
              <7>2. chg[SnapId][p] \in Nat /\ chg[SnapId][p] <= SnapId
                BY <2>0, <2>4
              <7>3. QED
                BY <2>0, <4>3, <6>1, <7>1, <7>2
            <6>3. book.lv[p] = rest.book.lv[p]
              BY <2>0, <2>2, <2>4, <5>3, <6>2
            <6>4. QED
              BY <2>0, <2>1, <3>1, <3>2, <4>1, <4>3, <5>0, <6>1, <6>3
          <5>4. CASE book.id = SnapId /\ Delivered < SnapId
            <6>1. SnapId <= u.last /\ chg[u.last][p] <= SnapId
              BY <2>0, <3>1, <3>3, <3>5, <4>3, <4>5, <5>4
            <6>2. chg[SnapId][p] = chg[u.last][p] /\ hist[SnapId][p] = hist[u.last][p]
              BY <1>0, <2>0, <4>3, <6>1, Unchanged
            <6>3. QED
              BY <2>1, <2>2, <3>1, <3>2, <4>1, <5>0, <5>4, <6>2
          <5>5. QED
            BY <2>0, <3>1, <5>1, <5>2, <5>3, <5>4
        <4>6. QED
          BY <3>3, <4>3, <4>4, <4>5
      <3>6. QED
        BY <3>4, <3>5
    <2>6. CASE VenueActivate
      <3>1. sub' = "active" /\ from' = now + 1 /\ sub # "active"
        BY <1>0, <2>6, DeliveredStep DEF VenueActivate
      <3>2. book' = book
        BY <2>6, LiveStep DEF Load, IngestDiff, VenueActivate, venueVars, ReadDiff
      <3>3. chg'[book.id][p] < from' /\ chg'[book.id] = chg[book.id]
        BY <2>0, <2>3, <2>4, <3>1
      <3>4. QED
        BY <2>0, <2>1, <2>2, <2>3, <2>4, <3>1, <3>2, <3>3
    <2>7. CASE ~ IngestDiff /\ ~ VenueActivate
      <3>1. book' = book
        BY <1>0, <1>2, <2>7, LiveStep DEF Load, Protocol, Progress
      <3>2. sub' = sub /\ from' = from
        <4>1. ~ Connect
          BY <1>0, <1>2 DEF Connect, Protocol, Progress
        <4>2. CASE VenueEmit
          BY <4>2 DEF VenueEmit
        <4>3. CASE ~ VenueEmit
          BY <2>7, <4>1, <4>3, StreamUntouched
        <4>4. QED
          BY <4>2, <4>3
      <3>3. QED
        BY <2>0, <2>1, <2>2, <2>3, <3>1, <3>2
    <2>8. QED
      BY <2>5, <2>6, <2>7
  <1>3. QED
    BY <1>1, <1>2, LiveStep

-----------------------------------------------------------------------------
LEMMA InvStep == IInv /\ [Next]_vars => IInv'
  <1>. SUFFICES ASSUME IInv, [Next]_vars
                PROVE  IInv'
    OBVIOUS
  <1>1. TypeOK /\ TypeOK'
    BY TypeStep DEF IInv
  <1>2. History' /\ Stream' /\ Protocol'
    BY <1>1, HistoryStep, StreamStep, ProtocolStep DEF IInv
  <1>3. CaughtUp' /\ Levelwise'
    BY CaughtUpStep, LevelwiseStep
  <1>4. QED
    BY <1>1, <1>2, <1>3 DEF IInv

\* The inductive invariant holds.
THEOREM Invariance == Spec => []IInv
  BY InvInit, InvStep, PTL DEF Spec

\* The published id is the last id read, or the snapshot's while that is newer: no
\* diff is lost to the staleness test of DepthUpdate::skip_update.
THEOREM FeedCaughtUp == Spec => []CaughtUp
  <1>1. IInv => CaughtUp
    BY DEF IInv
  <1>2. QED
    BY <1>1, Invariance, PTL

LEMMA UnseenOnly == IInv => OnlyUnseenLevelsStale
  <1>. SUFFICES ASSUME IInv, handler = "live", NEW p \in Price,
                       ~ (sub = "active" /\ chg[book.id][p] \in Gap)
                PROVE  \/ p \notin Told /\ chg[book.id][p] <= SnapId
                             /\ book.lv[p] = rest.book.lv[p]
                       \/ book.lv[p] = hist[book.id][p]
    BY DEF OnlyUnseenLevelsStale
  <1>0. History /\ CaughtUp
    BY DEF IInv
  <1>1. /\ book.id \in 1 .. now /\ SnapId \in 1 .. now /\ now \in Nat /\ from \in Nat
        /\ sub = "active" => Delivered \in Nat /\ from > 1
    BY BookIdBound
  <1>2. book.id >= SnapId
    <2>1. sub = "active" => Delivered \in Int
      BY <1>1
    <2>2. QED
      BY <1>0, <1>1, <2>1 DEF CaughtUp
  <1>3. chg[book.id][p] \in Nat
    <2>1. book.id \in Ids
      <3>1. now \in Ids
        BY DEF IInv, TypeOK, VenueTypeOK
      <3>2. QED
        BY <1>1, <3>1, VenueAssumption DEF Ids
    <2>2. chg \in [Ids -> [Price -> Ids]]
      BY DEF IInv, TypeOK, VenueTypeOK
    <2>3. chg[book.id][p] \in Ids
      BY <2>1, <2>2
    <2>4. QED
      BY <2>3, VenueAssumption DEF Ids
  <1>4. \/ /\ book.lv[p] = rest.book.lv[p]
           /\ ~ (sub = "active" /\ chg[book.id][p] >= from /\ chg[book.id][p] > SnapId)
        \/ book.lv[p] = hist[book.id][p]
    BY DEF IInv, Levelwise, Covered
  <1>5. SUFFICES ASSUME book.lv[p] = rest.book.lv[p],
                        ~ (/\ sub = "active" /\ chg[book.id][p] >= from
                           /\ chg[book.id][p] > SnapId),
                        p \in Told \/ chg[book.id][p] > SnapId
                 PROVE  book.lv[p] = hist[book.id][p]
    BY <1>1, <1>3, <1>4
  <1>6. chg[book.id][p] <= SnapId
    <2>1. CASE sub = "active"
      BY <1>1, <1>3, <1>5, <2>1 DEF Gap
    <2>2. CASE sub # "active"
      <3>1. book.id = SnapId
        BY <1>0, <2>2 DEF CaughtUp
      <3>2. QED
        BY <1>0, <1>1, <3>1 DEF History
    <2>3. QED
      BY <2>1, <2>2
  <1>7. hist[SnapId][p] = hist[book.id][p]
    BY <1>0, <1>1, <1>2, <1>6, Unchanged
  <1>8. p \in Told
    BY <1>1, <1>3, <1>5, <1>6
  <1>9. /\ p \in Reach(hist[SnapId])
        /\ rest.book.lv = Cut(hist[SnapId])
    <2>1. ~ overlay /\ p \in Reach(hist[SnapId])
      BY <1>8 DEF Told
    <2>2. rest.st = "replied"
      BY DEF IInv, Protocol, Progress
    <2>3. QED
      BY <2>1, <2>2 DEF IInv, Protocol, Answered
  <1>10. rest.book.lv[p] = hist[SnapId][p]
    <2>1. SnapId \in Ids
      BY <1>1, VenueAssumption DEF IInv, TypeOK, VenueTypeOK, Ids
    <2>2. hist[SnapId] \in Levels
      BY <2>1 DEF IInv, TypeOK, VenueTypeOK
    <2>3. QED
      BY <1>9, <2>2, CutType
  <1>11. QED
    BY <1>5, <1>7, <1>10

\* absorb_first applies diffs without testing for a gap, and the snapshot is cut off at
\* the request's limit: every level that the snapshot told or that the stream has brought
\* is the venue's all the same, unless it changed in the ids between the two.
THEOREM OnlyUnseenLevelsAreStale == Spec => []OnlyUnseenLevelsStale
  BY UnseenOnly, Invariance, PTL

\* With a venue that acts on a subscription before it answers a later request, every
\* level of the published book that the snapshot told or that changed since is the venue's.
THEOREM PromptVenueIsFollowed == Spec => []PromptVenueBook
  <1>1. IInv => PromptVenueBook
    <2>. SUFFICES ASSUME IInv, prompt, handler = "live", NEW p \in Price,
                         p \in Told \/ chg[book.id][p] > SnapId
                  PROVE  book.lv[p] = hist[book.id][p]
      BY DEF PromptVenueBook
    <2>1. sub = "active" => Gap = {}
      <3>1. CASE sub = "active"
        <4>1. from <= SnapId + 1
          BY <3>1 DEF IInv, Protocol, Answered, Progress
        <4>2. from \in Nat /\ SnapId \in Nat
          BY BookIdBound
        <4>3. QED
          BY <4>1, <4>2 DEF Gap
      <3>2. QED
        BY <3>1
    <2>2. ~ (p \notin Told /\ chg[book.id][p] <= SnapId)
      <3>1. book.id \in 1 .. now /\ now \in Ids /\ SnapId \in Nat
        BY BookIdBound DEF IInv, TypeOK, VenueTypeOK
      <3>2. book.id \in Ids
        BY <3>1, VenueAssumption DEF Ids
      <3>3. chg[book.id][p] \in Nat
        <4>1. chg \in [Ids -> [Price -> Ids]]
          BY DEF IInv, TypeOK, VenueTypeOK
        <4>2. chg[book.id][p] \in Ids
          BY <3>2, <4>1
        <4>3. QED
          BY <4>2, VenueAssumption DEF Ids
      <3>4. QED
        BY <3>1, <3>3
    <2>3. QED
      BY <2>1, <2>2, UnseenOnly DEF OnlyUnseenLevelsStale
  <1>2. QED
    BY <1>1, Invariance, PTL

\* No step takes the published book back to an older id.
THEOREM IdMonotone == Spec => IdNeverGoesBack
  <1>1. IInv /\ [Next]_vars => [book'.id >= book.id]_book
    <2>. SUFFICES ASSUME IInv, [Next]_vars, book' # book
                  PROVE  book'.id >= book.id
      OBVIOUS
    <2>1. CASE Load
      <3>1. book = Default /\ rest.book \in Book
        BY <2>1 DEF Load, IInv, Protocol, Progress, TypeOK, VenueTypeOK, Answer
      <3>2. QED
        BY <2>1, <3>1, ExtendDefault DEF Load, Book, Default
    <2>2. CASE IngestDiff
      <3>1. Head(socket) \in DepthUpdate
        BY <2>2 DEF IngestDiff, ReadDiff, IInv, TypeOK, VenueTypeOK
      <3>2. QED
        BY <2>2, <3>1, AbsorbRaisesId DEF IngestDiff, IInv, TypeOK
    <2>3. QED
      BY <2>1, <2>2 DEF Next, Venue, Connect, ConnectFails, Fetch, LoadFails,
         IngestControl, Finish, CtrlC, vars
  <1>2. QED
    BY <1>1, Invariance, PTL DEF Spec, IdNeverGoesBack

-----------------------------------------------------------------------------
\* The routing of frames.

\* Who subscribed to the stream of a frame.
SubscriberOf(f) == [rpi |-> f.stream = "rpiDepth", raw |-> f.raw]

LEMMA SubscribeIsNotSetProperty ==
  ASSUME NEW params PROVE SubscribeTo(params) # SetProperty
<1>1. SubscribeTo(params).method = "SUBSCRIBE" /\ SetProperty.method = "SET_PROPERTY"
  BY DEF SubscribeTo, SetProperty
<1> QED
  BY <1>1

(***************************************************************************)
(* On USD-M futures, whatever mixture of plain and RPI symbols is          *)
(* subscribed over one websocket, a diff reaches the handler of the symbol *)
(* whose subscription brought it, if that was built, and no other: the     *)
(* stream BTCUSDT@depth and its overlay never feed each other's book.      *)
(***************************************************************************)
THEOREM UsdmDiffReachesItsHandler ==
  ASSUME NEW symbols \in Seq(Symbol), NEW writers \in SUBSET Elements(symbols),
         NEW f \in DiffsOf(UsdmMessages(symbols))
  PROVE  /\ SubscriberOf(f) \in Elements(symbols)
         /\ IngestMessage(writers, f) = {SubscriberOf(f)} \cap writers
<1> DEFINE params == {UsdmStream(s) : s \in Elements(symbols)}
           subscribe == SubscribeTo(params)
           stream == [kind |-> f.stream, of |-> [rpi |-> FALSE, raw |-> f.raw]]
<1>1. /\ f \in Frame /\ f.text /\ f.kind = "diff"
      /\ \E i \in DOMAIN UsdmMessages(symbols) : stream \in UsdmMessages(symbols)[i].params
      /\ UsdmMessages(symbols)[1] = SetProperty => f.enveloped
  BY DEF DiffsOf
<1>2. /\ subscribe.params = params /\ SetProperty.params = {}
  BY DEF SubscribeTo, SetProperty
<1>3. UsdmMessages(symbols) = IF \E s \in Elements(symbols) : s.rpi
                              THEN <<SetProperty, subscribe>> ELSE <<subscribe>>
  BY DEF UsdmMessages
<1> HIDE DEF subscribe
<1>4. stream \in params
  BY <1>1, <1>2, <1>3
<1>5. PICK s \in Elements(symbols) : stream = UsdmStream(s)
  BY <1>4
<1>6. s \in Symbol
  BY DEF Elements
<1>7. /\ f.raw = s.raw
      /\ f.stream = IF s.rpi THEN "rpiDepth" ELSE "depth"
  BY <1>5 DEF UsdmStream, Bare
<1>8. (f.stream = "rpiDepth") = s.rpi
  BY <1>6, <1>7 DEF Symbol
<1>9. SubscriberOf(f) = s
  BY <1>6, <1>7, <1>8 DEF SubscriberOf, Symbol
<1>10. s.rpi => f.enveloped
  BY <1>1, <1>3
<1>11. f.enveloped \in BOOLEAN
  BY <1>1 DEF Frame
<1>12. ParseDepthBytes(f) = {SubscriberOf(f)}
  <2>1. (f.enveloped /\ f.stream = "rpiDepth") = (f.stream = "rpiDepth")
    BY <1>8, <1>10, <1>11
  <2> QED
    BY <1>1, <2>1 DEF ParseDepthBytes, SubscriberOf
<1> QED
  BY <1>1, <1>5, <1>9, <1>12 DEF IngestMessage

(***************************************************************************)
(* On spot, which has no overlays, a diff reaches the handler of its       *)
(* symbol, enveloped or not.                                               *)
(***************************************************************************)
THEOREM SpotDiffReachesItsHandler ==
  ASSUME NEW symbols \in Seq(Symbol), NEW writers \in SUBSET Elements(symbols),
         NEW f \in DiffsOf(SpotMessages(symbols))
  PROVE  /\ SubscriberOf(f) \in Elements(symbols)
         /\ IngestMessage(writers, f) = {SubscriberOf(f)} \cap writers
<1> DEFINE params == {[kind |-> "depth", of |-> s] : s \in Elements(symbols)}
           stream == [kind |-> f.stream, of |-> [rpi |-> FALSE, raw |-> f.raw]]
<1>1. /\ f \in Frame /\ f.text /\ f.kind = "diff"
      /\ \E i \in DOMAIN SpotMessages(symbols) : stream \in SpotMessages(symbols)[i].params
  BY DEF DiffsOf
<1>2. SpotMessages(symbols) = <<SubscribeTo(params)>> /\ SubscribeTo(params).params = params
  BY DEF SpotMessages, SubscribeTo
<1>3. stream \in params
  BY <1>1, <1>2
<1>4. PICK s \in Elements(symbols) : stream = [kind |-> "depth", of |-> s]
  BY <1>3
<1>5. f.stream = "depth" /\ s = [rpi |-> FALSE, raw |-> f.raw]
  BY <1>4
<1>6. SubscriberOf(f) = s
  BY <1>5 DEF SubscriberOf
<1>7. ParseDepthBytes(f) = {s}
  <2>1. (f.enveloped /\ f.stream = "rpiDepth") = FALSE
    BY <1>5
  <2> QED
    BY <1>1, <1>5, <2>1 DEF ParseDepthBytes
<1> QED
  BY <1>1, <1>4, <1>6, <1>7 DEF IngestMessage

=============================================================================
