------------------------------ MODULE DepthVenue ------------------------------
(***************************************************************************)
(* What the exchange does for one subscribed symbol, as far as the code in *)
(* src/ relies on it: a book that changes level by level, each change with *)
(* an id of its own; a websocket that carries, once the subscription has   *)
(* been acted on, one diff for every range of ids; and a REST endpoint     *)
(* that answers a depth request with the levels nearest the touch, as many *)
(* as the request's limit asks for.  An RPI overlay (RPI:BTCUSDT) has a    *)
(* book and a diff stream of its own, but its request names the plain      *)
(* symbol and brings that book; one counter numbers both, as the staleness *)
(* test of src/ supposes.  The websocket is a TCP connection: nothing on   *)
(* it is lost or reordered until it closes.                                *)
(* Frames that carry no diff (subscription acknowledgements, pings, frames *)
(* that fail to decode) matter only because they wake the reading loop, so *)
(* they are counted, not ordered.                                          *)
(***************************************************************************)
EXTENDS DepthBook, Sequences, FiniteSets

CONSTANTS
  MaxId,      \* bound: the venue's book stops changing at this id
  Bids,       \* the levels of the bid side; the others are asks
  Limit,      \* `limit` of the depth request: levels of each side in the answer
  Promptness, \* what `prompt` may be
  Overlays    \* what `overlay` may be

ASSUME VenueAssumption ==
  /\ MaxId \in Nat \ {0}
  /\ Promptness \subseteq BOOLEAN /\ Overlays \subseteq BOOLEAN

ASSUME SnapshotAssumption ==
  /\ Price \subseteq Int /\ Bids \subseteq Price
  /\ Limit \in Nat \ {0}

VARIABLES
  now,     \* id of the venue's current book
  hist,    \* hist[i]: the levels of the venue's book at id i, for i <= now
  chg,     \* chg[i][p]: the id at or before i at which level p last changed
  sub,     \* the subscription: not sent, sent, acted on
  from,    \* the first id the diff stream covers, once the subscription is active
  sent,    \* the last id that a diff has covered
  socket,  \* diffs on the websocket, not read yet
  ctl,     \* whether a frame without a diff is waiting on the websocket
  open,    \* whether the venue keeps the websocket open
  rest,    \* the REST depth request and its answer
  prompt,  \* whether the venue acts on a subscription before it answers a later request
  overlay  \* whether the symbol is an RPI overlay

venueVars == <<now, hist, chg, sub, from, sent, socket, ctl, open, rest, prompt, overlay>>

Ids == 0 .. MaxId

Answer == [st : {"idle", "asked", "replied", "failed"}, book : Book]

VenueTypeOK ==
  /\ now \in Ids \ {0}
  /\ hist \in [Ids -> Levels]
  /\ chg \in [Ids -> [Price -> Ids]]
  /\ sub \in {"none", "sent", "active"}
  /\ from \in Nat
  /\ sent \in Ids
  /\ socket \in Seq(DepthUpdate)
  /\ ctl \in BOOLEAN
  /\ open \in BOOLEAN
  /\ rest \in Answer
  /\ prompt \in BOOLEAN
  /\ overlay \in BOOLEAN

\* The venue has been running: its book is at id 1 and may hold anything.
VenueInit ==
  /\ now = 1
  /\ \E lv \in Levels : hist = [i \in Ids |-> lv]
  /\ chg = [i \in Ids |-> [p \in Price |-> 0]]
  /\ sub = "none"
  /\ from = 0
  /\ sent = 0
  /\ socket = <<>>
  /\ ctl = FALSE
  /\ open = TRUE
  /\ rest = [st |-> "idle", book |-> Default]
  /\ prompt \in Promptness
  /\ overlay \in Overlays

\* A trade or an order changes one level of the venue's book.
VenueChange ==
  /\ now < MaxId
  /\ \E p \in Price : \E q \in Qty \ {hist[now][p]} :
       /\ hist' = [hist EXCEPT ![now + 1] = [hist[now] EXCEPT ![p] = q]]
       /\ chg' = [chg EXCEPT ![now + 1] = [chg[now] EXCEPT ![p] = now + 1]]
  /\ now' = now + 1
  /\ UNCHANGED <<sub, from, sent, socket, ctl, open, rest, prompt, overlay>>

\* The venue acts on the subscription and acknowledges it.
VenueActivate ==
  /\ open
  /\ sub = "sent"
  /\ sub' = "active"
  /\ from' = now + 1
  /\ sent' = now
  /\ ctl' = TRUE
  /\ UNCHANGED <<now, hist, chg, socket, open, rest, prompt, overlay>>

\* The diff that takes a book from id i - 1 to id j.
Diff(i, j) ==
  [first |-> i, last |-> j, touched |-> {p \in Price : chg[j][p] >= i}, lv |-> hist[j]]

\* The venue batches everything since the last diff into one diff.
VenueEmit ==
  /\ open
  /\ sub = "active"
  /\ sent < now
  /\ socket' = Append(socket, Diff(sent + 1, now))
  /\ sent' = now
  /\ UNCHANGED <<now, hist, chg, sub, from, ctl, open, rest, prompt, overlay>>

VenuePing ==
  /\ open
  /\ ~ ctl
  /\ ctl' = TRUE
  /\ UNCHANGED <<now, hist, chg, sub, from, sent, socket, open, rest, prompt, overlay>>

VenueClose ==
  /\ open
  /\ open' = FALSE
  /\ UNCHANGED <<now, hist, chg, sub, from, sent, socket, ctl, rest, prompt, overlay>>

\* Level q is on the side of p and nearer the touch.
Nearer(q, p) ==
  \/ q \in Bids /\ p \in Bids /\ q > p
  \/ q \notin Bids /\ p \notin Bids /\ q < p

\* The levels that the Limit best ones of each side leave no doubt about.
Reach(lv) == {p \in Price : Cardinality({q \in Price : lv[q] # 0 /\ Nearer(q, p)}) < Limit}

\* The Limit best levels of each side.
Cut(lv) == [p \in Price |-> IF p \in Reach(lv) THEN lv[p] ELSE 0]

\* What the symbol's request may find: the book itself, and for an overlay another one.
Asked == IF overlay THEN Levels ELSE {hist[now]}

\* The REST endpoint answers with the best levels of this moment.
VenueReply ==
  /\ rest.st = "asked"
  /\ prompt => sub # "sent" \/ ~ open
  /\ \E lv \in Asked : rest' = [st |-> "replied", book |-> [id |-> now, lv |-> Cut(lv)]]
  /\ UNCHANGED <<now, hist, chg, sub, from, sent, socket, ctl, open, prompt, overlay>>

\* The REST endpoint refuses (rate limit, unknown symbol) or cannot be reached.
VenueRefuse ==
  /\ rest.st = "asked"
  /\ rest' = [rest EXCEPT !.st = "failed"]
  /\ UNCHANGED <<now, hist, chg, sub, from, sent, socket, ctl, open, prompt, overlay>>

VenueNext ==
  \/ VenueChange
  \/ VenueActivate
  \/ VenueEmit
  \/ VenuePing
  \/ VenueClose
  \/ VenueReply
  \/ VenueRefuse

-----------------------------------------------------------------------------
\* What the client does to the venue: the calls of the actions that extend this module.

\* subscribe(): the SUBSCRIBE message is on the wire.
SendSubscription ==
  /\ sub' = "sent"
  /\ UNCHANGED <<now, hist, chg, from, sent, socket, ctl, open, rest, prompt, overlay>>

\* reqwest::get(rest_api_url)
SendRequest ==
  /\ rest' = [rest EXCEPT !.st = "asked"]
  /\ UNCHANGED <<now, hist, chg, sub, from, sent, socket, ctl, open, prompt, overlay>>

\* StreamExt::next() yields a diff, or a frame that carries none.
ReadDiff ==
  /\ socket # <<>>
  /\ socket' = Tail(socket)
  /\ UNCHANGED <<now, hist, chg, sub, from, sent, ctl, open, rest, prompt, overlay>>

ReadControl ==
  /\ ctl
  /\ ctl' = FALSE
  /\ UNCHANGED <<now, hist, chg, sub, from, sent, socket, open, rest, prompt, overlay>>

\* StreamExt::next() yields None.
StreamEnded == ~ open /\ socket = <<>> /\ ~ ctl

=============================================================================
