------------------------------ MODULE UsdmExec ------------------------------
(***************************************************************************)
(* Bookkeeping of a USD-M futures account (crates/binance-usdm-exec).  The  *)
(* venue's user-data websocket carries payloads; ingest_user_data parses a  *)
(* payload into rows, routes each row to the handler of its symbol or to   *)
(* the account handler, and each handler updates its own state, the shared *)
(* account and the outbound channel, one row after the other.  Other       *)
(* threads may lock the account between any two steps.                     *)
(***************************************************************************)
EXTENDS Naturals, Sequences, SequencesExt, FiniteSets

CONSTANTS
  Symbol,      \* symbols traded on the account
  Subscribed,  \* the symbols that build_multiplexor was given
  Side,        \* position sides: BOTH, or LONG and SHORT in hedge mode
  Asset,
  Order, SymbolOf,  \* order ids, and the symbol of each
  Amount, Flat,     \* texts of amounts; those that is_position_closed calls closed
  MaxTime,          \* bound: event times of margin calls are 1..MaxTime
  MaxPayloads,      \* bound: payloads that the venue sends
  MaxRows           \* bound: balance rows, and position rows, of an ACCOUNT_UPDATE

ASSUME SubscribedAssumption == Subscribed \subseteq Symbol
ASSUME OrderAssumption == SymbolOf \in [Order -> Symbol]
ASSUME FlatAssumption == Flat \subseteq Amount
ASSUME BoundsAssumption == MaxTime \in Nat /\ MaxPayloads \in Nat /\ MaxRows \in Nat

\* ACCOUNT_ROUTING_ID is no symbol.
Account == "__account__"
ASSUME AccountAssumption == Account \notin Symbol

VARIABLES
  held,      \* the venue's truth: balances, positions and orders it has told
  socket,    \* payloads on their way
  sent,      \* number of payloads sent so far
  pending,   \* rows of the payload being ingested, the next one first
  applied,   \* the first of them is applied and not yet forwarded
  writers,   \* MonitorMultiplexor::writers: state of each handler
  account,   \* the shared UsdmAccountBookkeeping
  outbound,  \* updates sent on the outbound channel
  skipped    \* keys whose last row ingest_message left out

vars == <<held, socket, sent, pending, applied, writers, account, outbound, skipped>>

-----------------------------------------------------------------------------
Leg == Symbol \X Side
OpenStatus == {"NEW", "PARTIALLY_FILLED"}
Status == OpenStatus \cup {"FILLED", "CANCELED"}

OrderTrade == [kind : {"order"}, key : Order, status : Status]
PositionChange == [kind : {"position"}, key : Leg, amount : Amount]
BalanceChange == [kind : {"balance"}, key : Asset, amount : Amount]
MarginCall == [kind : {"margin"}, time : 1..MaxTime, amount : Amount]
ListenKeyExpired == [kind : {"expired"}]
Row == OrderTrade \cup PositionChange \cup BalanceChange \cup MarginCall \cup ListenKeyExpired

NoCall == [time |-> 0]

\* Hash maps are functions of their keys.
Empty == <<>>
MapsOf(K, V) == UNION {[D -> V] : D \in SUBSET K}
Insert(m, k, v) == [x \in DOMAIN m \cup {k} |-> IF x = k THEN v ELSE m[x]]
Delete(m, k) == [x \in DOMAIN m \ {k} |-> m[x]]

SymbolBookkeeping ==
  [open_orders : MapsOf(Order, OpenStatus), positions : MapsOf(Leg, Amount \ Flat),
   call : MarginCall \cup {NoCall}]

AccountBookkeeping ==
  [balances : MapsOf(Asset, Amount), positions : MapsOf(Leg, Amount \ Flat),
   call : MarginCall \cup {NoCall}]

TypeOK ==
  /\ held \in [orders : MapsOf(Order, Status), positions : MapsOf(Leg, Amount),
               balances : MapsOf(Asset, Amount)]
  /\ socket \in Seq([rows : Seq(Row), valid : BOOLEAN])
  /\ sent \in 0..MaxPayloads
  /\ applied \in BOOLEAN
  /\ applied => pending # <<>>
  /\ pending \in Seq(Row)
  /\ outbound \in Seq(Row)
  /\ writers \in [Subscribed \cup {Account} -> SymbolBookkeeping]
  /\ account \in AccountBookkeeping
  /\ \A k \in skipped : k[1] \in {"order", "position", "balance"}

Init ==
  /\ held = [orders |-> Empty, positions |-> Empty, balances |-> Empty]
  /\ socket = <<>>
  /\ sent = 0
  /\ pending = <<>>
  /\ applied = FALSE
  /\ writers = [id \in Subscribed \cup {Account} |->
                  [open_orders |-> Empty, positions |-> Empty, call |-> NoCall]]
  /\ account = [balances |-> Empty, positions |-> Empty, call |-> NoCall]
  /\ outbound = <<>>
  /\ skipped = {}

-----------------------------------------------------------------------------
(***************************************************************************)
(* The venue.  A payload holds rows, or is one that parse_user_events      *)
(* rejects.                                                                *)
(***************************************************************************)
clientVars == <<pending, applied, writers, account, outbound, skipped>>

Tell(rows, valid) ==
  /\ sent < MaxPayloads
  /\ sent' = sent + 1
  /\ socket' = Append(socket, [rows |-> rows, valid |-> valid])
  /\ UNCHANGED clientVars

\* An order is accepted, filled in parts, and ends.
TellOrder(o, s) ==
  /\ IF o \in DOMAIN held.orders THEN held.orders[o] \in OpenStatus /\ s # "NEW"
                                 ELSE s = "NEW"
  /\ held' = [held EXCEPT !.orders = Insert(@, o, s)]
  /\ Tell(<<[kind |-> "order", key |-> o, status |-> s]>>, TRUE)

Keys(rows) == {rows[i].key : i \in DOMAIN rows}
RowSeqs(rows) ==
  {s \in BoundedSeq(rows, MaxRows) : Cardinality(Keys(s)) = Len(s)}
Overwrite(m, rows) ==
  [k \in DOMAIN m \cup Keys(rows) |->
     IF k \in Keys(rows) THEN (CHOOSE r \in Range(rows) : r.key = k).amount ELSE m[k]]

\* ACCOUNT_UPDATE: the balances and the position legs that an event changed.
TellAccount(balances, positions) ==
  /\ held' = [held EXCEPT !.balances = Overwrite(@, balances),
                          !.positions = Overwrite(@, positions)]
  /\ Tell(balances \o positions, TRUE)

\* MARGIN_CALL, which may be late or repeated; listenKeyExpired; the
\* acknowledgement of a request; garbage.
TellOther ==
  /\ \/ \E m \in MarginCall : Tell(<<m>>, TRUE)
     \/ Tell(<<[kind |-> "expired"]>>, TRUE)
     \/ \E valid \in BOOLEAN : Tell(<<>>, valid)
  /\ UNCHANGED held

Venue ==
  \/ \E o \in Order, s \in Status : TellOrder(o, s)
  \/ \E b \in RowSeqs(BalanceChange), p \in RowSeqs(PositionChange) : TellAccount(b, p)
  \/ TellOther

-----------------------------------------------------------------------------
\* parse_user_events: an error anywhere in a payload drops all of it.
Parse(payload) == IF payload.valid THEN payload.rows ELSE <<>>

KeysOf(rows) ==
  {<<rows[i].kind, rows[i].key>> : i \in {j \in DOMAIN rows :
                                            rows[j].kind \in {"order", "position", "balance"}}}

\* Mutant of IngestUserData: the loop over the events stops after the first.
IngestFirst ==
  /\ pending = <<>>
  /\ socket # <<>>
  /\ pending' = SubSeq(Parse(Head(socket)), 1, Min({1, Len(Parse(Head(socket)))}))
  /\ socket' = Tail(socket)
  /\ skipped' = skipped \ KeysOf(Parse(Head(socket)))
  /\ UNCHANGED <<held, sent, applied, writers, account, outbound>>

\* ingest_user_data: every row of the payload, in order.
IngestUserData ==
  /\ pending = <<>>
  /\ socket # <<>>
  /\ pending' = Parse(Head(socket))
  /\ socket' = Tail(socket)
  /\ skipped' = skipped \ KeysOf(Parse(Head(socket)))
  /\ UNCHANGED <<held, sent, applied, writers, account, outbound>>

\* MonitorMultiplexor::ingest_message: parse_update keeps the first row only.
IngestMessage ==
  LET rows == Parse(Head(socket)) IN
  /\ pending = <<>>
  /\ socket # <<>>
  /\ Len(rows) > 1
  /\ pending' = <<Head(rows)>>
  /\ socket' = Tail(socket)
  /\ skipped' = (skipped \ KeysOf(<<Head(rows)>>)) \cup KeysOf(Tail(rows))
  /\ UNCHANGED <<held, sent, applied, writers, account, outbound>>

\* UsdmExecUpdate::routing_id.
RoutingId(row) ==
  CASE row.kind = "order" -> SymbolOf[row.key]
    [] row.kind = "position" -> row.key[1]
    [] OTHER -> Account

\* route_update: "missing usdm handler id".
Unroutable ==
  /\ pending # <<>> /\ ~ applied
  /\ RoutingId(Head(pending)) \notin DOMAIN writers
  /\ pending' = Tail(pending)
  /\ UNCHANGED <<held, socket, sent, applied, writers, account, outbound, skipped>>

\* account_events_only: which rows a handler acts on.
Accepts(id, row) ==
  row.kind # "expired" => (id = Account <=> row.kind \in {"balance", "margin"})

\* Mutant of ApplyPosition: a flat leg is stored like any other.
StoreFlat(positions, row) == Insert(positions, row.key, row.amount)

\* apply_position, of the handler and of the account alike.
ApplyPosition(positions, row) ==
  IF row.amount \in Flat THEN Delete(positions, row.key)
                         ELSE Insert(positions, row.key, row.amount)

ApplyOrder(open, row) ==
  IF row.status \in OpenStatus THEN Insert(open, row.key, row.status)
                               ELSE Delete(open, row.key)

\* Mutant of Supersedes: a call of the same time is ignored.
SupersedesNewer(row) == row.time > account.call.time

\* apply_margin_call: older calls are ignored.
Supersedes(row) == row.time >= account.call.time

\* Mutant of ApplyMargin: the handler keeps a call that the account ignored.
ApplyMarginAlways(row) ==
  /\ writers' = [writers EXCEPT ![Account].call = row]
  /\ account' = IF Supersedes(row) THEN [account EXCEPT !.call = row] ELSE account

ApplyMargin(row) ==
  IF Supersedes(row)
  THEN /\ writers' = [writers EXCEPT ![Account].call = row]
       /\ account' = [account EXCEPT !.call = row]
  ELSE UNCHANGED <<writers, account>>

\* UsdmExecHandler::apply, up to the outbound channel.
Apply ==
  LET row == Head(pending)
      id == RoutingId(row)
  IN
  /\ pending # <<>> /\ ~ applied
  /\ id \in DOMAIN writers
  /\ Accepts(id, row)
  /\ \/ /\ row.kind = "order"
        /\ writers' = [writers EXCEPT ![id].open_orders = ApplyOrder(@, row)]
        /\ UNCHANGED account
     \/ /\ row.kind = "position"
        /\ writers' = [writers EXCEPT ![id].positions = ApplyPosition(@, row)]
        /\ account' = [account EXCEPT !.positions = ApplyPosition(@, row)]
     \/ /\ row.kind = "balance"
        /\ account' = [account EXCEPT !.balances = Insert(@, row.key, row.amount)]
        /\ UNCHANGED writers
     \/ /\ row.kind = "margin"
        /\ ApplyMargin(row)
     \/ /\ row.kind = "expired"
        /\ UNCHANGED <<writers, account>>
  /\ applied' = TRUE
  /\ UNCHANGED <<held, socket, sent, pending, outbound, skipped>>

\* The end of apply(): the update goes to the outbound channel, whatever it changed.
Forward ==
  /\ applied
  /\ outbound' = Append(outbound, Head(pending))
  /\ pending' = Tail(pending)
  /\ applied' = FALSE
  /\ UNCHANGED <<held, socket, sent, writers, account, skipped>>

Next ==
  \/ Venue
  \/ IngestUserData
  \/ IngestMessage
  \/ Unroutable
  \/ Apply
  \/ Forward

Spec == Init /\ [][Next]_vars

-----------------------------------------------------------------------------
\* What has been applied, in order.
Log == IF applied THEN Append(outbound, Head(pending)) ELSE outbound
At(kind, key) == {i \in DOMAIN Log : Log[i].kind = kind /\ Log[i].key = key}
Told(kind, keys) == {k \in keys : At(kind, k) # {}}
Latest(kind, key) == Log[CHOOSE i \in At(kind, key) : \A j \in At(kind, key) : j <= i]
Calls == {i \in DOMAIN Log : Log[i].kind = "margin"}

(***************************************************************************)
(* A consumer of the outbound channel misses nothing: at every moment the  *)
(* account and the handlers are what the updates forwarded so far say (and *)
(* the one applied but not forwarded yet): the last row of each asset, leg *)
(* and order, and the last of the newest margin calls.                     *)
(***************************************************************************)
OutboundReplays ==
  /\ account.balances =
       [a \in Told("balance", Asset) |-> Latest("balance", a).amount]
  /\ account.positions =
       [l \in {k \in Told("position", Leg) : Latest("position", k).amount \notin Flat} |->
          Latest("position", l).amount]
  /\ \A s \in Subscribed :
       writers[s].open_orders =
         [o \in {k \in Told("order", Order) :
                   SymbolOf[k] = s /\ Latest("order", k).status \in OpenStatus} |->
            Latest("order", o).status]
  /\ IF Calls = {}
     THEN account.call = NoCall
     ELSE \E i \in Calls :
            /\ account.call = Log[i]
            /\ \A j \in Calls : \/ Log[j].time < Log[i].time
                                \/ Log[j].time = Log[i].time /\ j <= i

Of(positions, symbol) ==
  [l \in {k \in DOMAIN positions : k[1] = symbol} |-> positions[l]]

(***************************************************************************)
(* The state is kept twice and the copies never differ: a symbol handler's *)
(* positions are the account's positions of that symbol, and the account   *)
(* handler's margin call is the account's, also when a late call was       *)
(* ignored.                                                                *)
(***************************************************************************)
HandlersMatchAccount ==
  /\ \A s \in Subscribed : writers[s].positions = Of(account.positions, s)
  /\ writers[Account].call = account.call
  /\ writers[Account].positions = Empty

Drained == socket = <<>> /\ pending = <<>>
Fresh(kind, key) == <<kind, key>> \notin skipped

(***************************************************************************)
(* Once every payload has been ingested, the balances, the open orders and *)
(* the open positions of the subscribed symbols are the venue's, except    *)
(* where ingest_message left the last row out.                             *)
(***************************************************************************)
DrainedIsVenue ==
  Drained =>
    /\ \A a \in {x \in Asset : Fresh("balance", x)} :
         /\ a \in DOMAIN account.balances <=> a \in DOMAIN held.balances
         /\ a \in DOMAIN held.balances => account.balances[a] = held.balances[a]
    /\ \A l \in {x \in Subscribed \X Side : Fresh("position", x)} :
         LET open == l \in DOMAIN held.positions /\ held.positions[l] \notin Flat IN
         /\ l \in DOMAIN account.positions <=> open
         /\ open => account.positions[l] = held.positions[l]
    /\ \A o \in {x \in Order : SymbolOf[x] \in Subscribed} :
         LET open == o \in DOMAIN held.orders /\ held.orders[o] \in OpenStatus
             mine == writers[SymbolOf[o]].open_orders
         IN
         /\ o \in DOMAIN mine <=> open
         /\ open => mine[o] = held.orders[o]

=============================================================================
