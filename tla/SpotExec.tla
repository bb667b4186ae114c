------------------------------- MODULE SpotExec -------------------------------
(***************************************************************************)
(* Bookkeeping of a spot account (crates/binance-spot-exec).  A payload of *)
(* the user-data websocket is one event; ingest_user_data parses it, finds *)
(* the handler of its route, and the handler applies it to the account     *)
(* that all handlers share and sends it on the outbound channel.  Balances *)
(* are told in two ways: absolutely (outboundAccountPosition) and as a     *)
(* change (balanceUpdate, externalLockUpdate), in decimal texts of any     *)
(* number of fraction digits.                                              *)
(***************************************************************************)
EXTENDS Integers, Sequences, SequencesExt, FiniteSets

CONSTANTS
  Symbol,           \* symbols traded on the account
  Subscribed,       \* the symbols that build_multiplexor was given
  Asset,
  Order, SymbolOf,  \* order ids, and the symbol of each
  Base,             \* radix of an amount's text: 10 in the code
  MaxScale,         \* bound: fraction digits of an amount's text
  MaxAmount,        \* bound: amounts at the venue are 0..MaxAmount, in the finest unit
  MaxFrames         \* bound: frames that the venue sends

ASSUME SubscribedAssumption == Subscribed \subseteq Symbol
ASSUME OrderAssumption == SymbolOf \in [Order -> Symbol]
ASSUME BaseAssumption == Base \in Nat \ {0, 1}
ASSUME BoundsAssumption == MaxScale \in Nat /\ MaxAmount \in Nat /\ MaxFrames \in Nat

\* ACCOUNT_ROUTE_ID is no symbol.
Account == "__account__"
ASSUME AccountAssumption == Account \notin Symbol

VARIABLES
  held,      \* the venue's truth: free and locked amounts, and the orders it has told
  twice,     \* what the venue has told twice since the asset's last position
  socket,    \* frames on their way
  sent,      \* number of frames sent so far
  applying,  \* the event that is in the account and not on the channel yet, or Nothing
  account,   \* the shared AccountBook
  outbound   \* events sent on the outbound channel

vars == <<held, twice, socket, sent, applying, account, outbound>>

-----------------------------------------------------------------------------
\* An amount's text: a signed integer and the position of its point.
Scale == 0..MaxScale
Decimal == [units : Int, scale : Scale]
Zero == [units |-> 0, scale |-> 0]

\* The weight of one more digits of a text: Base ^ n.
Power[n \in Scale] == IF n = 0 THEN 1 ELSE Base * Power[n - 1]

\* to_scaled_i128, for a scale that is not below the text's own.
ToScaled(text, scale) == text.units * Power[scale - text.scale]

\* Mutant of AddDecimals: the smaller of the scales.
AddAtMinScale(l, r) ==
  LET scale == Min({l.scale, r.scale}) IN
  [units |-> (l.units \div Power[l.scale - scale]) + (r.units \div Power[r.scale - scale]),
   scale |-> scale]

\* add_decimal_strings: the sum has the greater of the scales.
AddDecimals(l, r) ==
  LET scale == Max({l.scale, r.scale}) IN
  [units |-> ToScaled(l, scale) + ToScaled(r, scale), scale |-> scale]

\* The amount that a text stands for, in the finest unit; the text of an amount, when it
\* can be written with that many digits.
Value(text) == ToScaled(text, MaxScale)
Unit == [scale \in Scale |-> Power[MaxScale - scale]]
Exact(amount, scale) == amount % Unit[scale] = 0
Text(amount, scale) == [units |-> amount \div Unit[scale], scale |-> scale]
Texts(amount) == {Text(amount, s) : s \in {s \in Scale : Exact(amount, s)}}

-----------------------------------------------------------------------------
\* "OTHER" is any status that apply_execution_report's list of ends does not name: its order
\* stays open in the account, though the venue may mean an end by it.
OpenStatus == {"NEW", "PARTIALLY_FILLED", "OTHER"}
EndStatus == {"FILLED", "CANCELED", "EXPIRED", "REJECTED"}
Status == OpenStatus \cup EndStatus

\* Hash maps are functions of their keys.
Empty == <<>>
MapsOf(K, V) == UNION {[D -> V] : D \in SUBSET K}
\* The same of one map, for values that cannot be enumerated.
IsMap(m, K, V) == DOMAIN m \subseteq K /\ m \in [DOMAIN m -> V]
Insert(m, k, v) == [x \in DOMAIN m \cup {k} |-> IF x = k THEN v ELSE m[x]]
Delete(m, k) == [x \in DOMAIN m \ {k} |-> m[x]]

AssetBalance == [free : Decimal, locked : Decimal]
ExecutionReport == [kind : {"report"}, order : Order, status : Status]
\* balanceUpdate is about the free amount, externalLockUpdate about the locked one.
BalanceUpdate == [kind : {"free", "locked"}, asset : Asset, delta : Decimal]
Marker == [kind : {"list"}, symbol : Symbol] \cup [kind : {"terminated"}]
IsPosition(e) ==
  /\ e.kind = "position"
  /\ e = [kind |-> "position", balances |-> e.balances]
  /\ IsMap(e.balances, Asset, AssetBalance)
IsEvent(e) == e \in ExecutionReport \/ e \in BalanceUpdate \/ e \in Marker \/ IsPosition(e)
Ignored == {[kind |-> "ack"], [kind |-> "garbage"]}
Nothing == [kind |-> "nothing"]

Amounts == [Asset -> 0..MaxAmount]

TypeOK ==
  /\ held \in [free : Amounts, locked : Amounts, orders : MapsOf(Order, Status)]
  /\ twice \in [Asset -> Int]
  /\ socket \in Seq(Range(socket))
  /\ \A f \in Range(socket) : IsEvent(f) \/ f \in Ignored
  /\ sent \in 0..MaxFrames
  /\ applying = Nothing \/ IsEvent(applying)
  /\ account = [balances |-> account.balances, open_orders |-> account.open_orders]
  /\ IsMap(account.balances, Asset, AssetBalance)
  /\ account.open_orders \in MapsOf(Order, OpenStatus)
  /\ outbound \in Seq(Range(outbound))
  /\ \A e \in Range(outbound) : IsEvent(e)

\* The account held something before the process was started.
Init ==
  /\ held \in [free : Amounts, locked : Amounts, orders : {Empty}]
  /\ twice = [a \in Asset |-> 0]
  /\ socket = <<>>
  /\ sent = 0
  /\ applying = Nothing
  /\ account = [balances |-> Empty, open_orders |-> Empty]
  /\ outbound = <<>>

-----------------------------------------------------------------------------
(***************************************************************************)
(* The venue, as the crate's parser and fixtures know it.                  *)
(***************************************************************************)
Tell(frames) ==
  /\ sent + Len(frames) <= MaxFrames
  /\ sent' = sent + Len(frames)
  /\ socket' = socket \o frames
  /\ UNCHANGED <<applying, account, outbound>>

\* An order is rejected, or it is accepted, filled in parts, and ends; between these, or
\* for good, it may have another status.
TellOrder(o, s) ==
  /\ IF o \in DOMAIN held.orders THEN held.orders[o] \in OpenStatus /\ s \notin {"NEW", "REJECTED"}
                                 ELSE s \in {"NEW", "REJECTED", "OTHER"}
  /\ held' = [held EXCEPT !.orders = Insert(@, o, s)]
  /\ Tell(<<[kind |-> "report", order |-> o, status |-> s]>>)
  /\ UNCHANGED twice

\* The position events of the assets `told`, when the venue holds `amounts`: an event
\* writes all its amounts with the same number of digits.
PositionsOf(told, amounts) ==
  {[kind |-> "position",
    balances |-> [a \in told |-> [free |-> Text(amounts.free[a], s),
                                  locked |-> Text(amounts.locked[a], s)]]] :
     s \in {s \in Scale : \A a \in told : Exact(amounts.free[a], s) /\ Exact(amounts.locked[a], s)}}

\* A trade or an order changes an asset: the assets that may have changed are told.
TellPosition(a, told) ==
  \E free, locked \in 0..MaxAmount :
    /\ held' = [held EXCEPT !.free[a] = free, !.locked[a] = locked]
    /\ \E p \in PositionsOf(told, held') : Tell(<<p>>)
    /\ twice' = [x \in Asset |-> IF x \in told THEN 0 ELSE twice[x]]

\* A deposit or a withdrawal: a balanceUpdate, alone, or before or after a position.
TellTransfer(a, delta, how) ==
  /\ held.free[a] + delta \in 0..MaxAmount
  /\ held' = [held EXCEPT !.free[a] = @ + delta]
  /\ \E text \in Texts(delta), p \in PositionsOf({a}, held') :
       LET update == [kind |-> "free", asset |-> a, delta |-> text] IN
       \/ how = "alone" /\ Tell(<<update>>) /\ UNCHANGED twice
       \/ how = "before" /\ Tell(<<update, p>>) /\ twice' = [twice EXCEPT ![a] = 0]
       \/ how = "after" /\ Tell(<<p, update>>) /\ twice' = [twice EXCEPT ![a] = delta]

\* externalLockUpdate.
TellLock(a, delta) ==
  /\ held.locked[a] + delta \in 0..MaxAmount
  /\ held' = [held EXCEPT !.locked[a] = @ + delta]
  /\ \E text \in Texts(delta) : Tell(<<[kind |-> "locked", asset |-> a, delta |-> text]>>)
  /\ UNCHANGED twice

\* Frames that change no balance and no order.
TellOther ==
  /\ \E f \in Marker \cup Ignored : Tell(<<f>>)
  /\ UNCHANGED <<held, twice>>

Venue ==
  \/ \E o \in Order, s \in Status : TellOrder(o, s)
  \/ \E a \in Asset : \E told \in {t \in SUBSET Asset : a \in t} : TellPosition(a, told)
  \/ \E a \in Asset, delta \in (-MaxAmount..MaxAmount) \ {0} :
       \/ \E how \in {"alone", "before", "after"} : TellTransfer(a, delta, how)
       \/ TellLock(a, delta)
  \/ TellOther

-----------------------------------------------------------------------------
\* SpotUserEvent::route_id.
RouteId(e) ==
  CASE e.kind = "report" -> SymbolOf[e.order]
    [] e.kind = "list" -> e.symbol
    [] OTHER -> Account

\* exec_subscription_symbols: the symbols, and the account route once.
Writers == Subscribed \cup {Account}

\* SpotExecHandler::accepts.
Accepts(route, e) == (route = Account) <=> (e.kind \notin {"report", "list"})

\* parse_user_data_message finds no event, or ingest_user_data no handler of its route.
Dropped(frame) == frame \in Ignored \/ RouteId(frame) \notin Writers

DropFrame ==
  /\ applying = Nothing
  /\ socket # <<>>
  /\ Dropped(Head(socket))
  /\ socket' = Tail(socket)
  /\ UNCHANGED <<held, twice, sent, applying, account, outbound>>

\* Mutant of ApplyPosition: the event's assets are all that is kept.
ReplaceBalances(balances, p) == p.balances

\* apply_position.
ApplyPosition(balances, p) ==
  [a \in DOMAIN balances \cup DOMAIN p.balances |->
     IF a \in DOMAIN p.balances THEN p.balances[a] ELSE balances[a]]

\* The entry of an asset; one that is not known yet starts from zero.
Entry(balances, a) ==
  IF a \in DOMAIN balances THEN balances[a] ELSE [free |-> Zero, locked |-> Zero]

\* apply_balance_delta and apply_external_lock.
ApplyDelta(balances, e) ==
  Insert(balances, e.asset,
         [Entry(balances, e.asset) EXCEPT ![e.kind] = AddDecimals(@, e.delta)])

\* Mutant of ApplyReport: an order that has ended stays open.
KeepEnded(open, e) == Insert(open, e.order, e.status)

\* apply_execution_report.
ApplyReport(open, e) ==
  IF e.status \in EndStatus THEN Delete(open, e.order) ELSE Insert(open, e.order, e.status)

\* AccountBook::apply.
ApplyEvent(book, e) ==
  CASE e.kind = "position" -> [book EXCEPT !.balances = ApplyPosition(@, e)]
    [] e.kind \in {"free", "locked"} -> [book EXCEPT !.balances = ApplyDelta(@, e)]
    [] e.kind = "report" -> [book EXCEPT !.open_orders = ApplyReport(@, e)]
    [] OTHER -> book

\* handle_update, up to the channel: the event is applied under the account's lock.
Apply ==
  LET e == Head(socket) IN
  /\ applying = Nothing
  /\ socket # <<>>
  /\ ~ Dropped(e)
  /\ Accepts(RouteId(e), e)
  /\ socket' = Tail(socket)
  /\ applying' = e
  /\ account' = ApplyEvent(account, e)
  /\ UNCHANGED <<held, twice, sent, outbound>>

\* The end of handle_update: the lock is released, the event is sent.
Forward ==
  /\ applying # Nothing
  /\ outbound' = Append(outbound, applying)
  /\ applying' = Nothing
  /\ UNCHANGED <<held, twice, socket, sent, account>>

Next == Venue \/ DropFrame \/ Apply \/ Forward

Spec == Init /\ [][Next]_vars

-----------------------------------------------------------------------------
\* What has been applied, in order.
Log == IF applying = Nothing THEN outbound ELSE Append(outbound, applying)

Reports(log, o) == {i \in DOMAIN log : log[i].kind = "report" /\ log[i].order = o}
Positions(log, a) ==
  {i \in DOMAIN log : log[i].kind = "position" /\ a \in DOMAIN log[i].balances}
IsDelta(e, a, field) == e.kind = field /\ e.asset = a
Deltas(log, a, field) == {i \in DOMAIN log : IsDelta(log[i], a, field)}
LastOf(indices) == Max(indices \cup {0})

\* What the changes of an amount come to, after each of the events of a log.
Totals(log, a, field) ==
  LET total[n \in 0..Len(log)] ==
        IF n = 0 THEN 0
        ELSE total[n - 1] + IF IsDelta(log[n], a, field) THEN Value(log[n].delta) ELSE 0
  IN  total

\* The last absolute amount, and the sum of the changes after it.
ToldAmount(log, a, field) ==
  LET base == LastOf(Positions(log, a))
      total == Totals(log, a, field)
  IN  (IF base = 0 THEN 0 ELSE Value(log[base].balances[a][field]))
        + total[Len(log)] - total[base]

(***************************************************************************)
(* A consumer of the outbound channel can rebuild the account exactly,     *)
(* whatever the number of fraction digits in the texts: a balance is the   *)
(* last position of its asset plus the changes forwarded after it (and     *)
(* the event applied but not forwarded yet), and an order is open with the *)
(* status of its last report.                                              *)
(***************************************************************************)
OutboundReplays ==
  /\ DOMAIN account.balances =
       {a \in Asset :
          Positions(Log, a) \cup Deltas(Log, a, "free") \cup Deltas(Log, a, "locked") # {}}
  /\ \A a \in DOMAIN account.balances :
       /\ Value(account.balances[a].free) = ToldAmount(Log, a, "free")
       /\ Value(account.balances[a].locked) = ToldAmount(Log, a, "locked")
  /\ account.open_orders =
       [o \in {x \in Order : /\ Reports(Log, x) # {}
                             /\ Log[LastOf(Reports(Log, x))].status \in OpenStatus} |->
          Log[LastOf(Reports(Log, o))].status]

(***************************************************************************)
(* Once every frame has been ingested: an asset whose position has been    *)
(* told is the venue's, except for a transfer that was told by a position  *)
(* and again by the balanceUpdate behind it, which counts twice until the  *)
(* asset's next position; and of the subscribed symbols, the orders are    *)
(* open that the venue has not told an end of the code's list of, with the *)
(* status that it told last.                                               *)
(***************************************************************************)
DrainedIsVenue ==
  socket = <<>> =>
    /\ \A a \in {x \in Asset : Positions(Log, x) # {}} :
         /\ a \in DOMAIN account.balances
         /\ Value(account.balances[a].free) = held.free[a] + twice[a]
         /\ Value(account.balances[a].locked) = held.locked[a]
    /\ \A o \in {x \in Order : SymbolOf[x] \in Subscribed} :
         LET open == o \in DOMAIN held.orders /\ held.orders[o] \in OpenStatus IN
         /\ o \in DOMAIN account.open_orders <=> open
         /\ open => account.open_orders[o] = held.orders[o]

=============================================================================
