# A verification of trolly

trolly keeps live order books: it subscribes to depth streams of exchanges, fetches a snapshot
of each book over REST, applies the diffs, and serves the books to other threads and to clients.
Beside them it follows the user data of spot and futures accounts, turns a strategy's commands
into orders, and trains agents on what it hears. The TLA+ modules here model these parts from
their source, TLC checks them on small instances, and TLAPS proves the theorems of `*_proof.tla`
for every value of the constants.

## 1. The system

| Part | State | Operations | Hard behaviour | Correct when |
|---|---|---|---|---|
| Book operations (`src/src/monitor/order_book.rs`, over the crate `lob`) | levels, `update_id` | `absorb_first`, `sync_with` | staleness at the boundary of the snapshot | a book is the venue's book of its id |
| Multiplexed stream (`src/crates/trolly-stream/src/multiplexor.rs`) | websocket, `writers` map | `subscribe`, `build`, `ingest_message`, the loop of `stream` | the snapshot is fetched while the websocket buffers; a handler may fail to build; the flag is read between frames | nothing read is lost or applied twice; Ctrl+C ends it |
| Left-right book (`order_book.rs`, crate `left-right`) | two copies, log, pointer, guards | `append`, `publish`, `enter`, drop of a guard | readers on other threads | readers see one book that moves forward |
| Book sources, providers, frames (`src/src/monitor/{mod,depth_parse}.rs`, `src/src/providers`) | none | `parse_book_sources`, `ws_subscriptions`, `parse_depth_bytes`, `to_id` | an overlay (`RPI:`) shares its symbol with the plain stream | a diff reaches the handler that subscribed it |
| Global book hub (`src/src/monitor/global_book.rs`) | factories, sources of each instrument, merged lanes | `register_factory`, `refresh_merged_for`, `build`, `handle_update` | shards of several venues interleave, fail, end | a lane is the sum of the books of its sources |
| Shutdown (`src/src/signals.rs`) | flag, process-wide handler | `Terminate::new` | one registration per process | every provider's stream can start |
| Book server (`src/src/servers/mod.rs`, gRPC and SCALE) | registry | `start`, `start_background`, `Hook::get` | starts after `n` factories; the writer may be gone | answers are fresh; every book that was built is served |
| Depth command (`src/src/monitor/depth.rs`) and echo | symbol list | `validate`, `monitor` | blank, padded and repeated parts of the list against `n` | the server starts |
| Terminal viewer (`src/src/bin/aggregated_depth_tui.rs`) | tab, the frame on the screen | `run_tui`, `snapshot_ladder`, `snapshot_diff` | two legs read at two moments | a later frame shows no older book |
| USDM bookkeeping (`src/crates/binance-usdm-exec`) | orders, positions, balances, margin call | `ingest_user_data`, `apply` | one payload fans out over handlers | handlers and account agree |
| Spot bookkeeping (`src/crates/binance-spot-exec`) | balances, open orders | `ingest_user_data`, `apply` | amounts told absolutely and as changes, in texts of different scales | the account is the exchange's |
| Strategy runtime and order executor (`src/crates/trolly-strategy`, `*/egress.rs`) | strategy, queue | `ingest`, `dispatch`, `run_order_executor` | an error in the middle of a batch; a lost reply | every accepted order is placed, once |
| Order placement (`*/egress.rs`, `*/order.rs`, `*/auth.rs`, `cli/mod.rs`) | none | from a command to a signed form, a connection, a parsed answer | options of a command that exclude each other | Ok means acknowledged |
| Training environment (`src/crates/trolly-gym/src/{env,replay,observation}.rs`) | observation window, replay ring | `ingest_event`, `step`, `push`, `snapshot` | wrap-around at capacity; a refused message | the ring holds what happened last |
| Training loop and self-play (`trolly-gym/src/{train,ppo,games}`) | rollout, payoff window, learning rate | `collect`, `compute_gae`, `policy_update`, `train_step` | episode ends inside a rollout; rates that follow payoffs | advantages are discounted sums |
| Metrics, listen keys | counters; none | `record_*`; three REST calls | | not modelled, see 5 |

Everything that streams runs on one tokio `LocalSet` thread; the server and the viewer run on other
threads and meet it in the left-right pair, the `ArcSwap` of a lane and the registry's mutex. The
order executor is a task of its own, and meets the strategy in an unbounded channel. The training
environment belongs to one thread.

How the parts call each other: a command (`depth`, `stream`, `serve`) starts a multiplexed stream
for each provider; the multiplexor builds one handler for each symbol and then hands each frame to
the handler of its symbol. A depth handler is either an order book alone or a shard of the global
hub, which owns such an order book and merges it with the others. Build of a handler registers a
read factory with the book server, which serves clones of the book. The user-data streams use the
same multiplexor with bookkeeping handlers, and `ingest_user_data` reaches the same handlers without
it. Strategies get events of both and emit messages, which an egress turns into requests for the
order executor; the training environment stands where a strategy would.

What is hard to test here is listed line by line in `PROJECT.json`, under "hazards", each with the
properties that would catch it.

## 2. Modules

```
DepthBook ── DepthVenue ─┬─ DepthFeed ──┬─ DepthFeed_proof ── MCDepthFeed
    │                    │  FrameRouting┘
    │                    └─ OrderBook ── OrderBook_proof ── MCOrderBook
    │                          :. implements DepthFeed
    └─ GlobalBook ── BookTui ── GlobalBook_proof ── MCGlobalBook
Serve ── Serve_proof ── MCServe
UsdmExec ── UsdmExec_proof ── MCUsdmExec
SpotExec ── SpotExec_proof ── MCSpotExec
OrderPipeline ──────────────┬─ OrderPipeline_proof ── MCOrderPipeline
OrderText ─┬─ SpotOrder :. ─┤
           └─ UsdmOrder :. ─┘
ReplayRing ── GymEnv ── Training ─┬─ Gym_proof ── MCGym
  :. RecentWindow          │      │
WolfRate ──────────────────┴─ SelfPlay
```

A line is EXTENDS, `:.` an INSTANCE. `OrderBook` INSTANCEs `DepthFeed` and `ReplayRing` INSTANCEs
`RecentWindow` under refinement mappings. `GlobalBook` takes a shard's book as one variable that a
diff changes in one step: that is what the refinement of `DepthFeed` by `OrderBook` establishes, so
the left-right pair does not have to be repeated for every shard.

Mutants, the plausible slips against which the properties are measured, stand before the
definitions they change and are named as such in a comment; no specification uses them.

### DepthBook: the book and its operations

Pure operators. `Absorb` is `absorb_first` of an update with its staleness test (`SkipUpdate`);
`Extend` is `LimitOrderBook::extend`, used by `Initialize` and by `sync_with`. A price level is an
element of `Price`, whichever side it is on, and a quantity of 0 is an absent level. The crate `lob`
is not in the repository: its operations are modelled from the calls that `order_book.rs` makes and
from the assertions of its tests.

### DepthVenue: the exchange of one symbol (external)

A book that changes one level at a time, each change under a new id; a websocket that delivers
diffs of consecutive id ranges from the moment the venue acts on the subscription; a REST endpoint
whose answer is the book at the moment of answering, cut (`Cut`) at the `limit` best levels of each side
that the request asks for: 1000 at USDM, 5000 at spot, `Limit` here. A symbol with `overlay` is an RPI overlay: its
stream tells the overlay's book, and its request, which names the plain symbol, brings another one
(`Asked`: any book at all). The overlay's diffs and the plain symbol's snapshot are taken to be numbered by one
counter, as the staleness test that compares them supposes; the repository does not say so.
Frames without a diff are one flag `ctl`. `prompt` tells a venue that handles the
subscription before a depth request that was sent after it from one that may not.

### DepthFeed: what a published book promises

One symbol from subscription to the end of the stream, with the book as one variable. Its actions
are the steps of `MonitorMultiplexor`: `Connect` (`subscribe` succeeds), `ConnectFails`, `Fetch` and
`Load` or `LoadFails` (the handler's `build`), `IngestDiff` and `IngestControl` (`ingest_message`),
`Finish` (end of the websocket, or the flag), `CtrlC`.

### FrameRouting: whose diff is this

Pure operators, from a list of book sources to the handler a frame reaches. `ParseBookSources` and
`SymbolsOf` are the list and its split over the venues; `UsdmMessages` and `SpotMessages` what a
websocket is asked for, `SET_PROPERTY` before an overlay included; `DiffsOf` the frames the venue then sends
(external); `ParseDepthBytes` and `IngestMessage` the way of a frame to a handler. A symbol is a record of the
exchange's name and whether it is an overlay, since that is all the code tells apart. The routing
of a strategy's events, by symbol or by asset, is `RouteMessage` over `StrategyHandlers` and is compared with the
hub that takes them all.

### OrderBook: the left-right pair

The same task as DepthFeed at the grain at which other threads can interleave with it. State: `copies` and
`readSide` (the two books and the pointer), `oplog` and `swapIndex` (the log and how much of it was
published), `first` and `second` (the flags of the crate's `WriteHandle`), `pinned`, `saw` and
`waitFor` (guards that are held, the book each showed when it was entered, and the guards the writer
has to wait for), `pc` (the place of the task). `Share` and `Fill` build the handler, and `Reveal`
is its first publish; a diff is `IngestDiff`, then `Sync`, `Drain`, `AbsorbNew` and `Publish`, which
are the steps of `publish()`: wait for old readers, bring the second copy up to date, replay the old
operation on it, apply the new one, swap. `Enter` and `Leave` are a reader's guard. The crate
`left-right` is external; the two callbacks it makes, `absorb_first` and `sync_with`, are in `src/`.

### GlobalBook: shards, factories and lanes

Many shards on one thread. `Sources` is the list of (provider, instrument) a run starts with, and
may name a pair twice, as the command line allows. State: `task` (each provider's stream), `st`
(each shard's place: waiting, registered, filled, built, live, missing, dropped), `book`, `factories`
and `sources` (the hub's two maps), `merged` and `served` (the lanes, and those in the registry),
`job` (the shard whose job runs on the thread: its steps are not interleaved with another job's),
`launcher`, `ctrlc` and `crashed`. `Register`, `Initialize`, `Refresh` and `Collect` are `build`;
`HandleUpdate` followed by `Refresh` is `handle_update`; `StartPanics` is the panic of
`Terminate::new` when its signal handler exists already, `ConnectPanics` the `unwrap` of a connection
that fails.

### BookTui: the terminal viewer

A second thread over `GlobalBook`: `Look` takes the list of factories, `ReadLane`, `ReadSymbol`,
`ReadNoPair`, or `ReadStd` and then `ReadRpi` read the selected tab and draw; `NoKey`, `KeyRight`,
`KeyLeft` and `KeyQuit` are what the poll for a key ends with. The feed moves between any two of
them. `TabStrip`, the cumulative curves and `DiffQtyLevels` are operators of their own; the text that
the viewer takes the levels out of is `Displayed`. The viewer's binary starts the feed with
`run_global_book_stream` (launcher "stream"). An instrument has one RPI overlay at most, since
`usdm_rpi_stream_id` makes one name of it. What the viewer draws does not depend on the launcher, so both are run.

### Serve: from the symbol list to an answer

`depth --output serve` and `--output echo` with a list, a provider that may not be wired and a port
that may be taken (`config`). The main task goes through `Start`, `Subscribe`, the builds side by side
(`Fetch`, `Publish`, or `BuildEcho`), `Await` in the order of the list, `StartLoop`, `Update`,
`EndStream` and `Exit`. The server's thread takes factories off the channel (`Receive`) and listens
once it has `n` of them or the channel is closed (`Listen`). `Ask` and `Answer` are the two halves of
`Hook::get`: the lookup under the registry's lock, and the read, between which the writer may go.
A book is the number of times it was published (`version`).

### UsdmExec: orders, positions and balances

State: `held`, `socket`, `sent` (the exchange's account, the payloads it has sent and how many),
`writers` (one handler for each subscribed symbol and one for the account), `account` (the shared
account state), `pending`, `applied` and `outbound` (the rows of the payload in hand, whether its
head has been applied, the rows forwarded), `skipped` (what `ingest_message` left out).
`IngestUserData` parses a payload into all its rows; `IngestMessage` is the multiplexor's way in,
which takes the first row only; `Unroutable` drops a row without a handler; `Apply` is `apply()` of a
handler up to the send, `Forward` the send. Amounts are model values and `Flat` the amounts that the
code compares equal to zero.

### SpotExec: balances told in two ways

`held`, `twice`, `socket` and `sent` are the venue (external, from the parser and its fixtures): it
tells an asset absolutely (`TellPosition`), a transfer as a change with or without a position before
or after it (`TellTransfer`), a lock (`TellLock`), an order (`TellOrder`). `DropFrame` is a frame
without an event or a handler, `Apply` the handler's change of the `account` (`ApplyEvent`) under its lock,
`Forward` the send. An amount's text is its digits and the position of its point (`AddDecimals`), in
radix `Base`.

### OrderPipeline: from a command to an order at the venue

`kinds` tells for each command that the strategy has emitted whether it can become an order; a
command is its index in it. `batch`
holds those that `ingest` has not dispatched yet, `refused` and `abandoned` those it lost, `queue` the
channel. `Recv`, `Post`, `Acknowledged` and `PlaceFails` are the loop of `run_order_executor`;
`wire`, `answers` and `placed` are what the venue has been sent, has answered and has done.
`PlaceFails` may leave the request on the wire or take it off: the connection can break before or
after the venue reads it. `executor`, `request` and `acked` are the executor's place, the request it
is placing and the orders it knows to exist.

### OrderText, SpotOrder, UsdmOrder: what an order is made of

Pure operators. `OrderText` has a strategy's commands, maps of form parameters and their
signature. `SpotOrder` and `UsdmOrder` follow a command through `PlaceOrderFromOutbound`,
`BuildOrderParams`, `BuildSignedFormParams` and `PlaceOrder`, which looks at a connection that may fail at
each of its steps and at the parts of a raw HTTP answer. The two crates carry their own copies of
this code, with differences (GTX and position sides), and so there are two modules.

### ReplayRing, RecentWindow: the ring buffer and its promise

`Push` and `Snapshot` over slots, head and length; `RecentWindow` is a sequence kept to its last
`Capacity` elements. A capacity of 0 is assumed away: the first push would panic.

### GymEnv, Training, WolfRate, SelfPlay

`GymEnv` is `ingest_event`, `step` and `dispatch` over the ring and the observation window; `Step` may be
refused by the egress. `Dispatch` is a message of the caller's own, through `Env::dispatch` or
`egress_mut`: it is sent and leaves no record, so `sent` keeps with each message which call sent it.
`replay_buffer_mut`, which lets a caller write the ring as it likes, is left out. `Training` adds
`train_step`: `Begin`, `Forward` (the network, which panics on an input of the wrong size), `ClosureStep` and `ClosureReturns` (the caller's closure), `Update`. Events
arrive in between. `Gae` and `Returns` are the backward pass. `WolfRate` is the choice of the learning rate from a
window of payoffs; `SelfPlay` has two of its trainers play a matrix game. The networks are left out:
an action is any action, a value any function of the observation and of the number of updates.
`MCGym` runs the environment or the game; the two share no state. The orders of a list of messages are
`Orders`, so that "the orders recorded are the last ones that steps sent" does not count what is not an order.
A payoff window of 0 is modelled as the code has it: the mean of no payoffs is no number, and the trainer
never wins.

## 3. What is checked

| Run | Bounds | What it shows |
|---|---|---|
| `depth_feed` | 2 levels of one side and a limit of 1, quantities 0 and 1, ids to 5, plain symbols and overlays | A book is wrong only at levels that changed in the gap between snapshot and stream, or that the snapshot did not tell and no change has touched since (`OnlyUnseenLevelsStale`); with a prompt venue only the latter are left (`PromptVenueBook`); no diff that was read is lost (`CaughtUp`); ids never go back (`IdNeverGoesBack`). Its ASSUMEs evaluate the routing of frames on every list of up to three sources over two names, and of a strategy's events |
| `order_book` | 2 levels, a limit of 1, ids to 3, 1 reader | Guards are never written under (`NoTornRead`), the copies differ by one operation (`CopiesDoNotDrift`), the pair implements the feed (`ImplementsFeed`), a reader never goes back (`ReadsMoveForward`), diffs reach readers (`DiffsReachReaders`), Ctrl+C ends the stream (`StopCompletes`) |
| `global_book` | sources `spot:btc`, `usdm:btc`, `usdm:RPI:btc`, 1 level, ids to 2 | A lane is the sum of its sources' books (`LaneIsMerge`), is not served empty (`ServedIsFilled`), its id goes back only when a source was lost (`LaneIdRegressesOnLoss`), and a later frame of the viewer shows no older book (`FramesGoForward`). Its ASSUMEs evaluate tabs, curves and differences |
| `global_book_stream` | the same, launcher "stream" only | violation, see findings |
| `global_book_twice` | one source listed twice | violation, see findings |
| `serve` | lists with repeated, blank and padded parts, 3 publishes of each book | What streams is served (`ListedIsServed`), an answer is no older than its request (`AnswersAreFresh`), the server starts whichever builds fail (`ServerListens`) |
| `usdm_exec` | 2 symbols, one of them subscribed; 3 payloads of at most 2 rows | The outbound channel replays to the state (`OutboundReplays`), handlers and account agree (`HandlersMatchAccount`), and once all is ingested they are the exchange's account except for what `ingest_message` skipped (`DrainedIsVenue`) |
| `spot_exec` | 2 symbols, one of them subscribed, 2 assets; radix 2, scales 0 and 1, amounts 0 and 1, 3 frames | The channel replays to the account (`OutboundReplays`), and the drained account is the venue's but for transfers told twice (`DrainedIsVenue`) |
| `orders` | 6 commands, at most 3 for an event | Orders reach the venue in order and once (`PlacedInOrder`), at most one is in doubt (`OneInDoubt`), none is forgotten while the executor lives (`NothingForgotten`), each is placed or the executor has failed (`QueuedIsPlaced`). Its ASSUMEs evaluate the forms of every command |
| `orders_drain` | 3 commands | violation, see findings |
| `gym` | capacity 2, window of 2 frames, 3 events, 4 messages sent, by steps or past them, horizon 2, 2 rollouts, payoff window 2 | The ring implements the window (`RingKeepsLast`) and tells the truth about the past (`ReplayIsTrue`); advantages are discounted sums that stop at episode ends (`GaeIsDiscountedSum`); each update uses the rate of its own return (`RateFollowsReturn`); rollouts panic only on ragged observations (`PanicsOnlyWhenRagged`); two players never both win (`NotBothWinning`) |
| `gym_rate` | window of 1 frame, horizon 1, 2 rollouts | violation, see findings |

The passing runs of `depth_feed`, `order_book`, `global_book`, `serve`, `usdm_exec`, `spot_exec`,
`orders` and `gym` also check the inductive invariant of the proofs on every reachable state.

Why the bounds are enough. In the feed, ids up to 5 give room for a snapshot behind, inside and
ahead of the stream, each with a diff of more than one id; two levels are needed because a diff
touches some levels and leaves others, and a book can be right at one and stale at the other; they are on
one side, and a limit of 1 lets one of them be beyond the snapshot. In the
left-right pair, the first publish clones and the diffs of two more ids replay the log and reach the
steady state, in which each publish finds the log as the one before left it; one reader is enough
because the writer treats readers independently; the proofs cover any number of them. Three shards give a lane with two
sources next to a lane with one, a provider with two symbols next to a provider with one, and the
two legs of a difference; ids 1 and 2 are enough for one leg to pass the other. For
USDM, three payloads allow an open, a change and a close of one key, and the second symbol is there
to be unsubscribed. Spot needs three frames for a position, a change that counts twice and the position
that settles it, and two scales for a sum that would lose a digit. In `serve`, one list of three parts has
two builds of one symbol around another, and three publishes put one before, one in and one after a
request. For orders, six commands allow two events with a failure in the middle of each. In the gym,
seven pushes wrap a ring of two several times, and a horizon of two has an episode end in the middle,
at the end, and nowhere. Every bound is a constant of its module: `MaxId`, `MaxTime`, `MaxPayloads`,
`MaxRows`, `MaxFrames`, `MaxAmount`, `MaxScale`, `MaxVersion`, `MaxCommands`, `MaxBatch`, `MaxFed`,
`MaxSteps`, `MaxSent`, `MaxRollouts`, `MaxUpdates`.

No run has symmetry. Deadlock is not checked: the stream ends when Ctrl+C or the venue ends it, the
venue's book stops changing at its bound, and a run in which nothing more happens is legal.

### Fairness

`OrderBook!Fairness`: the runtime polls the stream task while it can move (weak fairness of `Task`);
a reader leaves its guard, because a guard lives for one clone of the book in `Hook::get` and in
the UI; the venue answers or refuses the REST request; it pings or closes the websocket. Reading a
diff is strongly fair because the websocket delivers in order: the model keeps frames without a diff
apart, and only that fairness says that they do not overtake a diff for ever. `StopCompletes` really
depends on the venue: the flag is read between frames, so a venue that went silent with the
connection open would keep the stream from ending.

`OrderPipeline!Fairness`: the scheduler polls the executor; a request that reached the venue is
accepted or refused; a refusal is noticed. No timeout is assumed, as the code sets none. Nothing
forces the strategy to emit, the connection to break or the runtime to be dropped.

`Serve!Fairness`: the runtime polls every task that can go on, the operating system schedules the
server's thread, and a REST request ends in an answer or an error. Nothing makes the stream deliver
or end, or a client ask.

The other modules state safety only and have no fairness.

### Findings

Each is a run that checks one sentence of the repository against the model of its code.

1. `global_book_stream`, `StartsEveryProvider`: `global_book.rs:262` says that one websocket per
   provider runs, all feeding the hub. Each of them calls `Terminate::new`, the process accepts one
   signal handler, and the second call panics.
2. `global_book_twice`, `OneBookPerSource`: `global_book.rs:1` says one live book per source. A
   source that is listed twice is listed twice in the hub, and the lane counts its book twice.
   (With such a list the lane can also be read from the older handler after it was replaced, which
   is why the theorems on lanes assume that no source is repeated.)
3. `orders_drain`, `DrainsQueue`: `egress.rs:129` says that queued requests are drained. The first
   error, a plain rejection included, returns from the executor with the rest of them still queued.
4. `gym_rate`, `ReportedRateIsActive`: `train/driver.rs:32` describes the learning rate of the metrics as the
   one that was active during the update, and `wolf_ppo.rs:60` `active_lr` as the one of the next update.
   `train_step` reads it before `policy_update` has taken in the rollout's return, which may turn a win into a
   loss: the metrics tell the rate of the update before. (The update itself uses the right one,
   `RateFollowsReturn`.)

Seen while modelling, and modelled as the code has it:

- `binance-usdm-exec/src/account.rs:5` calls its state account-wide, but a position goes through the handler of
  its symbol, and a symbol without one loses it (`Unroutable`; `DrainedIsVenue` speaks of subscribed symbols).
- A level beyond the snapshot's limit is absent from the published book until a diff touches it, and the
  book of an RPI overlay starts from the plain symbol's, whose levels stay until the overlay's stream
  touches them (`OnlyUnseenLevelsStale`).
- `Env::dispatch` sends an order that the replay ring does not know of (`ReplayIsTrue` is about the orders of
  steps).
- An order whose status is not in the list of `binance-spot-exec/src/account.rs:56` stays open (`OpenStatus`).
- A difference keeps the lowest `MAX_LEVELS` prices of both sides, so on the bid side it is the levels far
  from the touch that stay (`DiffQtyLevels`).
- The viewer's difference tab treats a leg whose writer is gone as an empty book, so the difference
  is the other leg alone (`SymbolSnapshot`, and `LostLeg` in `FramesGoForward`).
- A list with an overlay and no plain source of its instrument gives a merged tab that finds no lane,
  as lanes are filed under the full instrument (`LaneSnapshot`).
- The reward of a step reads the sixth cell of the observation, which is a mid only while the oldest
  frame is a depth frame; `ReplayIsTrue` says what it is then, and nothing of the other windows.

## 4. What is proved

Every theorem holds for every value of the constants that satisfies the assumptions in the modules:
`QtyAssumption` (quantities are naturals, 0 among them), `VenueAssumption`, `SnapshotAssumption` (prices are
integers, and a depth request asks for a level), `SourcesAssumption`,
`CapacityAssumption` (a ring has a slot), `SpellingAssumption`, `ListsAssumption` and `BoundAssumption`
(upper case is idempotent, a list has a part, a book can be published), `TuiAssumption` (the list of
sources is not empty, an instrument has one overlay at most, prices are integers, a difference keeps a
level) and, for `UsdmExec`,
`OrderPipeline` and the gym, those on their sets and bounds. The proofs use no bound on the number of readers,
levels, sources, symbols, payloads, frames or commands, on the radix or on the fraction digits of an amount.

**The feed** (`DepthFeed_proof`). `PromptVenueBook` and
the others are not inductive: to know that applying a diff yields the venue's book of the diff's last
id, one has to know that the frames on the websocket cover consecutive ranges, that each names every
level that changed in its range, and where the snapshot lies among them. `IInv` therefore has five
parts, beside the types: the history of the venue and the last change of each level are consistent
(`History`), the frames on the websocket are the diffs of adjoining ranges that end at the last id sent (`Stream`),
the place of the task fits the state of the subscription and of the request (`Protocol`), the
published id (`CaughtUp`), and each level of the book is still the snapshot's or, once the stream has covered a
change of it, the venue's at the book's id (`Levelwise`, which holds whatever the snapshot says). What the
snapshot says comes in last: a level within its limit is the venue's at the snapshot's id (`Told`), and
has not changed since unless in the gap or on the stream. From this follow `FeedCaughtUp`,
`OnlyUnseenLevelsAreStale`, `PromptVenueIsFollowed` and `IdMonotone`, for every limit.

**The routing of frames** (also in `DepthFeed_proof`). `UsdmDiffReachesItsHandler` and
`SpotDiffReachesItsHandler` take any list of symbols and any set of handlers that were built. The
argument is that an overlay is told by the name of its stream, which only an enveloped frame
carries, and that envelopes are asked for whenever an overlay is subscribed.

**The left-right pair** (`OrderBook_proof`). `IInv` says, for each place of the task, how long the log
is and how much of it is published (`Lengths`), what the two copies are to each other (`Copies`), and
which guards may be on which copy (`Guards`): every guard still on the copy about to be written is one
the writer waits for. `NoTornRead` follows, and so does `CopiesDoNotDrift`. `Implementation` shows that
each step is a step of `DepthFeed` or a stutter: a diff that left the websocket but is not published
counts as not yet read (`feedSocket`), and the swap of the pointer is where the feed's book changes.
`ReadersMoveForward` adds one more invariant (`Past`: whatever a reader saw is not newer than the
published copy), and takes from the feed that ids do not go back.

**The hub** (`GlobalBook_proof`), for every list of sources without repetition (`Distinct`). A lane's id
is the greatest of its sources' ids, so `LaneIdRegressesOnLoss` needs to know that the id the lane has
came from a book that is no older now (`Lanes`), which needs the two maps of the hub to list exactly
the shards that registered (`Hub`, `Lists`); `ServedIsFilled` also needs who may work on the thread
(`Jobs`) and which books are empty (`Books`). That a finite set of ids has a greatest one is derived
from the well-foundedness of the naturals (`MaxOfIds`).

`LanesAreMerges` is `LaneIsMerge`: at every level a lane is the sum of its sources' books, whichever shard
moved last. `SumsInv` strengthens it: the list that the hub keeps for an instrument names a shard at most once
(`Listed`), and a lane that no job is about to refresh is the merge of the books that can be read and of some that
have been dropped since (`Merges`). A sum over a finite set must be known to have each of its elements
once (`SumTakes`) and not to depend on how they are numbered (`SumRenames`), since the code adds along a list and
the property along a set. Both are inductions, written for a given set of subsets instead of an
operator (`SubsetInduction`, `NatSet`), and rest on the table of partial sums that the fold of
the community modules is (`Unfold`, `Table`).

`FramesDoGoForward` is about the viewer on its own thread (`BookTui`). That an id on the screen is not
above the next one is not inductive: between two frames the feed moves, and within a frame the
viewer holds the factories it took and, in a difference, the id of the first leg. `ViewInv` adds to the hub's
invariant what the viewer holds in each phase (`Behind`, `Halfway`, `Taken`), that a factory names a
shard of its source that has registered (`Filed`), and that a book or a lane without an id has no level
(`Empties`), from which the second half of the property follows: its chart is empty. A step of the hub keeps it because
ids grow and readers keep their books unless a source is lost (`Grown`, `LegGrows`, `ShowsGrows`); a step of the
viewer because each read finds what `Shows` says. The tabs are folds over the list of sources, so that every tab is of
a plain instrument or of a source is an induction over its length (`FoldExists`, `FoldType`, `TabsType`).

**The server's life** (`Serve_proof`), for every list of symbols, whichever builds fail. What the server
has, it was sent: the factories received and those on the channel are as many as the builds that
sent one (`Offers`), so a server that has `n` of them, or a closed channel, has nothing left to wait
for (`Listening`). What was built is the multiplexor's or has been replaced by a later build of
its symbol (`Builds`, `Handlers`). `StreamingIsServed` joins the two. `FreshAnswers` needs that a
request holds a book that was offered and no newer than it is now (`Requests`).

**USDM bookkeeping** (`UsdmExec_proof`). `TypeCorrect` says more than its name: the maps hold no flat
position and no closed order. With it `HandlersMatchAccount` is inductive; the proof is that
the row that changes the account changes the handler's part of it in the same way (`ApplyOf`).
`ChannelReplays` is about a log read from its end: what a row appended to the log does to the last row
of each key (`AppendRow`), which is what the same row did to the account. Between `Apply` and `Forward` the
row in hand belongs to the log though it is not in the channel yet, which is why `OutboundReplays` speaks of `Told`.
`IngestedIsVenue` adds `Delivery`: an order comes alone in its payload, so that `ingest_message` never leaves it out
(`Alone`); of the rows of a key that are still to be applied, on the socket or in hand, the last one says what the
exchange holds (`LastIsHeld`); and a key with no such row has the exchange's state already
(`QuietIsSettled`).

**Spot bookkeeping** (`SpotExec_proof`), for every radix of at least 2 and every greatest number of fraction digits.
Two facts carry it. Adding texts adds the amounts they stand for (`SumOfTexts`): the greater of two scales
is enough for the sum, because the weights of the digits are powers of the radix that multiply
(`PowerOfSum`). And `Delivery` compares the venue not with the account but with what the account becomes
when the frames on the socket are applied (`After`), so that a frame may be ingested at any time without
disturbing it (`AfterTail`) and a new one only adds its own effect (`AfterAppend`). An account that has no
position of an asset yet has only summed changes to a balance it was never told, so `Delivery` speaks of
an asset from its first position on. `IngestedIsVenue` is `Delivery` with an empty socket.
`ChannelReplays` compares, event by event, the account with the last position of an asset
and the running totals of its changes (`Summed`, `EventReplayed`). `Power`, `Totals` and `After` are
recursive functions; that each has the value its equation gives is proved with an induction over a
set of naturals (`NatSet`, `Iterated`).

**The order pipeline** (`OrderPipeline_proof`). `PlacedInOrder` needs to know where every number is: the
batch is the end of what was emitted, the queue increases and lies behind everything the executor
took (`Numbers`). `OneInDoubt` and `NothingForgotten` need what the two ends know of each other (`Sent`)
and that an executor ends without error only when no sender is left (`Closing`).

**The forms of orders** (also in `OrderPipeline_proof`, for both crates). A request that an egress or the command line
can make is consistent (a price just when it is a limit order), a consistent request never meets an
error of the builder, so an executor is never ended by one, and Ok of `place_order` means that the
form was delivered and acknowledged.

**The gym** (`Gym_proof`), for every capacity, window, horizon, payoff window, set of events and network
that answers with integers. `RingType` (until every slot is in use, the head is the length, and
the slots in use come first) is inductive; with it a push appends to the snapshot and drops its
first element if the ring is full, which is a step of `RecentWindow` (`RingImplements`). `IInv` adds
what the ring holds: transitions of observations of at most a window of frames, the present one last,
and orders that are the end of the orders that steps sent, whatever the caller dispatches in
between (`Truth`); what the collector works on: an
observation of the network's size once it has taken it, before that the present one or the zeros
after an episode's end (`Current`); and what the trainer knows: its window is the last payoffs, its
rate the last one it used (`Rates`). `ReplayTellsTheTruth`, `RatesFollowPayoffs` and `TypeCorrect` are parts of it.
`PanicOnRagged` needs one hypothesis, that `obs_dim` is the size of a full window of depth frames: with
another one the driver panics on the full window itself. `AtMostOneWins` is about the game: the column player's window is
the row player's with the signs turned, so their sums are opposite, and with the same number of payoffs both
cannot be above their means. `AdvantagesAreDiscounted` takes the discount factors to be integers; both sides are
polynomials in them. A backward pass has one result (`FromEndSame`), and the discounted sum along the
episode satisfies the recursion of the pass, as a sum is its first term and the factor times the
sum one further (`TotalHead`, `DiscountedStep`); so does the Monte-Carlo return, less the value, with
lambda 1 (`AdvantagesOfMonteCarlo`). The observation is a flattened sequence and a mean a fold, recursive
definitions of the community modules; that they have a value for every sequence, and which, is
an induction over its length written for a set of naturals (`FlattenTable`, `SummedExists`, `TotalTable`).

**Only model-checked.** Liveness (`DiffsReachReaders`, `StopCompletes`, `QueuedIsPlaced`,
`ServerListens`): TLAPS does not handle the ENABLED of fairness. The points of a chart that is not empty
(`CurvesAreCumulative`) are evaluated on small books only.

## 5. What is not modelled

- Metrics (`src/src/servers/metrics.rs`): counters that nothing in the program reads. They are
  registered by the first scrape, so they count from then on.
- The listen-key client: three independent REST calls; nothing in `src/` schedules them.
- Sources that no crate compiles: `src/src/providers/registry.rs`, `src/src/cli/execute.rs`,
  `src/src/providers/depth/other.rs` and, in the gym, `games/harness.rs`, `games/matrix.rs`,
  `ppo/trainer.rs`, `ppo/loss.rs`, `train/metrics.rs`, `train/env_rollout.rs` and `torch.rs` among
  others.
- Networks, losses, gradients and checkpoints of the training loop, and its telemetry: numerical
  code and file I/O. The layout of the viewer's chart and the state of the terminal.
- JSON and protobuf encoding, hexadecimal digests, log and help texts, the hosts in URLs: no
  property is about them. A payload that fails to decode is modelled, by the frame it leaves behind.
- Overflow: the viewer adds two 64-bit ids and spot amounts are scaled to 128 bits; neither is near
  its limit in a state that a venue's numbers reach. A replay capacity of 0 panics at the first
  push and is assumed away.
- A caller that gives one `UsdmExecContext` to several multiplexors, as `build_multiplexor_with_context`
  (`binance-usdm-exec/src/ingress.rs:58`) lets it: `UsdmExec` has one multiplexor for an account.
- `Env::replay_buffer_mut`, with which a caller may write the replay ring past the environment.
- Crash and restart: nothing is persisted, so a restart is the initial state.

## 6. The plan, and what is left

Built, in the order of importance: the feed and its venue, the left-right pair and its refinement, the
global hub, the USDM bookkeeping, the order pipeline; then the server's life, the spot account, the
replay ring and its refinement with the environment and the training loop over it, the routing of
frames, the forms of orders, and the viewer over the hub; then the proofs about the hub, the
server's life, the ring, the routing and the forms, about the two accounts and the gym, and about the viewer.

Worth doing next:

1. The hub with `start_background` and clients asking through `Hook::get`, as `Serve` has them for
   one provider.
2. Metrics with their late registration, once something in the program reads them.
