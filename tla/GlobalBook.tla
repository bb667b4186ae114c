------------------------------ MODULE GlobalBook ------------------------------
(***************************************************************************)
(* The cross-source book (src/monitor/global_book.rs): every (provider,    *)
(* symbol) of the source list is a shard with a book of its own, and the   *)
(* shards of one instrument are merged into a lane that the server and the *)
(* TUI read.  All shards live on one LocalSet thread, so the code between  *)
(* two awaits of a shard is not interrupted by another shard; the readers, *)
(* on other threads, see every store on its own.  A shard's book is one    *)
(* variable here: OrderBook.tla shows that the left-right pair amounts to  *)
(* that.                                                                   *)
(***************************************************************************)
EXTENDS DepthBook, Sequences, FiniteSets, FiniteSetsExt, Functions

CONSTANTS
  Provider,    \* the venues
  Instrument,  \* canonical instruments: the symbols
  Sources,     \* the list that parse_book_sources() returns
  MaxId,       \* bound: no snapshot and no update has an id above this one
  Launchers    \* what `launcher` may be

BookSource == [provider : Provider, instrument : Instrument]

ASSUME SourcesAssumption ==
  /\ Sources \in Seq(BookSource)
  /\ MaxId \in Nat \ {0}
  /\ Launchers \subseteq {"stream", "multiplexor"}

Shard == DOMAIN Sources
nobody == 0

VARIABLES
  launcher,   \* who runs a provider's stream: connectors::stream() with a Terminate of
              \* its own, or MonitorMultiplexor::stream() with the caller's flag
  task,       \* task[p]: the stream task of provider p
  ctrlc,      \* ctrlc::set_handler has been called in this process
  crashed,    \* why the process panicked, or "no"
  st,         \* st[k]: shard k, from its build to the drop of its WriteHandle
  book,       \* book[k]: the book shard k publishes
  job,        \* the shard the LocalSet thread is in the middle of, or nobody
  factories,  \* HubInner::factories: the shard whose book each source id names
  sources,    \* HubInner::sources_by_instrument
  merged,     \* HubInner::merged_by_instrument: the swap of each lane
  served      \* the instruments in the server's BookRegistry

hubVars == <<factories, sources, merged, served>>
shardVars == <<st, book, job>>
taskVars == <<launcher, task, ctrlc, crashed>>
vars == <<taskVars, shardVars, hubVars>>

ProviderOf(k) == Sources[k].provider
InstrumentOf(k) == Sources[k].instrument
ShardsOf(p) == {k \in Shard : ProviderOf(k) = p}
ShardsOn(i) == {k \in Shard : InstrumentOf(k) = i}

TaskTypes ==
  /\ launcher \in Launchers
  /\ task \in [Provider -> {"new", "connecting", "streaming", "ended"}]
  /\ ctrlc \in BOOLEAN
  /\ crashed \in {"no", "connect", "handler"}

ShardState ==
  {"waiting", "registered", "filled", "built", "live", "missing", "dropped"}

\* The quantities of a lane are in LaneIsMerge.
BookTypes ==
  /\ st \in [Shard -> ShardState]
  /\ book \in [Shard -> Book]
  /\ \A k \in Shard : book[k].id \in 0 .. MaxId
  /\ job \in Shard \cup {nobody}
  /\ factories \in [BookSource -> Shard \cup {nobody}]
  /\ sources \in [Instrument -> Seq(BookSource)]
  /\ merged = [i \in Instrument |-> merged[i]]
  /\ \A i \in Instrument : merged[i].id \in Nat
  /\ served \in SUBSET Instrument

TypeOK == TaskTypes /\ BookTypes

Init ==
  /\ launcher \in Launchers
  /\ task = [p \in Provider |-> IF ShardsOf(p) = {} THEN "ended" ELSE "new"]
  /\ ctrlc = FALSE
  /\ crashed = "no"
  /\ st = [k \in Shard |-> "waiting"]
  /\ book = [k \in Shard |-> Default]
  /\ job = nobody
  /\ factories = [s \in BookSource |-> nobody]
  /\ sources = [i \in Instrument |-> <<>>]
  /\ merged = [i \in Instrument |-> Default]
  /\ served = {}

Idle == crashed = "no" /\ job = nobody

\* The shard's WriteHandle exists, so its ReadHandle::enter() finds a book.
HasWriter(k) == st[k] \in {"registered", "filled", "built", "live"}

-----------------------------------------------------------------------------
\* Starting a provider's task.

\* A panic in one future of join_all unwinds the LocalSet: every handle is dropped.
Panic(why) ==
  /\ crashed' = why
  /\ st' = [k \in Shard |-> IF HasWriter(k) THEN "dropped" ELSE st[k]]
  /\ UNCHANGED <<launcher, task, ctrlc, book, job, hubVars>>

\* run_global_book_stream: the task's first poll.  Terminate::new() registers the
\* process-wide Ctrl+C handler, which the ctrlc crate allows once.
Start(p) ==
  /\ Idle
  /\ task[p] = "new"
  /\ ~ (launcher = "stream" /\ ctrlc)
  /\ task' = [task EXCEPT ![p] = "connecting"]
  /\ ctrlc' = (ctrlc \/ launcher = "stream")
  /\ UNCHANGED <<launcher, crashed, shardVars, hubVars>>

StartPanics(p) ==
  /\ Idle
  /\ task[p] = "new"
  /\ launcher = "stream" /\ ctrlc
  /\ Panic("handler")

\* subscribe(): connect, then the subscription messages.
Subscribe(p) ==
  /\ Idle
  /\ task[p] = "connecting"
  /\ task' = [task EXCEPT ![p] = "streaming"]
  /\ UNCHANGED <<launcher, ctrlc, crashed, shardVars, hubVars>>

ConnectPanics(p) ==
  /\ Idle
  /\ task[p] = "connecting"
  /\ Panic("connect")

-----------------------------------------------------------------------------
\* GlobalBookShard::build, one spawned task for each symbol.

\* Mutant of RegisterFactory: the factory is filed under the first source of the
\* instrument, so two venues share an entry.
RegisterByInstrument(k) ==
  LET id == IF sources[InstrumentOf(k)] = <<>> THEN Sources[k]
            ELSE sources[InstrumentOf(k)][1]
  IN  /\ factories' = [factories EXCEPT ![id] = k]
      /\ sources' = [sources EXCEPT ![InstrumentOf(k)] = Append(@, id)]
      /\ served' = served \cup {InstrumentOf(k)}
      /\ UNCHANGED merged

\* register_factory: the last factory of a source id wins, its id is listed again;
\* a lane that does not exist yet starts with the default book, and is served.
RegisterFactory(k) ==
  /\ factories' = [factories EXCEPT ![Sources[k]] = k]
  /\ sources' = [sources EXCEPT ![InstrumentOf(k)] = Append(@, Sources[k])]
  /\ served' = served \cup {InstrumentOf(k)}
  /\ UNCHANGED merged

\* The snapshot has arrived: left_right::new() and register_factory().
Register(k) ==
  /\ Idle
  /\ task[ProviderOf(k)] = "streaming"
  /\ st[k] = "waiting"
  /\ st' = [st EXCEPT ![k] = "registered"]
  /\ job' = k
  /\ RegisterFactory(k)
  /\ UNCHANGED <<taskVars, book>>

\* The snapshot request fails: the build panics in its own task and is swallowed.
BuildFails(k) ==
  /\ Idle
  /\ task[ProviderOf(k)] = "streaming"
  /\ st[k] = "waiting"
  /\ st' = [st EXCEPT ![k] = "missing"]
  /\ UNCHANGED <<taskVars, book, job, hubVars>>

\* append(Initialize(lob)) and publish().
Initialize(k) ==
  /\ job = k
  /\ st[k] = "registered"
  /\ \E snapshot \in [id : 1 .. MaxId, lv : Levels] :
       book' = [book EXCEPT ![k] = Extend(@, snapshot)]
  /\ st' = [st EXCEPT ![k] = "filled"]
  /\ UNCHANGED <<taskVars, job, hubVars>>

\* build() of the multiplexor awaits the symbols in order and files each handler under
\* its symbol: a handler of the same symbol that is already there is dropped.
Collect(k) ==
  /\ Idle
  /\ st[k] = "built"
  /\ \A j \in ShardsOf(ProviderOf(k)) : j < k => st[j] \in {"live", "missing", "dropped"}
  /\ st' = [j \in Shard |->
              IF j = k THEN "live"
              ELSE IF st[j] = "live" /\ Sources[j] = Sources[k] THEN "dropped"
              ELSE st[j]]
  /\ UNCHANGED <<taskVars, book, job, hubVars>>

-----------------------------------------------------------------------------
\* refresh_merged_for.

\* Quantities at the same price add up; the id is the greatest of the ids.
MergeOf(shards) ==
  [id |-> IF shards = {} THEN 0 ELSE Max({book[k].id : k \in shards}),
   lv |-> [p \in Price |-> SumFunction([k \in shards |-> book[k].lv[p]])]]

\* What refresh_merged_for computes: a source that is listed twice is read twice.
MergeLane(i) ==
  LET group == {j \in DOMAIN sources[i] : HasWriter(factories[sources[i][j]])}
      named(j) == factories[sources[i][j]]
  IN  [id |-> IF group = {} THEN 0 ELSE Max({book[named(j)].id : j \in group}),
       lv |-> [p \in Price |-> SumFunction([j \in group |-> book[named(j)].lv[p]])]]

\* Mutant of Refresh: the source that changed is added to what the lane already has.
RefreshInPlace(k) ==
  /\ crashed = "no"
  /\ job = k
  /\ st[k] \in {"filled", "live"}
  /\ merged' = [merged EXCEPT ![InstrumentOf(k)] =
                  [id |-> book[k].id, lv |-> [p \in Price |-> @.lv[p] + book[k].lv[p]]]]
  /\ st' = [st EXCEPT ![k] = IF @ = "filled" THEN "built" ELSE @]
  /\ job' = nobody
  /\ UNCHANGED <<taskVars, book, factories, sources, served>>

\* Mutant of Refresh: build() leaves the first refresh to the first diff.
RefreshOnDiffOnly(k) ==
  /\ crashed = "no"
  /\ job = k
  /\ st[k] \in {"filled", "live"}
  /\ merged' = [merged EXCEPT ![InstrumentOf(k)] =
                  IF st[k] = "live" THEN MergeLane(InstrumentOf(k)) ELSE @]
  /\ st' = [st EXCEPT ![k] = IF @ = "filled" THEN "built" ELSE @]
  /\ job' = nobody
  /\ UNCHANGED <<taskVars, book, factories, sources, served>>

\* The last call of build() and of handle_update().
Refresh(k) ==
  /\ crashed = "no"
  /\ job = k
  /\ st[k] \in {"filled", "live"}
  /\ merged' = [merged EXCEPT ![InstrumentOf(k)] = MergeLane(InstrumentOf(k))]
  /\ st' = [st EXCEPT ![k] = IF @ = "filled" THEN "built" ELSE @]
  /\ job' = nobody
  /\ UNCHANGED <<taskVars, book, factories, sources, served>>

-----------------------------------------------------------------------------
\* The loop of a provider's stream().

Looping(p) ==
  /\ task[p] = "streaming"
  /\ \A k \in ShardsOf(p) : st[k] \in {"live", "missing", "dropped"}

\* A diff of one level, stale or not.
Diffs ==
  {[first |-> i, last |-> i, touched |-> {p}, lv |-> [r \in Price |-> q]] :
     i \in 1 .. MaxId, p \in Price, q \in Qty}

\* GlobalBookShard::handle_update: the shard's book is published, then the lane is
\* refreshed.
HandleUpdate(k) ==
  /\ Idle
  /\ Looping(ProviderOf(k))
  /\ st[k] = "live"
  /\ \E u \in Diffs : book' = [book EXCEPT ![k] = Absorb(@, u)]
  /\ job' = k
  /\ UNCHANGED <<taskVars, st, hubVars>>

\* The shutdown flag is set or the venue closes the websocket: the provider's handlers
\* are dropped, the lanes are left as they are.
End(p) ==
  /\ Idle
  /\ Looping(p)
  /\ task' = [task EXCEPT ![p] = "ended"]
  /\ st' = [k \in Shard |-> IF k \in ShardsOf(p) /\ st[k] = "live" THEN "dropped" ELSE st[k]]
  /\ UNCHANGED <<launcher, ctrlc, crashed, book, job, hubVars>>

Next ==
  \/ \E p \in Provider :
       Start(p) \/ StartPanics(p) \/ Subscribe(p) \/ ConnectPanics(p) \/ End(p)
  \/ \E k \in Shard :
       Register(k) \/ BuildFails(k) \/ Initialize(k) \/ Collect(k) \/ Refresh(k)
         \/ HandleUpdate(k)

Spec == Init /\ [][Next]_vars

-----------------------------------------------------------------------------
DroppedOn(i) == {k \in ShardsOn(i) : st[k] = "dropped"}
ReadableOn(i) == {k \in ShardsOn(i) : HasWriter(k)}

(***************************************************************************)
(* Between two jobs of the LocalSet thread a lane holds the sum of the     *)
(* books of all its sources that have a writer, each once and up to date,  *)
(* and at most the last books of sources that have ended since.            *)
(***************************************************************************)
LaneIsMerge ==
  Idle => \A i \in Instrument :
            \E gone \in SUBSET DroppedOn(i) : merged[i] = MergeOf(ReadableOn(i) \cup gone)

(***************************************************************************)
(* The server can find the empty book of a lane only while the source that *)
(* opened the lane is being built.                                         *)
(***************************************************************************)
ServedIsFilled == \A i \in served : merged[i].id > 0 \/ job \in ShardsOn(i)

(***************************************************************************)
(* The update id of a lane is the greatest of the ids of its sources, so   *)
(* it goes back only when a source has been lost.                          *)
(***************************************************************************)
LaneIdRegressesOnLoss ==
  [][\A i \in Instrument : merged'[i].id < merged[i].id => DroppedOn(i) # {}]_merged

(***************************************************************************)
(* global_book.rs:262, "Run one multiplexed WebSocket per provider, all    *)
(* feeding `hub`": no provider's start brings the process down.            *)
(***************************************************************************)
StartsEveryProvider == crashed # "handler"

(***************************************************************************)
(* global_book.rs:1, "one live book per [`BookSource`], merged by [...]":  *)
(* a lane is the sum of at most one book of each of its sources.           *)
(***************************************************************************)
OneBookPerSource ==
  Idle => \A i \in Instrument :
            \E shards \in SUBSET ShardsOn(i) :
              /\ \A j, k \in shards : Sources[j] = Sources[k] => j = k
              /\ merged[i] = MergeOf(shards)

=============================================================================
