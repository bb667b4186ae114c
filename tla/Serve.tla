-------------------------------- MODULE Serve --------------------------------
(***************************************************************************)
(* The depth command's life (src/monitor/depth.rs, src/servers/mod.rs,     *)
(* trolly-stream's multiplexor.rs): `--output serve` starts the book       *)
(* server on a thread of its own, which waits for one reader factory for   *)
(* each listed symbol; meanwhile the main task subscribes, builds a book   *)
(* for each symbol in tasks that run side by side, awaits them in the      *)
(* order of the list, and streams until the socket or the user ends it.    *)
(* `--output echo` builds handlers that print, and no server.  A build     *)
(* that fails panics in its own task and only its symbol is missing.       *)
(***************************************************************************)
EXTENDS Integers, Sequences, SequencesExt, FiniteSets

CONSTANTS
  Text,         \* spellings of symbols
  Upper, Trim,  \* to_uppercase and trim, on spellings
  Known,        \* the spellings that the venue's REST snapshot answers
  Lists,        \* what --symbols may be, split at its commas
  MaxVersion    \* bound: books published by one writer

ASSUME SpellingAssumption ==
  /\ Upper \in [Text -> Text] /\ Trim \in [Text -> Text]
  /\ \A t \in Text : Upper[Upper[t]] = Upper[t]
  /\ "" \in Text /\ Upper[""] = "" /\ Trim[""] = ""
ASSUME ListsAssumption == \A l \in Lists : l \in Seq(Text) /\ l # <<>>
ASSUME BoundAssumption == MaxVersion \in Nat \ {0}

VARIABLES
  config,    \* output, whether the provider is wired and the port is free, and the list
  main,      \* the main task
  task,      \* build task of each symbol to build
  awaited,   \* number of tasks that have been awaited
  writers,   \* the multiplexor's handlers: the task that built each
  gone,      \* tasks whose write handle has been dropped
  version,   \* books published by each task's writer; 0 is the empty book of a new one
  channel,   \* (symbol, factory) pairs on their way to the server
  server, received, registry,
  request,   \* the request under way, with the factory it has looked up
  answer     \* the last answer

stream == <<main, task, awaited, writers, gone, version>>
service == <<server, received, registry>>
vars == <<config, stream, channel, service, request, answer>>

\* An answer is a version, or this.
NotFound == -1
NoRequest == [key |-> "", found |-> 0, floor |-> 0]

\* A map from keys to tasks is a function on the keys.
Put(map, k, v) == [x \in DOMAIN map \cup {k} |-> IF x = k THEN v ELSE map[x]]

-----------------------------------------------------------------------------
\* DepthConfig::validate, for echo and serve.
Valid(list) == \E i \in DOMAIN list : Trim[list[i]] # ""

\* The symbols that are built: serve takes every part of the list as it is, echo trims the
\* parts and leaves out the empty ones.
Symbols(output, list) ==
  LET upper(s) == [i \in DOMAIN s |-> Upper[s[i]]] IN
  IF output = "serve" THEN upper(list)
  ELSE upper(SelectSeq([i \in DOMAIN list |-> Trim[list[i]]], LAMBDA t : t # ""))

Built == Symbols(config.output, config.list)
Task == DOMAIN Built

\* Mutants of Awaits: one less; the distinct symbols.
AwaitsOneLess == Len(config.list) - 1
AwaitsDistinct == Cardinality({Upper[config.list[i]] : i \in DOMAIN config.list})

\* n: the parts of the list.
Awaits == Len(config.list)

Init ==
  /\ \E output \in {"serve", "echo"}, wired, free \in BOOLEAN, list \in Lists :
       config = [output |-> output, wired |-> wired, free |-> free, list |-> list]
  /\ main = "start"
  /\ task = [i \in Task |-> "none"]
  /\ awaited = 0
  /\ writers = <<>>
  /\ gone = {}
  /\ version = [i \in Task |-> 0]
  /\ channel = <<>>
  /\ server = "off" /\ received = 0 /\ registry = <<>>
  /\ request = NoRequest
  /\ answer = [request |-> NoRequest, book |-> NotFound]

\* monitor, stream_depth_serve, stream_depth_echo: without a valid list nothing happens;
\* the server's thread starts before the provider is looked at.
Start ==
  /\ main = "start"
  /\ IF ~ Valid(config.list) THEN main' = "ended" /\ UNCHANGED server
     ELSE /\ main' = IF config.wired THEN "subscribing" ELSE "ended"
          /\ server' = IF config.output = "serve" THEN "waiting" ELSE "off"
  /\ UNCHANGED <<config, task, awaited, writers, gone, version, channel, received, registry,
                 request, answer>>

\* MonitorMultiplexor::subscribe, which panics when the socket cannot be opened or written,
\* and build, which spawns a task for each symbol.
Subscribe ==
  /\ main = "subscribing"
  /\ \/ main' = "building" /\ task' = [i \in Task |-> "fetching"]
     \/ main' = "exited" /\ UNCHANGED task
  /\ UNCHANGED <<config, awaited, writers, gone, version, channel, service, request, answer>>

\* OrderBook::build, up to the channel: the snapshot is fetched, or the task panics.
Fetch(i) ==
  /\ main = "building"
  /\ config.output = "serve"
  /\ task[i] = "fetching"
  /\ \/ /\ Built[i] \in Known
        /\ task' = [task EXCEPT ![i] = "sent"]
        /\ channel' = Append(channel, <<Built[i], i>>)
     \/ /\ task' = [task EXCEPT ![i] = "panicked"]
        /\ UNCHANGED channel
  /\ UNCHANGED <<config, main, awaited, writers, gone, version, service, request, answer>>

\* The rest of OrderBook::build: the snapshot is published.
Publish(i) ==
  /\ task[i] = "sent"
  /\ main # "exited"
  /\ version' = [version EXCEPT ![i] = 1]
  /\ task' = [task EXCEPT ![i] = "built"]
  /\ UNCHANGED <<config, main, awaited, writers, gone, channel, service, request, answer>>

\* EchoDepth::build.
BuildEcho(i) ==
  /\ main = "building"
  /\ config.output = "echo"
  /\ task[i] = "fetching"
  /\ task' = [task EXCEPT ![i] = "built"]
  /\ UNCHANGED <<config, main, awaited, writers, gone, version, channel, service, request, answer>>

\* MonitorMultiplexor::build awaits its tasks in order.  A handler of the same symbol is
\* replaced and dropped; a task that panicked is left out.
Await ==
  LET i == awaited + 1 IN
  /\ main = "building"
  /\ i \in Task
  /\ task[i] \in {"built", "panicked"}
  /\ awaited' = i
  /\ IF task[i] = "built"
     THEN /\ writers' = Put(writers, Built[i], i)
          /\ gone' = IF Built[i] \in DOMAIN writers THEN gone \cup {writers[Built[i]]} ELSE gone
     ELSE UNCHANGED <<writers, gone>>
  /\ UNCHANGED <<config, main, task, version, channel, service, request, answer>>

\* The end of MonitorMultiplexor::build, which drops the last sender.
StartLoop ==
  /\ main = "building"
  /\ awaited = Len(Built)
  /\ main' = "streaming"
  /\ UNCHANGED <<config, task, awaited, writers, gone, version, channel, service, request, answer>>

\* A depth update of a symbol that has a handler is published.
Update ==
  /\ main = "streaming"
  /\ config.output = "serve"
  /\ \E s \in DOMAIN writers :
       /\ version[writers[s]] < MaxVersion
       /\ version' = [version EXCEPT ![writers[s]] = @ + 1]
  /\ UNCHANGED <<config, main, task, awaited, writers, gone, channel, service, request, answer>>

\* The socket is closed, or the flag is seen: the handlers are dropped.
EndStream ==
  /\ main = "streaming"
  /\ main' = "ended"
  /\ gone' = gone \cup {writers[s] : s \in DOMAIN writers}
  /\ writers' = <<>>
  /\ UNCHANGED <<config, task, awaited, version, channel, service, request, answer>>

\* main() returns: the process ends, its threads with it.
Exit ==
  /\ main = "ended"
  /\ main' = "exited"
  /\ UNCHANGED <<config, task, awaited, writers, gone, version, channel, service, request, answer>>

-----------------------------------------------------------------------------
\* Mutant of Closed: the main task keeps a sender.
ClosedAtExit == main = "exited"

\* The senders are dropped when the builds are over, or never start.
Closed == main \in {"streaming", "ended"}

\* servers::start: a factory is registered.
Receive ==
  /\ main # "exited"
  /\ server = "waiting"
  /\ received < Awaits
  /\ channel # <<>>
  /\ registry' = Put(registry, Upper[Head(channel)[1]], Head(channel)[2])
  /\ received' = received + 1
  /\ channel' = Tail(channel)
  /\ UNCHANGED <<config, stream, server, request, answer>>

\* servers::start: n factories have come, or the channel is closed; a port that is taken
\* panics the server's thread, and no other.
Listen ==
  /\ main # "exited"
  /\ server = "waiting"
  /\ received = Awaits \/ (channel = <<>> /\ Closed)
  /\ server' = IF config.free THEN "listening" ELSE "panicked"
  /\ UNCHANGED <<config, stream, channel, received, registry, request, answer>>

\* Hook::get: the handle is cloned under the registry's lock.
Ask ==
  /\ main # "exited"
  /\ server = "listening"
  /\ request = NoRequest
  /\ \E k \in {Upper[t] : t \in Text \ {""}} :
       request' = IF k \in DOMAIN registry
                  THEN [key |-> k, found |-> registry[k], floor |-> version[registry[k]]]
                  ELSE [NoRequest EXCEPT !.key = k]
  /\ UNCHANGED <<config, stream, channel, service, answer>>

\* Mutant of Enter: a reader of a dropped writer still sees its last book.
EnterAlways(found) == IF found = 0 THEN NotFound ELSE version[found]

\* ReadHandle::enter: the book that is published now, none once the writer is gone.
Enter(found) == IF found = 0 \/ found \in gone THEN NotFound ELSE version[found]

\* The rest of Hook::get, and the answer of the gRPC or SCALE service.
Answer ==
  /\ main # "exited"
  /\ request # NoRequest
  /\ answer' = [request |-> request, book |-> Enter(request.found)]
  /\ request' = NoRequest
  /\ UNCHANGED <<config, stream, channel, service>>

Next ==
  \/ Start
  \/ Subscribe
  \/ \E i \in Task : Fetch(i) \/ Publish(i) \/ BuildEcho(i)
  \/ Await
  \/ StartLoop
  \/ Update
  \/ EndStream
  \/ Exit
  \/ Receive
  \/ Listen
  \/ Ask
  \/ Answer

(***************************************************************************)
(* The runtime polls every task that can go on, the server's thread is     *)
(* scheduled, and a REST request ends in an answer or an error.  Nothing   *)
(* makes the stream deliver, end, or a client ask.                         *)
(***************************************************************************)
Fairness ==
  /\ WF_vars(Start) /\ WF_vars(Subscribe)
  /\ WF_vars(\E i \in Task : Fetch(i) \/ Publish(i) \/ BuildEcho(i))
  /\ WF_vars(Await) /\ WF_vars(StartLoop)
  /\ WF_vars(Receive) /\ WF_vars(Listen)

Spec == Init /\ [][Next]_vars /\ Fairness

-----------------------------------------------------------------------------
TypeOK ==
  /\ config.output \in {"serve", "echo"} /\ config.wired \in BOOLEAN
  /\ config.free \in BOOLEAN /\ config.list \in Lists
  /\ main \in {"start", "subscribing", "building", "streaming", "ended", "exited"}
  /\ task \in [Task -> {"none", "fetching", "sent", "built", "panicked"}]
  /\ awaited \in Nat /\ (awaited > 0 => awaited \in Task)
  /\ \A s \in DOMAIN writers : Built[writers[s]] = s /\ writers[s] \notin gone
  /\ version \in [Task -> 0..MaxVersion]
  /\ \A i \in Task : version[i] > 0 <=> (task[i] = "built" /\ config.output = "serve")
  /\ server \in {"off", "waiting", "listening", "panicked"}
  /\ received \in Nat /\ received + Len(channel) <= Awaits
  /\ \A k \in DOMAIN registry : registry[k] \in Task

ListedOnce(s) == Cardinality({i \in Task : Built[i] = s}) = 1

(***************************************************************************)
(* Once the server listens and the stream runs, every symbol that streams  *)
(* is served from the book that its updates go to, and nothing else is     *)
(* served: a build that failed, a part of the list that is blank or not    *)
(* trimmed, takes no other symbol with it.  A symbol listed twice is the   *)
(* exception: its two builds race to the registry, and the handler that is *)
(* kept is the later in the list, so the registry may hold the reader of   *)
(* a writer that is gone.                                                  *)
(***************************************************************************)
ListedIsServed ==
  server = "listening" /\ main = "streaming" =>
    /\ DOMAIN registry = DOMAIN writers
    /\ \A s \in DOMAIN writers : ListedOnce(s) => registry[s] = writers[s]
    /\ \A s \in DOMAIN writers : registry[s] # writers[s] => registry[s] \in gone

(***************************************************************************)
(* An answer is no older than its request: it has every update published   *)
(* before the request came, it is never the empty book once the stream     *)
(* runs, and no book is answered from a writer that is gone.  NOT_FOUND is *)
(* answered only for a symbol that has no factory or whose writer is gone. *)
(***************************************************************************)
AnswersAreFresh ==
  [][LET asked == answer'.request IN
     request # NoRequest /\ request' = NoRequest =>
       IF answer'.book = NotFound THEN asked.found = 0 \/ asked.found \in gone
       ELSE /\ asked.found \notin gone
            /\ answer'.book >= asked.floor
            /\ main = "streaming" => answer'.book >= 1]_vars

(***************************************************************************)
(* The server does not wait for ever for symbols that fail: unless the     *)
(* process ends before, it listens, or finds its port taken.               *)
(***************************************************************************)
ServerListens ==
  server = "waiting" ~> (server = IF config.free THEN "listening" ELSE "panicked") \/ main = "exited"

=============================================================================
