---------------------------- MODULE OrderPipeline ----------------------------
(***************************************************************************)
(* From a strategy's decision to an order at the venue.  The runtime hands *)
(* an event to the strategy and dispatches the commands that it returns    *)
(* (crates/trolly-strategy/src/runtime.rs); the egress turns a command     *)
(* into a request and queues it on an unbounded channel; the order         *)
(* executor, a task of its own, takes the requests out one by one and      *)
(* posts them (egress.rs and order.rs of the two exec crates, which do the *)
(* same).  Commands are numbered in the order the strategy emits them.     *)
(***************************************************************************)
EXTENDS Naturals, Sequences, FiniteSets

CONSTANTS
  MaxCommands,  \* bound: commands that the strategy emits
  MaxBatch      \* bound: commands that it emits for one event

ASSUME BoundsAssumption == MaxCommands \in Nat /\ MaxBatch \in Nat

VARIABLES
  kinds,     \* kinds[n]: whether the n-th command can become an order
  batch,     \* commands of the event being dispatched
  refused,   \* commands whose dispatch returned an error
  abandoned, \* commands behind a refused one of the same event
  alive,     \* the runtime, and the sender of its egress, exist
  queue,     \* requests in the channel
  executor,  \* where run_order_executor is
  request,   \* the request that it is placing, or has failed on; 0 for none
  wire,      \* requests that the venue may still receive
  answers,   \* requests that the venue has acted on, and how, not read yet
  placed,    \* orders that the venue has accepted, in order
  acked      \* orders that place_order returned Ok for

strategyVars == <<kinds, batch, refused, abandoned, alive>>
executorVars == <<executor, request, acked>>
venueVars == <<wire, answers, placed>>
vars == <<strategyVars, queue, executorVars, venueVars>>

Kind == {"order", "unplaceable"}
Commands == 1 .. MaxCommands

TypeOK ==
  /\ kinds \in Seq(Kind) /\ Len(kinds) <= MaxCommands
  /\ batch \in Seq(Commands)
  /\ refused \subseteq Commands
  /\ abandoned \subseteq Commands
  /\ alive \in BOOLEAN
  /\ queue \in Seq(Commands)
  /\ executor \in {"recv", "post", "reply", "finished", "failed"}
  /\ request \in 0 .. MaxCommands
  /\ request = 0 <=> executor \in {"recv", "finished"}
  /\ wire \subseteq Commands
  /\ answers \subseteq Commands \X {"accepted", "rejected"}
  /\ placed \in Seq(Commands)
  /\ acked \subseteq Commands

Init ==
  /\ kinds = <<>>
  /\ batch = <<>>
  /\ refused = {}
  /\ abandoned = {}
  /\ alive = TRUE
  /\ queue = <<>>
  /\ executor = "recv"
  /\ request = 0
  /\ wire = {}
  /\ answers = {}
  /\ placed = <<>>
  /\ acked = {}

Ended == executor \in {"finished", "failed"}

-----------------------------------------------------------------------------
\* The runtime.

\* StrategyRuntime::ingest: the strategy changes its state and returns commands.
OnEvent(cmds) ==
  /\ alive /\ batch = <<>>
  /\ Len(kinds) + Len(cmds) <= MaxCommands
  /\ kinds' = kinds \o cmds
  /\ batch' = [i \in 1 .. Len(cmds) |-> Len(kinds) + i]
  /\ UNCHANGED <<refused, abandoned, alive, queue, executorVars, venueVars>>

\* place_order_from_outbound fails on Subscribe, Raw, and an order whose side, time in
\* force or position side does not parse.
Placeable(n) == kinds[n] = "order"

\* dispatch: the request enters the channel while the executor holds its other end.
Dispatch ==
  /\ batch # <<>>
  /\ Placeable(Head(batch)) /\ ~ Ended
  /\ queue' = Append(queue, Head(batch))
  /\ batch' = Tail(batch)
  /\ UNCHANGED <<kinds, refused, abandoned, alive, executorVars, venueVars>>

\* dispatch returns an error (Builder, Unsupported, ChannelClosed): `?` leaves the loop,
\* and the rest of the event's commands are gone.
DispatchFails ==
  /\ batch # <<>>
  /\ ~ Placeable(Head(batch)) \/ Ended
  /\ refused' = refused \cup {Head(batch)}
  /\ abandoned' = abandoned \cup {batch[i] : i \in 2 .. Len(batch)}
  /\ batch' = <<>>
  /\ UNCHANGED <<kinds, alive, queue, executorVars, venueVars>>

\* The hub is dropped, and the sender with it.
DropRuntime ==
  /\ alive /\ batch = <<>>
  /\ alive' = FALSE
  /\ UNCHANGED <<kinds, batch, refused, abandoned, queue, executorVars, venueVars>>

-----------------------------------------------------------------------------
\* run_order_executor.

Recv ==
  /\ executor = "recv" /\ queue # <<>>
  /\ request' = Head(queue)
  /\ queue' = Tail(queue)
  /\ executor' = "post"
  /\ UNCHANGED <<strategyVars, acked, venueVars>>

\* Mutant of RecvNone: the executor ends as soon as the sender is gone.
EndWithSender ==
  /\ executor = "recv" /\ ~ alive
  /\ executor' = "finished"
  /\ UNCHANGED <<strategyVars, queue, request, acked, venueVars>>

\* recv() yields None once the channel is empty and the sender is gone.
RecvNone ==
  /\ executor = "recv" /\ queue = <<>> /\ ~ alive
  /\ executor' = "finished"
  /\ UNCHANGED <<strategyVars, queue, request, acked, venueVars>>

\* post_form: connect, write the request.
Post ==
  /\ executor = "post"
  /\ wire' = wire \cup {request}
  /\ executor' = "reply"
  /\ UNCHANGED <<strategyVars, queue, request, acked, answers, placed>>

\* Mutant of Acknowledged: the executor places one order and returns.
PlaceOne ==
  /\ executor = "reply"
  /\ <<request, "accepted">> \in answers
  /\ answers' = answers \ {<<request, "accepted">>}
  /\ acked' = acked \cup {request}
  /\ request' = 0
  /\ executor' = "finished"
  /\ UNCHANGED <<strategyVars, queue, wire, placed>>

\* The response arrives, has status 200 and decodes.
Acknowledged ==
  /\ executor = "reply"
  /\ <<request, "accepted">> \in answers
  /\ answers' = answers \ {<<request, "accepted">>}
  /\ acked' = acked \cup {request}
  /\ request' = 0
  /\ executor' = "recv"
  /\ UNCHANGED <<strategyVars, queue, wire, placed>>

\* Mutants of PlaceFails: the error is logged and the next request taken; the request
\* is posted again.
KeepsGoing ==
  /\ executor \in {"post", "reply"}
  /\ executor' = "recv"
  /\ UNCHANGED <<strategyVars, queue, request, acked, venueVars>>
Retries ==
  /\ executor = "reply"
  /\ executor' = "post"
  /\ UNCHANGED <<strategyVars, queue, request, acked, venueVars>>

\* place_order fails, at any point: no connection; the connection breaks before or
\* after the venue has read the request; an API error; a status or a body it does not
\* understand, also of a success.  `?` ends the executor and drops the channel.
PlaceFails ==
  /\ executor \in {"post", "reply"}
  /\ executor' = "failed"
  /\ wire' \in SUBSET wire
  /\ UNCHANGED <<strategyVars, queue, request, acked, answers, placed>>

-----------------------------------------------------------------------------
\* The venue, which may read a request late, or after the client has given up.

Accept(n) ==
  /\ n \in wire
  /\ wire' = wire \ {n}
  /\ placed' = Append(placed, n)
  /\ answers' = answers \cup {<<n, "accepted">>}
  /\ UNCHANGED <<strategyVars, queue, executorVars>>

Reject(n) ==
  /\ n \in wire
  /\ wire' = wire \ {n}
  /\ answers' = answers \cup {<<n, "rejected">>}
  /\ UNCHANGED <<strategyVars, queue, executorVars, placed>>

Batches == UNION {[1 .. n -> Kind] : n \in 1 .. MaxBatch}
Executor == Recv \/ RecvNone \/ Post \/ Acknowledged

Next ==
  \/ \E cmds \in Batches : OnEvent(cmds)
  \/ Dispatch
  \/ DispatchFails
  \/ DropRuntime
  \/ Recv
  \/ RecvNone
  \/ Post
  \/ Acknowledged
  \/ PlaceFails
  \/ \E n \in Commands : Accept(n) \/ Reject(n)

Spec == Init /\ [][Next]_vars

(***************************************************************************)
(* The scheduler polls the executor, and every connection gets an answer   *)
(* or breaks; nothing makes the strategy emit, and nothing has to fail.    *)
(* The code sets no timeout of its own: an answer that is neither given    *)
(* nor cut off would keep the executor waiting.                            *)
(***************************************************************************)
Fairness ==
  /\ WF_vars(Executor)
  /\ WF_vars(\E n \in Commands : Accept(n) \/ Reject(n))
  /\ WF_vars(PlaceFails /\ <<request, "rejected">> \in answers)

FairSpec == Spec /\ Fairness

-----------------------------------------------------------------------------
\* Commands whose dispatch returned Ok.
Dispatched ==
  (1 .. Len(kinds)) \ (refused \cup abandoned \cup {batch[i] : i \in DOMAIN batch})

(***************************************************************************)
(* Orders reach the venue in the order the strategy emitted them, and none *)
(* twice, whatever breaks: the executor has one request in the air at a    *)
(* time and never posts one again.                                         *)
(***************************************************************************)
PlacedInOrder ==
  \A i, j \in DOMAIN placed : i < j => placed[i] < placed[j]

(***************************************************************************)
(* When the executor has failed, the fate of at most one order is unknown: *)
(* every other order that the venue accepted has been acknowledged.        *)
(***************************************************************************)
OneInDoubt ==
  /\ \A i \in DOMAIN placed : placed[i] \in acked \cup {request}
  /\ wire \subseteq {request}

(***************************************************************************)
(* An executor that ends without an error has placed every order that      *)
(* dispatch accepted, and one that has not ended still has those it has    *)
(* not placed.                                                             *)
(***************************************************************************)
NothingForgotten ==
  /\ executor = "finished" => Dispatched \subseteq acked
  /\ ~ Ended =>
       Dispatched \subseteq acked \cup {request} \cup {queue[i] : i \in DOMAIN queue}

(***************************************************************************)
(* Every queued order is placed in the end, or the executor has failed.    *)
(***************************************************************************)
QueuedIsPlaced ==
  \A n \in Commands :
    (\E i \in DOMAIN queue : queue[i] = n) ~> (n \in acked \/ executor = "failed")

(***************************************************************************)
(* egress.rs: "Drain queued requests and place them via REST."  When the   *)
(* executor has ended, no request is left in the queue.                    *)
(***************************************************************************)
DrainsQueue == Ended => queue = <<>>

=============================================================================
