-------------------------------- MODULE GymEnv --------------------------------
(***************************************************************************)
(* The training environment (crates/trolly-gym): Env::ingest_event turns   *)
(* an event of the symbol into a frame of numbers, keeps the last frames   *)
(* as the observation and records it in the replay ring; Env::step gives   *)
(* a reward for an action, dispatches it and records the transition;       *)
(* Env::dispatch sends a message past all that.  One thread owns all of    *)
(* it.  Rewards are in thousandths of a price.                             *)
(***************************************************************************)
EXTENDS ReplayRing, Integers, SequencesExt

CONSTANTS
  Symbol,        \* EnvConfig.symbol
  Event,         \* stream events: [kind, routing_id], and [bid, ask] for depth
  OwnMessage,    \* outbound messages that the caller builds itself
  WindowFrames,  \* EnvConfig.window_frames
  MaxFed,        \* bound: events of the symbol
  MaxSteps,      \* bound: steps taken
  MaxSent        \* bound: messages sent, by steps and by Env::dispatch

ASSUME WindowAssumption == WindowFrames \in Nat \ {0}
ASSUME BoundsAssumption == MaxFed \in Nat /\ MaxSteps \in Nat /\ MaxSent \in Nat
ASSUME EventAssumption ==
  \A e \in Event : /\ e.kind \in {"depth", "execution", "account"}
                   /\ e.kind = "depth" => e.bid \in Int /\ e.ask \in Int

VARIABLES
  window,    \* ObservationWindow
  steps,     \* Env.steps
  sent,      \* outbound messages that the egress has accepted, with the call that sent each
  fed        \* number of events taken in

env == <<slots, head, len, window, steps, sent, fed>>

Action == {"Hold", "Buy", "Sell"}

\* An observation of n cells: a sequence of numbers.
Observation == FlattenSeq(window)

\* depth_features: the best levels with their quantities, spread, mid and update id.  A
\* side without a level, or with a price that does not parse, has price 0; the quantities
\* and the id are the same in every event here.
DepthFeatures(bid, ask) ==
  LET two == bid > 0 /\ ask > 0 IN
  <<bid, 1, ask, 1, IF two THEN ask - bid ELSE 0, IF two THEN (bid + ask) \div 2 ELSE 0, 0>>

\* features_from_event: other kinds give one cell.
Features(e) ==
  CASE e.kind = "depth" -> DepthFeatures(e.bid, e.ask)
    [] e.kind = "execution" -> <<2>>
    [] e.kind = "account" -> <<3>>

DepthCells == 7
MidCell == 6

\* reward_stub: the sixth cell of the observation is the mid of its oldest frame, if that
\* is a depth frame.
Reward(observation, action) ==
  LET mid == IF Len(observation) >= MidCell THEN observation[MidCell] ELSE 0 IN
  CASE action = "Hold" -> 0 [] action = "Buy" -> mid [] action = "Sell" -> -mid

\* Mutant of WindowPush: one frame more is kept.
WindowPushOneMore(frame) ==
  Append(IF Len(window) > WindowFrames THEN Tail(window) ELSE window, frame)

\* ObservationWindow::push.
WindowPush(frame) ==
  Append(IF Len(window) = WindowFrames THEN Tail(window) ELSE window, frame)

EnvInit ==
  /\ RingInit
  /\ window = <<>>
  /\ steps = 0
  /\ sent = <<>>
  /\ fed = 0

\* ingest_event.  An event of another symbol is refused.  The observation is recorded as
\* a transition that held.
Ingest(e) ==
  /\ fed < MaxFed
  /\ IF e.routing_id = Symbol
     THEN /\ window' = WindowPush(Features(e))
          /\ Push([observation |-> Observation', action |-> "Hold", reward |-> 0, done |-> FALSE])
          /\ fed' = fed + 1
     ELSE UNCHANGED <<window, ring, fed>>
  /\ UNCHANGED <<steps, sent>>

\* Action::to_outbound.
ToOutbound(action) ==
  IF action = "Hold" THEN [type |-> "Subscribe", side |-> "none"]
  ELSE [type |-> "OrderRequest", side |-> IF action = "Buy" THEN "BUY" ELSE "SELL"]

\* The message of a step.
Outbound(action) == [by |-> "step", message |-> ToOutbound(action)]

\* Mutant of Step: what is recorded is not done.
StepBeforeDispatch(action, accepted) ==
  /\ steps < MaxSteps /\ Len(sent) < MaxSent
  /\ Push([observation |-> Observation, action |-> action,
           reward |-> Reward(Observation, action), done |-> FALSE])
  /\ IF accepted THEN /\ sent' = Append(sent, Outbound(action))
                      /\ steps' = steps + 1
                 ELSE UNCHANGED <<sent, steps>>
  /\ UNCHANGED <<window, fed>>

\* step: when the egress refuses the message, step returns its error and has changed
\* nothing.  The recording egress accepts everything, the order egresses no Subscribe.
Step(action, accepted) ==
  /\ steps < MaxSteps /\ Len(sent) < MaxSent
  /\ IF accepted
     THEN /\ sent' = Append(sent, Outbound(action))
          /\ Push([observation |-> Observation, action |-> action,
                   reward |-> Reward(Observation, action), done |-> FALSE])
          /\ steps' = steps + 1
     ELSE UNCHANGED <<sent, ring, steps>>
  /\ UNCHANGED <<window, fed>>

\* dispatch, or the egress itself through egress_mut: a message of the caller's own, which
\* is sent but leaves no record.  A message that the egress refuses changes nothing.
Dispatch(message) ==
  /\ Len(sent) < MaxSent
  /\ sent' = Append(sent, [by |-> "dispatch", message |-> message])
  /\ UNCHANGED <<ring, window, steps, fed>>

EnvType ==
  /\ RingType
  /\ Len(window) <= WindowFrames
  /\ \A i \in DOMAIN window : \E e \in Event : e.routing_id = Symbol /\ window[i] = Features(e)
  /\ steps \in 0..MaxSteps /\ fed \in 0..MaxFed
  /\ \A i \in DOMAIN sent :
       IF sent[i].by = "step" THEN \E a \in Action : sent[i] = Outbound(a)
       ELSE sent[i].by = "dispatch" /\ sent[i].message \in OwnMessage

-----------------------------------------------------------------------------
\* Every transition that can be recorded: those of observations of events of the symbol.
Frames == {Features(e) : e \in {x \in Event : x.routing_id = Symbol}}
Observations == {FlattenSeq(s) : s \in UNION {[1..n -> Frames] : n \in 0..WindowFrames}}
Transitions ==
  {[observation |-> o, action |-> a, reward |-> Reward(o, a), done |-> FALSE] :
     o \in Observations, a \in Action}
ASSUME TransitionAssumption == Transitions \subseteq Transition

Snapshots == {Snapshot[i] : i \in DOMAIN Snapshot}
Mid(e) == IF e.bid > 0 /\ e.ask > 0 THEN (e.bid + e.ask) \div 2 ELSE 0

\* The order requests of steps; what was asked for by the transitions of the ring.
OrderIn(m) == IF m.by = "step" /\ m.message.type = "OrderRequest" THEN <<m>> ELSE <<>>
Orders(messages) == FlattenSeq([i \in DOMAIN messages |-> OrderIn(messages[i])])
Recorded == [i \in DOMAIN Snapshot |-> Outbound(Snapshot[i].action)]

(***************************************************************************)
(* The replay ring tells the truth about the past: an order that is        *)
(* recorded has been sent, so the orders of the snapshot are the last      *)
(* ones that steps sent, in order, whatever was dispatched in between; its *)
(* newest observation is the present one; and the reward of an order is    *)
(* plus or minus the mid of the oldest frame of its observation, when that *)
(* is a depth frame.                                                       *)
(***************************************************************************)
ReplayIsTrue ==
  /\ len > 0 => Snapshot[len].observation = Observation
  /\ IsSuffix(Orders(Recorded), Orders(sent))
  /\ \A t \in Snapshots, e \in {x \in Event : x.kind = "depth"} :
       IsPrefix(DepthFeatures(e.bid, e.ask), t.observation) /\ t.action # "Hold" =>
         t.reward = IF t.action = "Buy" THEN Mid(e) ELSE -Mid(e)

=============================================================================
