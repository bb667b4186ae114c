------------------------------- MODULE Training -------------------------------
(***************************************************************************)
(* WolfPpoTrainDriver::train_step over the environment (crates/trolly-gym  *)
(* src/train): collect `horizon` transitions through the caller's closure, *)
(* compute returns and advantages (GAE), and update the trainer.  The      *)
(* closure is the one that rollout.rs describes: it wraps Env::step and    *)
(* reads the next observation from the window; events are ingested while   *)
(* it runs or between rollouts.  The networks are left out: an action is   *)
(* any, a value any function, and gradient steps change nothing else.      *)
(* Numbers are integers, and so are the discount factors: the identities   *)
(* checked are polynomial in them.                                         *)
(***************************************************************************)
EXTENDS GymEnv, WolfRate

CONSTANTS
  ObsDim,        \* input size of the network
  Horizon,
  Gamma, Lambda,
  Critic(_, _),  \* the value of an observation, after so many updates of the network
  MaxRollouts    \* bound: train_step calls

ASSUME HorizonAssumption == Horizon \in Nat \ {0} /\ ObsDim \in Nat \ {0} /\ MaxRollouts \in Nat

ASSUME DiscountAssumption == Gamma \in Int /\ Lambda \in Int

\* An episode that is done starts again from zeros.
Zeros(n) == [i \in 1..n |-> 0]
ASSUME CriticAssumption ==
  \A o \in Observations \cup {Zeros(ObsDim)}, n \in 0..MaxRollouts : Critic(o, n) \in Int

VARIABLES
  phase,       \* where train_step is
  current,     \* collect's current_obs
  chosen,      \* the action, value and reward of the step under way
  batch,       \* the collector's transitions
  trainer,     \* the WoLF trainer
  total_steps,
  payoffs,     \* the return of each update, over the horizon
  rates,       \* the rate each update used
  reported     \* the active_lr of each TrainMetrics

rollout == <<phase, current, chosen, batch, trainer, total_steps, payoffs, rates, reported>>
vars == <<env, rollout>>

NoStep == [action |-> "Hold", value |-> 0, reward |-> 0]

Init ==
  /\ EnvInit
  /\ phase = "idle"
  /\ current = <<>>
  /\ chosen = NoStep
  /\ batch = <<>>
  /\ trainer = NewTrainer
  /\ total_steps = 0
  /\ payoffs = <<>> /\ rates = <<>> /\ reported = <<>>

\* An event arrives while no rollout runs, or in the closure.
Feed ==
  /\ phase \in {"idle", "closure", "stepped"}
  /\ \E e \in Event : Ingest(e)
  /\ UNCHANGED rollout

\* A step of the environment outside of any rollout.
FreeStep ==
  /\ phase = "idle"
  /\ \E a \in Action, accepted \in BOOLEAN : Step(a, accepted)
  /\ UNCHANGED rollout

\* The caller sends a message of its own, between rollouts or in the closure.
FreeDispatch ==
  /\ phase \in {"idle", "closure", "stepped"}
  /\ \E m \in OwnMessage : Dispatch(m)
  /\ UNCHANGED rollout

\* train_step, and collect up to its loop.
Begin ==
  /\ phase = "idle"
  /\ Len(payoffs) < MaxRollouts
  /\ current' = Observation
  /\ batch' = <<>>
  /\ phase' = "collect"
  /\ UNCHANGED <<env, chosen, trainer, total_steps, payoffs, rates, reported>>

\* The network is asked; the size of its input must fit.
Forward ==
  /\ phase = "collect"
  /\ Len(batch) < Horizon
  /\ IF Len(current) = ObsDim
     THEN /\ \E a \in Action :
               chosen' = [action |-> a, value |-> Critic(current, Len(payoffs)), reward |-> 0]
          /\ phase' = "closure"
     ELSE phase' = "panicked" /\ UNCHANGED chosen
  /\ UNCHANGED <<env, current, batch, trainer, total_steps, payoffs, rates, reported>>

\* The closure steps the environment.
ClosureStep ==
  /\ phase = "closure"
  /\ Step(chosen.action, TRUE)
  /\ chosen' = [chosen EXCEPT !.reward = Reward(Observation, chosen.action)]
  /\ phase' = "stepped"
  /\ UNCHANGED <<current, batch, trainer, total_steps, payoffs, rates, reported>>

Collected(done) ==
  [observation |-> current, action |-> chosen.action, value |-> chosen.value,
   reward |-> chosen.reward, done |-> done]

\* Mutant of ClosureReturns: the next episode starts with no observation.
ClosureReturnsEmpty(done) ==
  /\ phase = "stepped"
  /\ batch' = Append(batch, Collected(done))
  /\ current' = IF done THEN <<>> ELSE Observation
  /\ phase' = "collect"
  /\ chosen' = NoStep
  /\ UNCHANGED <<env, trainer, total_steps, payoffs, rates, reported>>

\* The closure returns: the transition is recorded; an episode that is done starts again
\* from zeros of the rollout's first size.
ClosureReturns(done) ==
  /\ phase = "stepped"
  /\ batch' = Append(batch, Collected(done))
  /\ current' = IF done THEN Zeros(Len(Head(batch').observation)) ELSE Observation
  /\ phase' = "collect"
  /\ chosen' = NoStep
  /\ UNCHANGED <<env, trainer, total_steps, payoffs, rates, reported>>

-----------------------------------------------------------------------------
Mask(tr) == IF tr.done THEN 0 ELSE 1

\* Mutant of Gae: the advantage leaks over the end of an episode.
GaeUnmasked(trs, bootstrap, lambda) ==
  LET next(i) == IF i = Len(trs) THEN bootstrap ELSE trs[i + 1].value
      delta(i) == trs[i].reward + Gamma * next(i) * Mask(trs[i]) - trs[i].value
      gae[i \in 1..Len(trs)] ==
        delta(i) + IF i = Len(trs) THEN 0 ELSE Gamma * lambda * gae[i + 1]
  IN  gae

\* compute_gae: the advantages, from the last transition back.
Gae(trs, bootstrap, lambda) ==
  LET next(i) == IF i = Len(trs) THEN bootstrap ELSE trs[i + 1].value
      delta(i) == trs[i].reward + Gamma * next(i) * Mask(trs[i]) - trs[i].value
      gae[i \in 1..Len(trs)] ==
        delta(i) + IF i = Len(trs) THEN 0 ELSE Gamma * lambda * Mask(trs[i]) * gae[i + 1]
  IN  gae

\* compute_gae: the returns.
Returns(trs, bootstrap, lambda) ==
  LET gae == Gae(trs, bootstrap, lambda) IN [i \in DOMAIN trs |-> gae[i] + trs[i].value]

\* The rest of train_step.  The payoff is the mean of the returns, here their sum; the
\* rate that is reported is read before the update.
Update(bootstrap) ==
  /\ phase = "collect"
  /\ Len(batch) = Horizon
  /\ LET payoff == Total(Returns(batch, bootstrap, Lambda)) IN
     /\ trainer' = PolicyUpdate(trainer, payoff)
     /\ payoffs' = Append(payoffs, payoff)
  /\ reported' = Append(reported, ActiveLr(trainer))
  /\ rates' = Append(rates, trainer'.lr)
  /\ total_steps' = total_steps + Len(batch)
  /\ phase' = "idle"
  /\ UNCHANGED <<env, current, chosen, batch>>

\* The caller passes the critic's estimate of the last observation, or 0 at an episode's end.
Bootstraps == {0, Critic(Observation, Len(payoffs))}

Next ==
  \/ Feed
  \/ FreeStep
  \/ FreeDispatch
  \/ Begin
  \/ Forward
  \/ ClosureStep
  \/ \E done \in BOOLEAN : ClosureReturns(done)
  \/ \E bootstrap \in Bootstraps : Update(bootstrap)

Spec == Init /\ [][Next]_vars

-----------------------------------------------------------------------------
TypeOK ==
  /\ EnvType
  /\ phase \in {"idle", "collect", "closure", "stepped", "panicked"}
  /\ chosen.action \in Action /\ chosen.value \in Int /\ chosen.reward \in Int
  /\ Len(batch) <= Horizon
  /\ \A i \in DOMAIN batch :
       Len(batch[i].observation) = ObsDim /\ batch[i].done \in BOOLEAN
  /\ trainer.lr \in {"base", "win", "lose"} /\ Len(trainer.history) <= PayoffWindow
  /\ total_steps = Horizon * Len(payoffs)

\* The powers of a factor, up to the length of a rollout.
Powers(factor) ==
  LET power[n \in 0..Horizon] == IF n = 0 THEN 1 ELSE factor * power[n - 1] IN power

\* The episode of the i-th transition goes on to the j-th; to the end of the rollout.
SameEpisode(i, j) == \A k \in i..(j - 1) : ~ batch[k].done
GoesOn(i) == \A k \in i..Len(batch) : ~ batch[k].done

\* The sum of what the i-th transition and those after it in its episode bring, discounted.
Discounted(i, factor, term) ==
  Total([k \in 1..(Len(batch) - i + 1) |->
           IF SameEpisode(i, i + k - 1) THEN Powers(factor)[k - 1] * term[i + k - 1] ELSE 0])

Rewards == [j \in DOMAIN batch |-> batch[j].reward]

\* What a transition brings beyond what the critic expected.
Residuals(bootstrap) ==
  [j \in DOMAIN batch |->
     batch[j].reward - batch[j].value
     + IF batch[j].done THEN 0
       ELSE Gamma * IF j = Len(batch) THEN bootstrap ELSE batch[j + 1].value]

(***************************************************************************)
(* The advantages that the backward pass computes are the discounted sums  *)
(* of the residuals ahead, and never reach over the end of an episode.  As *)
(* rollout.rs says: with lambda 1 the returns are the Monte-Carlo returns, *)
(* with lambda 0 the advantages are the one-step residuals.                *)
(***************************************************************************)
GaeIsDiscountedSum ==
  phase = "collect" /\ Len(batch) = Horizon =>
    \A bootstrap \in Bootstraps, i \in DOMAIN batch :
      /\ Gae(batch, bootstrap, Lambda)[i]
           = Discounted(i, Gamma * Lambda, Residuals(bootstrap))
      /\ Gae(batch, bootstrap, 0)[i] = Residuals(bootstrap)[i]
      /\ Returns(batch, bootstrap, 1)[i] =
           Discounted(i, Gamma, Rewards)
           + IF GoesOn(i) THEN Powers(Gamma)[Len(batch) - i + 1] * bootstrap ELSE 0

(***************************************************************************)
(* Each update uses the small rate exactly when its return is above the    *)
(* mean of the last returns, itself included: over every train_step before *)
(* it, the sliding window and ties, and never the rate of another update.  *)
(***************************************************************************)
RateFollowsReturn ==
  /\ Len(rates) = Len(payoffs)
  /\ \A i \in DOMAIN payoffs : rates[i] = RateFor(SubSeq(payoffs, 1, i))

(***************************************************************************)
(* "Learning rate that was active during this update" (TrainMetrics of     *)
(* driver.rs): the rate reported with an update is the one it used.  The   *)
(* code reads it before the update, which then takes in the rollout's      *)
(* return.                                                                 *)
(***************************************************************************)
ReportedRateIsActive == \A i \in DOMAIN reported : reported[i] = rates[i]

(***************************************************************************)
(* A rollout panics only when the observation is ragged: while the window  *)
(* is not full, or an execution or account event is in it.  An episode     *)
(* that is done goes on with an observation of the right size.             *)
(***************************************************************************)
PanicsOnlyWhenRagged ==
  phase = "panicked" =>
    Len(window) < WindowFrames \/ \E i \in DOMAIN window : Len(window[i]) # DepthCells

=============================================================================
