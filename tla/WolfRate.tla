------------------------------- MODULE WolfRate -------------------------------
(***************************************************************************)
(* Win-or-learn-fast: the choice of a trainer's learning rate              *)
(* (crates/trolly-gym/src/ppo/wolf_ppo.rs).  A trainer is its window of    *)
(* payoffs, the last payoff and the optimizer's rate.  The mean of the     *)
(* window is compared, never stored: v > sum / n is v * n > sum.           *)
(***************************************************************************)
EXTENDS Integers, Sequences, SequencesExt

CONSTANT PayoffWindow  \* WolfPpoConfig.payoff_window

\* With 0 no payoff stays, and 0 divided by 0 is no number that a payoff is above; below,
\* 0 is not above 0.
ASSUME PayoffWindowAssumption == PayoffWindow \in Nat

Total(s) == FoldLeft(LAMBDA x, y : x + y, 0, s)

\* WolfPpoTrainer::new: no payoff yet, PpoConfig.lr.
NewTrainer == [history |-> <<>>, payoff |-> 0, lr |-> "base"]

\* Mutant of IsWinning: an average payoff wins.
IsNotLosing(w) == w.payoff * Len(w.history) >= Total(w.history)

\* is_winning.
IsWinning(w) == w.payoff * Len(w.history) > Total(w.history)

\* active_lr.
ActiveLr(w) == IF IsWinning(w) THEN "win" ELSE "lose"

\* update_payoff_estimate.
UpdatePayoff(w, payoff) ==
  LET added == Append(w.history, payoff) IN
  [w EXCEPT !.payoff = payoff,
            !.history = IF Len(added) > PayoffWindow THEN Tail(added) ELSE added]

\* Mutant of PolicyUpdate: the rate is chosen before the payoff is taken in.
PolicyUpdateLate(w, payoff) == [UpdatePayoff(w, payoff) EXCEPT !.lr = ActiveLr(w)]

\* policy_update: the estimate, the rate, and the gradient epochs, which change weights only.
PolicyUpdate(w, payoff) ==
  LET updated == UpdatePayoff(w, payoff) IN [updated EXCEPT !.lr = ActiveLr(updated)]

\* The last PayoffWindow payoffs, or all of them.
RecentOf(payoffs) ==
  SubSeq(payoffs, IF Len(payoffs) < PayoffWindow THEN 1 ELSE Len(payoffs) - PayoffWindow + 1,
         Len(payoffs))

\* The rate for the last of these payoffs: small if it is above the mean of the window.
RateFor(payoffs) ==
  LET recent == RecentOf(payoffs)
  IN  IF Last(payoffs) * Len(recent) > Total(recent) THEN "win" ELSE "lose"

=============================================================================
