------------------------------- MODULE SelfPlay -------------------------------
(***************************************************************************)
(* Self-play of two win-or-learn-fast trainers on a zero-sum matrix game   *)
(* (crates/trolly-gym/src/games/trainer.rs): each update draws a batch of  *)
(* joint actions, pays one player what the other loses, and updates first  *)
(* the row player, then the column player.                                 *)
(***************************************************************************)
EXTENDS WolfRate

CONSTANTS
  RowAction, ColumnAction,
  Payoff,         \* MatrixGame.payoff: for each joint action what the row player wins, an Int
  BatchSize,      \* joint actions of an update, at least one
  MaxUpdates      \* SelfPlayConfig.num_updates

ASSUME GameAssumption ==
  /\ Payoff \in [RowAction \X ColumnAction -> Int]
  /\ BatchSize \in Nat \ {0} /\ MaxUpdates \in Nat

VARIABLES row, column, updates
game == <<row, column, updates>>

GameInit == row = NewTrainer /\ column = NewTrainer /\ updates = 0

\* collect_rollout: the column player's payoffs, from the row player's.
ColumnPay(pay) == [i \in DOMAIN pay |-> -pay[i]]

\* One turn of the loop of run_wolf_ppo_self_play: the networks may draw any actions, and
\* a player's return is the mean of its payoffs, here their sum.
PlayBatch ==
  /\ updates < MaxUpdates
  /\ updates' = updates + 1
  /\ \E joint \in [1..BatchSize -> RowAction \X ColumnAction] :
       LET pay == [i \in 1..BatchSize |-> Payoff[joint[i]]] IN
       /\ row' = PolicyUpdate(row, Total(pay))
       /\ column' = PolicyUpdate(column, Total(ColumnPay(pay)))

GameSpec == GameInit /\ [][PlayBatch]_game

-----------------------------------------------------------------------------
(***************************************************************************)
(* What one player wins the other loses, so the two never both win: after  *)
(* any sequence of batches, through every wrap-around of the payoff        *)
(* windows, at most one of them trains with the small rate.                *)
(***************************************************************************)
NotBothWinning == ~ (row.lr = "win" /\ column.lr = "win")

=============================================================================
