-------------------------------- MODULE MCGym --------------------------------
(* The environment and its training, or a game of self-play: the two share no *)
(* state, and each behaviour is one of them.                                  *)
EXTENDS Gym_proof

VARIABLE selfPlay

\* A spread, another one, a missing bid; an account event; another symbol's depth.
Events ==
  {[kind |-> "depth", routing_id |-> "eth", bid |-> 4, ask |-> 6],
   [kind |-> "depth", routing_id |-> "eth", bid |-> 0, ask |-> 8],
   [kind |-> "account", routing_id |-> "eth"],
   [kind |-> "depth", routing_id |-> "btc", bid |-> 10, ask |-> 12]}

\* What a policy may dispatch past the environment.
PolicyMessages == {[type |-> "OrderRequest", side |-> "SELL"]}

\* A value for each observation that changes with the network.
ValueOf(observation, n) ==
  (n + IF observation = <<>> THEN 0 ELSE observation[1] + 2 * Last(observation)) % 3

\* Matching pennies with weights.
Rows == {"heads", "tails"}
Pennies == [a \in Rows \X Rows |-> IF a[1] # a[2] THEN -1 ELSE IF a[1] = "heads" THEN 2 ELSE 1]

GymInit == Init /\ GameInit /\ selfPlay \in BOOLEAN
GymNext ==
  \/ ~ selfPlay /\ Next /\ UNCHANGED <<selfPlay, game>>
  \/ selfPlay /\ PlayBatch /\ UNCHANGED <<vars, selfPlay>>
GymSpec == GymInit /\ [][GymNext]_<<vars, selfPlay, game>>

=============================================================================
