CONSTANTS
  Capacity = 2
  Transition <- Transitions
  None = None
  Symbol = "eth"
  Event <- Events
  OwnMessage <- PolicyMessages
  WindowFrames = 2
  MaxFed = 3
  MaxSteps = 4
  MaxSent = 4
  PayoffWindow = 2
  ObsDim = 14
  Horizon = 2
  Gamma = 2
  Lambda = 3
  Critic <- ValueOf
  MaxRollouts = 2
  RowAction <- Rows
  ColumnAction <- Rows
  Payoff <- Pennies
  BatchSize = 2
  MaxUpdates = 4
SPECIFICATION GymSpec
INVARIANTS IInv ReplayIsTrue GaeIsDiscountedSum RateFollowsReturn PanicsOnlyWhenRagged NotBothWinning
PROPERTY RingKeepsLast
CHECK_DEADLOCK FALSE
