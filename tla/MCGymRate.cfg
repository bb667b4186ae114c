CONSTANTS
  Capacity = 1
  Transition <- Transitions
  None = None
  Symbol = "eth"
  Event <- Events
  OwnMessage <- PolicyMessages
  WindowFrames = 1
  MaxFed = 2
  MaxSteps = 2
  MaxSent = 2
  PayoffWindow = 2
  ObsDim = 7
  Horizon = 1
  Gamma = 2
  Lambda = 3
  Critic <- ValueOf
  MaxRollouts = 2
  RowAction <- Rows
  ColumnAction <- Rows
  Payoff <- Pennies
  BatchSize = 2
  MaxUpdates = 4
SPECIFICATION GymSpec
INVARIANT ReportedRateIsActive
CHECK_DEADLOCK FALSE
