CONSTANTS
  Symbol = {pair}
  Decimal = {decimal}
  Secret = {secret}
  none = none
  MaxCommands = 6
  MaxBatch = 3
SPECIFICATION FairSpec
INVARIANTS
  IInv
  PlacedInOrder
  OneInDoubt
  NothingForgotten
PROPERTY QueuedIsPlaced
\* The executor ends with the runtime or with an error.
CHECK_DEADLOCK FALSE
