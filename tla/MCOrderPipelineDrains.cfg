CONSTANTS
  Symbol = {pair}
  Decimal = {decimal}
  Secret = {secret}
  none = none
  MaxCommands = 3
  MaxBatch = 2
SPECIFICATION Spec
INVARIANT DrainsQueue
CHECK_DEADLOCK FALSE
