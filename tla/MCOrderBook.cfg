CONSTANTS
  Price = {1, 2}
  Bids = {}
  Qty = {0, 1}
  Limit = 1
  MaxId = 3
  Readers = {r1}
  Promptness = {FALSE}
  Overlays = {FALSE}
SPECIFICATION FairSpec
INVARIANTS
  IInv
  NoTornRead
  CopiesDoNotDrift
PROPERTIES
  ImplementsFeed
  ReadsMoveForward
  DiffsReachReaders
  StopCompletes
CHECK_DEADLOCK FALSE
