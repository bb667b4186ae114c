CONSTANTS
  Price = {1, 2}
  Bids = {1, 2}
  Qty = {0, 1}
  Limit = 1
  MaxId = 5
  Promptness = {TRUE, FALSE}
  Overlays = {TRUE, FALSE}
  Raw = {btc, eth}
SPECIFICATION Spec
INVARIANTS
  IInv
  OnlyUnseenLevelsStale
  PromptVenueBook
  CaughtUp
PROPERTY IdNeverGoesBack
\* The stream ends and the program with it.
CHECK_DEADLOCK FALSE
