CONSTANTS
  Text <- Spellings
  Upper <- UpperOf
  Trim <- TrimOf
  Known = {"BTC", "ETH"}
  Lists <- SymbolLists
  MaxVersion = 3
SPECIFICATION Spec
INVARIANTS IInv ListedIsServed
PROPERTIES AnswersAreFresh ServerListens
CHECK_DEADLOCK FALSE
