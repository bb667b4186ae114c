SPECIFICATION Spec
CONSTANTS
  Symbol <- MCSymbol
  Subscribed <- MCSubscribed
  Side = {"BOTH"}
  Asset = {"usdt"}
  Order = {1, 2}
  SymbolOf <- MCSymbolOf
  Amount = {"0.00", "1"}
  Flat = {"0.00"}
  MaxTime = 2
  MaxPayloads = 3
  MaxRows = 2
INVARIANTS
  IInv
  OutboundReplays
  HandlersMatchAccount
  DrainedIsVenue
CHECK_DEADLOCK FALSE
