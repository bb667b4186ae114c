CONSTANTS
  eth = eth
  sol = sol
  oEth = oEth
  oSol = oSol
  btc = btc
  usdt = usdt
  Symbol = {eth, sol}
  Subscribed = {eth}
  Asset = {btc, usdt}
  Order = {oEth, oSol}
  SymbolOf <- SymbolOfOrder
  Base = 2
  MaxScale = 1
  MaxAmount = 1
  MaxFrames = 3
SPECIFICATION Spec
INVARIANTS IInv OutboundReplays DrainedIsVenue
CHECK_DEADLOCK FALSE
