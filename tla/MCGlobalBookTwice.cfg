CONSTANTS
  spot = spot
  usdm = usdm
  btc = btc
  rpi = rpi
  Provider = {spot, usdm}
  Instrument = {btc, rpi}
  Sources <- MCSourcesTwice
  Usdm = usdm
  Plain <- MCPlain
  Bids = {1}
  DepthRows = 1
  MaxLevels = 3
  Price = {1}
  Qty = {0, 1}
  MaxId = 2
  Launchers = {"stream"}
SPECIFICATION TuiSpec
INVARIANT OneBookPerSource
CHECK_DEADLOCK FALSE
