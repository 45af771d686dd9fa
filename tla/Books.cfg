SPECIFICATION Spec
CONSTANTS
  btc = btc
  eth = eth
  k1 = k1
  k2 = k2
  Symbols = {btc, eth}
  Sockets = {k1, k2}
  Batch <- TwoSockets
  ResubEvery = 2
  MaxFaults = 2
  Refuses = TRUE
  Malformed = TRUE
INVARIANTS TypeOK TradingAfterSeeding LostIsHidden
CHECK_DEADLOCK FALSE
