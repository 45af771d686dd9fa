SPECIFICATION FairSpec
CONSTANTS
  btc = btc
  eth = eth
  k1 = k1
  k2 = k2
  Symbols = {btc, eth}
  Sockets = {k1}
  Batch <- OneSocket
  ResubEvery = 2
  MaxFaults = 2
  Refuses = TRUE
  Malformed = FALSE
 
PROPERTIES StreamsReturn
CHECK_DEADLOCK FALSE
