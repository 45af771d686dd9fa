SPECIFICATION LiveSpec
CONSTANTS
  MaxLoss = 3
  Returns <- Band
  MinPace = 0
  MaxPace = 30
INVARIANTS
  TypeOK
  SurvivorAboveFloor
  
PROPERTIES
  FallTightens
  ImplementsContract
  RepricingEnds
  ReconnectFreesPump
  StreamComesBack
CHECK_DEADLOCK FALSE
