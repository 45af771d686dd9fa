SPECIFICATION Spec
CONSTANTS
  Symbols = {s1}
  MaxLots = 2
  MaxOpened = 2
  PnLs <- LossOnly
  NoPnL = NoPnL
  NoLot = NoLot
  Markers = {"level3", "trade"}
  Routes = {"virtual", "paper"}
  RealOn = FALSE
  WriteFails = TRUE
INVARIANTS
  TypeOK
  PendingIsSettled
  SettlesOnce
  StopNeedsVenueFill
  LiveLotsTracked
