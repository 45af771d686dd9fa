SPECIFICATION FairSpec
CONSTANTS
  Symbols = {s1}
  MaxLots = 1
  MaxOpened = 1
  PnLs <- LossOnly
  NoPnL = NoPnL
  NoLot = NoLot
  Markers = {"level3"}
  Routes = {"paper"}
  RealOn = FALSE
  WriteFails = FALSE
PROPERTY
  StoppedLotIsSold
