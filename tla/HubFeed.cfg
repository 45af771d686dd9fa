SPECIFICATION Spec
CONSTANTS
  Symbols = {"BTC", "ETH"}
  DefaultFocus = "BTC"
  Routes = {"dashboard", "learning"}
  DefaultRoute = "dashboard"
  MaxDrops = 2
  MaxPicks = 1
  MaxMounts = 2
INVARIANTS FeedAgrees
PROPERTIES FeedRecovers
CHECK_DEADLOCK FALSE
