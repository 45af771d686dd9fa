SPECIFICATION Spec
CONSTANTS
  Parts = {"rows", "values", "reading", "impulse", "choice", "resonance", "hawkes", "series",
           "lot", "stop", "trips", "paths", "regions", "tree",
           "trend", "exits", "churn", "grid", "memo", "bench", "scene", "binding", "inspect",
           "palette", "lab", "board"}
  Limit = 2
  Keys = {"k"}
  NoKey = ""
  NoRow = NoRow
  MaxRows = 5
  Paths = {"lit", "other"}
  LitKeys = {"lit"}
  Foreign = "foreign"
  Payloads = {"x"}
  Blank = "blank"
  NoValue = NoValue
  Origins = {"o1", "o2"}
  Ticks = {1, 2}
  LayerForms <- MCLayerForms
  MaxLayers = 3
  Words = {Buy, Sell}
  BuyWord = Buy
  SellWord = Sell
  Missing = Missing
  Symbols <- MCSymbols
  Regions = {0}
  WireKeys = {0, 9}
  Levels = {0, 1}
  MaxTick = 1
  MaxToken = 4
  OpenLots = {1, 2}
  LotBook <- MCLotBook
  Ledgers = {"paper", "real"}
  Marks = {1}
  Trail = 2
  MaxX = 3
  MaxToggles = 3
  Nothing = Nothing
  Scopes = {"B/U", "B-U", "E/U"}
  Dashed <- MCDashed
  ReadingForms <- MCReadingForms
  MaxRetained = 2
  Span = 4
  Pixels = 3
  MinGap = 2
  MaxAt = 5
  MaxSamples = 3
  MaxFrames = 2
  Slots = {0, 1}
  Absent = Absent
  Null = Null
  FillSet <- MCFillSet
  MaxFills = 3
  Stamps = {1, 2, 3}
  Stops <- MCStops
  Returns <- MCReturns
  Settled = {1, 2, 3}
  MaxEvents = 2
  BookKeys <- MCBookKeys
  Resistances = {8, 9}
  MaxChunk = 2
  Epochs = {1}
  NoneYet = NoneYet
  KnownSymbols <- MCKnownSymbols
  IndexTails <- MCIndexTails
  Sectors = {"R0", "R1"}
  Brightness = {1}
  MaxRing = 2
  MaxStep = 2
  MaxRefused = 1
  Sentences <- MCSentences
  TrieKeys <- MCTrieKeys
  TrieLevels <- MCTrieLevels
  MaxTrie = 2
  Walkers = {"s"}
  Walks <- MCWalks
  MaxClicks = 1
  Nowhere = Nowhere
  Unknown = Unknown
  Samples <- MCSamples
  PlotSizes <- MCPlotSizes
  Window = 4
  Lookback = 3
  RecentN = 4
  DeskLots = {1, 2, 3}
  DeskRows <- MCDeskRows
  TriggerCap = 2
  PathStates <- MCPathStates
  Eligible = {20, 50}
  None = None
  Grids = {"g", "h"}
  Windows <- MCWindows
  TableRows = 7
  BufferRows = 4
  Overscan = 1
  MaxFetches = 4
  Questions = {"q", "r"}
  MaxAsked = 3
  Hosted = {{}, {"t", "closed_"}}
  MaxBoots = 3
  PinRegion <- MCPinRegion
  Glows = {0, 2, 15}
  Sizes = {1, 2}
  MaxTimers = 2
  Cells <- MCCells
  Tickers = {"S", "T"}
  FrameReadings <- MCReadings
  NaN = NaN
  NoFrame = NoFrame
  Fallback = Fallback
  Gone = Gone
  Headline = "m"
  SeriesWindow = 2
  Kernels = {"hawkes", "cvd"}
  InspectSymbols = {"S", "T"}
  KernelMetrics <- MCKernelMetrics
  Shut = Shut
  HistoryCap = 2
  MaxKernelFrames = 2
  PaletteEntries <- MCPaletteEntries
  Finds <- MCFinds
  AllText = ""
  Undefined = Undefined
  FirstFocus = "B/U"
  Clicks <- MCClicks
  MaxPaletteIndex = 3
  Oracles = {"vol"}
  RiskValues = {2}
  RiskDefault = 1
  RezDefaults <- MCRezDefaults
  BoardSymbols = {1, 2}
  BoardBooks = {"virtual", "paper"}
  WireDecisions <- MCWireDecisions
CHECK_DEADLOCK FALSE
INVARIANTS
  ReadingsAreTrue
  
  
  
  ReportTellsOneStory
  WarehouseAnswers
  ShellIsTrue
PROPERTIES
  NothingShownIsLost
