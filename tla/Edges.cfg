SPECIFICATION EdgesSpec
CONSTANTS
  a = a
  b = b
  Signers <- TwoSigners
  MaxClock = 4
  MaxNonce = 4
  MaxCrashes = 2
  StepsBack = TRUE
  DiskFails = TRUE
  Dashboards <- TwoDashboards
  Publishers <- OneTick
  NoSocket = "none"
  QueueFrames = 1
  FrameBound <- ThreeFrames
  StreamBound <- ThreeStreams
  Callers <- ReaderAndWriter
  Readers <- OneReader
  Pinger = "pinger"
  MaxFaults = 2
  MaxConns = 3
  MaxNest = 1
  N = 2
  Books <- TwoBooks
  BookOf <- OneLotEach
  Bids <- OneMark
  Pcts <- OneMark
  Stamps <- ViewStamps
  PctOf <- ViewPctOf
  SessionLimit = 1
  HistoryCap = 1
  MarkCap = 2
  ChartSamples = 2
  MaxTime = 1
  NoRow = NoRow
INVARIANTS
  TypeOK
  IncreasingUnlessRewound
  MarkCoversDisk
  OpenSocketIsFed
  StreamsAreReachable
  LiveIsSubscribed
  
PROPERTIES
  SettledStays
SYMMETRY SignersSymmetry
CHECK_DEADLOCK FALSE
