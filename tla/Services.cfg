SPECIFICATION MCSpec
CONSTANTS
  Callers = {c1, c2, c3}
  Symbols = {aapl, msft}
  Ttl = 2
  MaxClock = 2
  MaxCalls = 3
  Requests = {r1, r2}
  Kids = {old, new}
  MaxRotations = 1
  Tickers = {1, 2, 3, 4}
  Excluded = {4}
  BatchSize = 2
  MaxTurns = 2
  MaxMoves = 2
  MaxFrames = 2
  MaxRecords = 2
  Conns = {k1, k2}
  MaxMessages = 2
  Orders = {1}
  AllowLiveOrders = FALSE
  Life = 3
  Headroom = 2
  Interval = 1
  MaxNow = 5
  Containers = {1, 2}
  Release <- MCRelease
  MasterKeys <- MCMasterKeys
  Rows <- MCRows
  MaxFaults = 2
  Reads = {1}
  Companies = {1, 2}
  AlarmIds = {1, 2, 3}
  Limit = 1
  MaxWrites = 1
INVARIANTS
  ServicesTypeOK RotationTolerated PollsBalanced VolumeNeverInflated RecordsInOrder NoOrphans
  AnswersAreTrue TokenKept ReadyMeansDeployed ReadsAreHonest
PROPERTIES NoStaleKey PromiseSpec ServicesEnd
CHECK_DEADLOCK FALSE
