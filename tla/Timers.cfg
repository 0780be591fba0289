CONSTANTS
  w1 = w1
  w2 = w2
  Workers <- TwoWorkers
  Adders <- BothAdders
  Reactor = Reactor
  Handler = Handler
  Owner = Owner
  NoThread = NoThread
  QueueSize = 2
  MaxCalls = 1
  MaxSpurious = 1
  Intervals <- ThreeTasks
  MaxAlarmTasks = 2
  MaxTicks = 3
  Capacity = 2
  Rate = 2
  Counts <- MCCounts
  Delays <- MCDelays
  Skews <- MCSkews
  MaxReal = 1250
  MaxGranted = 6
  BUFSIZE = 3
  FileLen = 7
  MaxAlarms = 3
  Cats <- AllCats
  ANYTIMERMAX = 2
  Seconds <- SomeSeconds
  Columns = 2
  Rows = 2
  MaxSends = 3
  SignalPrograms <- FourPrograms
  c1 = c1
  c2 = c2
  TbfClients <- TwoClients
  NobodyHere = nobody
  TBFMAX = 1
  cps = 1
  burst = 2
  Wanted = {2}
  MaxBuckets = 2
  MaxTbfCalls = 3
  MaxFills = 2
SPECIFICATION ClockSpec
INVARIANTS HandlerKeepsPool FiresOnTime RateBound ServedAtRate CatKeepsRate TimersRingInTime LinesAreWhole TokensAccounted
PROPERTIES CatEnds FetchersAreServed
CHECK_DEADLOCK FALSE
