CONSTANTS
  p1 = p1
  p2 = p2
  Producers <- TwoProducers
  N = 3
  MaxBatch = 2
  MaxPackets = 3
  MAX_LOGS = 2
  Log <- SomeLog
  MSG_CAP = 1
  SEMVMX = 3
  MaxKills = 1
  MaxRefused = 2
  Hawks <- OnlyAI
  MIN = 7
  MAX = 10
  Crew = 2
  PrimePrograms <- AllPrimePrograms
  CHILD_COUNT = 3
  Sizes = {2, 4}
  BLOCKS = 2
  MaxLetters = 7
  OutputPrograms <- ThreePrograms
SPECIFICATION PipeSpec
INVARIANT WritesWhatWasSent
CHECK_DEADLOCK FALSE
