CONSTANTS
  w1 = w1
  w2 = w2
  r1 = r1
  c1 = c1
  c2 = c2
  Writers <- TwoWriters
  Readers <- OneReader
  Gateway = Gateway
  Ids <- MCIds
  MaxSensors = 2
  MaxCalls = 3
  MaxInterrupts = 1
  Children <- TwoChildren
  CmdLen = 3
  BufLen = 4
  PipeCap = 8
  MaxSubmits = 4
  Workers <- TwoWriters
  Main = main
  Cloud = cloud
  Nobody = nobody
  MaxTasks = 3
  Instances = {1, 2, 3}
  MaxFiles = 2
  DaemonPrograms <- AllDaemons
SPECIFICATION GateSpec
INVARIANTS ReadsLastStored StreamIsOrdered ExitIsOrderly OneWorks
PROPERTIES CallsReturn OrphansEnd
