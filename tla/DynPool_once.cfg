CONSTANTS
  MaxThreads = 4
  MinFree = 1
  MaxFree = 1
  Step = 2
  QueueCap = 3
  Producers = {p1}
  MaxTasks = 5
  MaxStray = 0
SPECIFICATION DynSpec
INVARIANT RunsTakenTask
