CONSTANTS
  w1 = w1
  w2 = w2
  w3 = w3
  a1 = a1
  a2 = a2
  p1 = p1
  Workers <- ThreeWorkers
  Adders <- TwoAdders
  Owner = Owner
  NoThread = NoThread
  QueueSize = 2
  MaxCalls = 5
  MaxSpurious = 1
  MaxThreads = 3
  MinFree = 1
  MaxFree = 1
  Step = 2
  QueueCap = 3
  Producers <- OneProducer
  MaxTasks = 4
  MaxStray = 1
SPECIFICATION PoolSpec
INVARIANTS TasksOnceInOrder NoLostWakeup FreedIsUnused QueueIsFifo CountersAgree NeverTooFew
PROPERTIES AcceptedIsRun DestroyReturns AddReturns
