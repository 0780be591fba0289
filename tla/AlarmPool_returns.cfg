CONSTANTS
  w1 = w1
  w2 = w2
  Workers <- TwoWorkers
  Adders <- BothAdders
  Reactor = Reactor
  Handler = Handler
  Owner = Owner
  NoThread = NoThread
  QueueSize = 2
  MaxCalls = 1
  MaxSpurious = 0
  Intervals <- OneTask
  MaxAlarmTasks = 1
  MaxTicks = 1
SPECIFICATION FairAlarm
PROPERTY HandlerReturns
CHECK_DEADLOCK FALSE
