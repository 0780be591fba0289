CONSTANTS
  w1 = w1
  w2 = w2
  Workers <- TwoWorkers
  Main = main
  Cloud = cloud
  Nobody = nobody
  MaxTasks = 1
SPECIFICATION FairSpec
PROPERTY ExitCompletes
