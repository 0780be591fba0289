CONSTANTS
  TbfClients = {c1, c2}
  NobodyHere = nobody
  TBFMAX = 1
  cps = 1
  burst = 2
  Wanted = {2}
  MaxBuckets = 2
  MaxTbfCalls = 3
  MaxFills = 2
SPECIFICATION TbfSpec
INVARIANT NoWildPointer
CHECK_DEADLOCK FALSE
