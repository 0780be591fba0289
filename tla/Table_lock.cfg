CONSTANTS
  Writers = {w1, w2}
  Readers = {r1}
  Gateway = Gateway
  Ids = {7, 16789}
  MaxSensors = 2
  MaxCalls = 3
  MaxInterrupts = 1
SPECIFICATION TableSpec
INVARIANT OneAtATime
