SPECIFICATION FairSpec
CONSTANTS
  a = a
  b = b
  c = c
  d = d
  l1 = l1
  l2 = l2
  k1 = k1
  NoKey = NoKey
  Lanes = {l1, l2}
  Keys = {k1}
  Messages = {a, b, d}
  LaneLog <- ThreeMessages
  KeyOf <- ThreeKeys
  WorkerCount = 1
  MaxBatchMessages = 1
  MaxInflightMessages = 2
  MaxInflightPerLane = 2
  RetryMaxAttempts = 2
  MaxRetryMessages = 1
  MaxFaults = 2
PROPERTIES EveryMessageConfirmed
