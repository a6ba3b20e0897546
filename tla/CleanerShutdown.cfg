SPECIFICATION FairSpec
CONSTANTS
  a = a
  b = b
  d = d
  l1 = l1
  l2 = l2
  Messages = {a, d}
  Lanes = {l1, l2}
  LaneLog <- OneEach
  Malformed = {d}
  Refused = {}
  MaxBatchMessages = 2
  MaxConcurrentBatches = 1
  MaxInflightMessages = 2
  MaxInflightPerLane = 2
  ResumeInflightPerLane = 1
  RetryMaxAttempts = 1
  MaxFaults = 1
PROPERTY ShutdownEnds
CHECK_DEADLOCK FALSE
