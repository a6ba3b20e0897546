SPECIFICATION Spec
CONSTANTS
  a = a
  b = b
  d = d
  l1 = l1
  l2 = l2
  Messages = {a, b, d}
  Lanes = {l1, l2}
  LaneLog <- ShortLanes
  Malformed = {}
  Refused = {d}
  MaxBatchMessages = 2
  MaxConcurrentBatches = 1
  MaxInflightMessages = 2
  MaxInflightPerLane = 2
  ResumeInflightPerLane = 1
  RetryMaxAttempts = 1
  MaxFaults = 2
INVARIANTS TypeOK ConfirmedAreHandedOn NoNeedlessDuplicates WindowIsExact PausedLaneDrains
PROPERTY NoOvertaking
CHECK_DEADLOCK FALSE
