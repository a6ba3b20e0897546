SPECIFICATION ArchiveSpec
CONSTANTS
  w1 = w1
  w2 = w2
  o1 = o1
  stamp = stamp
  N = 2
  Kinds <- TwoSeverities
  Workers = {w1}
  Commands = {}
  StampOf <- Stamps
  maxCASAttempts = 2
  MaxFaults = 1
  MaxLost = 0
  NoAlert = NoAlert
  Nobody = Nobody
  Limit = 1
  NoBucket = {}
INVARIANT EndedByIsRecorded
CHECK_DEADLOCK FALSE
