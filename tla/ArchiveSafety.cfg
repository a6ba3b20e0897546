SPECIFICATION FairArchiveSpec
CONSTANTS
  w1 = w1
  w2 = w2
  o1 = o1
  stamp = stamp
  N = 2
  Kinds <- TwoSeverities
  Workers = {w1}
  Commands = {o1}
  StampOf <- Stamps
  maxCASAttempts = 2
  MaxFaults = 1
  MaxLost = 0
  NoAlert = NoAlert
  Nobody = Nobody
  Limit = 1
  NoBucket = {2}
INVARIANTS ArchiveTypeOK OneActiveDocument
PROPERTIES EndedKept EndedAreArchived
CHECK_DEADLOCK FALSE
