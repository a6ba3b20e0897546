SPECIFICATION FairSpec
CONSTANTS
  w1 = w1
  w2 = w2
  o1 = o1
  o2 = o2
  stamp = stamp
  N = 4
  Kinds <- ThreeSeverities
  Workers = {w1}
  Commands = {}
  StampOf <- EqualCommands
  maxCASAttempts = 3
  MaxFaults = 2
  MaxLost = 0
  NoAlert = NoAlert
  Nobody = Nobody
INVARIANTS SerialOutcome LogsAbsorbed
PROPERTY EveryEventFinishes
CHECK_DEADLOCK FALSE
