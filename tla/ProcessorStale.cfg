SPECIFICATION Spec
CONSTANTS
  w1 = w1
  w2 = w2
  o1 = o1
  o2 = o2
  stamp = stamp
  N = 3
  Kinds <- TwoSeverities
  Workers = {w1, w2}
  Commands = {}
  StampOf <- EqualCommands
  maxCASAttempts = 3
  MaxFaults = 1
  MaxLost = 1
  NoAlert = NoAlert
  Nobody = Nobody
SYMMETRY WorkerSymmetry
INVARIANTS OneActiveAlert ResultIsBacked
PROPERTY FinalStatesKept
CHECK_DEADLOCK FALSE
