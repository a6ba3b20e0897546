SPECIFICATION Spec
CONSTANTS
  w1 = w1
  w2 = w2
  o1 = o1
  o2 = o2
  stamp = stamp
  N = 2
  Kinds <- TwoSeverities
  Workers = {w1}
  Commands = {o1, o2}
  StampOf <- EqualCommands
  maxCASAttempts = 3
  MaxFaults = 1
  MaxLost = 0
  NoAlert = NoAlert
  Nobody = Nobody
SYMMETRY CommandSymmetry
INVARIANTS TypeOK CloseAnswered
PROPERTY FinalStatesKept
CHECK_DEADLOCK FALSE
