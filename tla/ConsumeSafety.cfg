SPECIFICATION Spec
CONSTANTS
  a = a
  b = b
  c = c
  d = d
  l1 = l1
  l2 = l2
  k1 = k1
  NoKey = NoKey
  Lanes = {l1, l2}
  Keys = {k1}
  Messages = {a, b, c, d}
  LaneLog <- TwoLanes
  KeyOf <- SharedKey
  WorkerCount = 2
  MaxBatchMessages = 2
  MaxInflightMessages = 3
  MaxInflightPerLane = 2
  RetryMaxAttempts = 2
  MaxRetryMessages = 1
  MaxFaults = 2
INVARIANTS TypeOK ConfirmedWereHandled KeySerial KeyOrder WindowExact ReceiveFits ReceiptsFit DrainsBeforeStop

