SPECIFICATION Spec
CONSTANTS
  m1 = m1
  m2 = m2
  e1 = e1
  e2 = e2
  e3 = e3
  c1 = c1
  c2 = c2
  Mailboxes = {m1}
  Events = {e1, e2}
  Consumers = {c1, c2}
  MailboxOf <- TwoLanes
  MaxPending = 2
  MaxDrain = 2
  MaxEntries = 1
  MaxRefs = 2
  MaxSignals = 3
  MaxFaults = 2
  None = None
  Free = Free
  Stale = Stale
SYMMETRY Handlers
INVARIANTS TypeOK NoLostWakeup TrimKeepsOwed NoEventLost InArrivalOrder
PROPERTIES LeaseHandedOverSafely LanesImplemented
CHECK_DEADLOCK FALSE
