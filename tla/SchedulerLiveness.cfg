SPECIFICATION FairSpec
CONSTANTS
  m1 = m1
  m2 = m2
  e1 = e1
  e2 = e2
  e3 = e3
  c1 = c1
  c2 = c2
  Mailboxes = {m1, m2}
  Events = {e1, e2, e3}
  Consumers = {c1, c2}
  MailboxOf <- TwoLanes
  MaxPending = 2
  MaxDrain = 1
  MaxEntries = 3
  MaxRefs = 1
  MaxSignals = 3
  MaxFaults = 1
  None = None
  Free = Free
  Stale = Stale
PROPERTIES EveryEventProcessed SettlesDown
CHECK_DEADLOCK FALSE
