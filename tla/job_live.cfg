SPECIFICATION FairSpec
CONSTANTS
  ret = ret
  m1 = m1
  w1 = w1
  NoOwner = NoOwner
  Workers = {w1}
  Inliners = {}
  Mail = {m1}
  Plain = {}
  Gc = {}
  Retention = {ret}
  Unregistered = {}
  MaxAttempts = 2
  BatchSize = 1
  LeaseTtl = 1
  InlineLease = 1
  InlineDelay = 1
  Period = 1
  BackoffBase = 1
  MaxDelay = 4
  Seqs = {0, 1, 2}
  MaxFaults = 1
  LegacyRows <- LegacyUnscheduled
PROPERTIES OneShotSettles RecurringKeepsRunning
