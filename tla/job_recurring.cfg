SPECIFICATION Spec
CONSTANTS
  gc = gc
  w1 = w1
  w2 = w2
  NoOwner = NoOwner
  Workers = {w1, w2}
  Inliners = {}
  Mail = {}
  Plain = {}
  Gc = {gc}
  Retention = {}
  Unregistered = {}
  MaxAttempts = 2
  BatchSize = 1
  LeaseTtl = 1
  InlineLease = 1
  InlineDelay = 1
  Period = 1
  BackoffBase = 1
  MaxDelay = 4
  Seqs = {0, 1, 2}
  MaxFaults = 2
  LegacyRows <- LegacyAll
INVARIANTS BootstrappedMeansScheduled
