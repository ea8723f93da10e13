SPECIFICATION Spec
CONSTANTS
  i1 = i1
  m1 = m1
  p1 = p1
  w1 = w1
  NoOwner = NoOwner
  Workers = {w1}
  Inliners = {i1}
  Mail = {m1}
  Plain = {p1}
  Gc = {}
  Retention = {}
  Unregistered = {p1}
  MaxAttempts = 2
  BatchSize = 2
  LeaseTtl = 2
  InlineLease = 1
  InlineDelay = 1
  Period = 1
  BackoffBase = 1
  MaxDelay = 4
  Seqs = {0, 1, 2, 3}
  MaxFaults = 2
  LegacyRows <- LegacyNone
INVARIANTS HolderSnapshotCurrent TerminalMailIsRedacted
PROPERTIES ImplementsContract
