SPECIFICATION Spec
CONSTANTS
  m1 = m1
  u1 = u1
  u2 = u2
  p1 = p1
  p2 = p2
  Users = {m1, u1, u2}
  Moderators = {m1}
  Ids = {p1, p2}
  Threshold = 2
  LegacyKinds = {"move"}
  MaxVersion = 3
  MaxChanges = 1
  MaxRequests = 4
  Nobody = Nobody
SYMMETRY Alike
CHECK_DEADLOCK FALSE
INVARIANTS PendingIsCurrent LockedStaysChecked HistoryIsComplete PublishedByEnough NameNeedsConsent ProposerIsLive
PROPERTIES DecidedIsFinal
