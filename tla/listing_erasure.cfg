SPECIFICATION Spec
CONSTANTS
  m1 = m1
  u1 = u1
  u2 = u2
  p1 = p1
  p2 = p2
  Users = {m1, u1}
  Moderators = {m1}
  Ids = {p1}
  Threshold = 1
  LegacyKinds = {}
  MaxVersion = 2
  MaxChanges = 1
  MaxRequests = 3
  Nobody = Nobody
SYMMETRY Alike
CHECK_DEADLOCK FALSE
INVARIANTS ErasureIsComplete
