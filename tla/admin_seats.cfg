SPECIFICATION Spec
CONSTANTS
  a1 = a1
  a2 = a2
  a3 = a3
  t1 = t1
  t2 = t2
  t3 = t3
  Users = {a1, a2, a3}
  Admins0 = {a1, a2}
  Verified = {a1, a2}
  Txs = {t1, t2}
  MaxGrants = 2
SYMMETRY Alike
INVARIANTS FloorHoldsWithoutGrants
PROPERTIES SuspensionKeepsActiveAdmin
CHECK_DEADLOCK FALSE
