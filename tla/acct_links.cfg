SPECIFICATION Spec
CONSTANTS
  u1 = u1
  u2 = u2
  e1 = e1
  e2 = e2
  r1 = r1
  r2 = r2
  None = None
  Users = {u1}
  Emails = {e1, e2}
  Creds = {1, 2, 3}
  Tokens = {1, 2}
  Sessions = {1, 2}
  Requests = {r1, r2}
  MaxMail = 1
SYMMETRY Alike
VIEW WithoutMailboxes
INVARIANTS LiveLinksMatchCredential SupersededSessionsAreLate
PROPERTIES ActivationIsProven OwnerIsNotified
