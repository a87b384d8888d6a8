CONSTANTS
  a = a
  t = t
  c1 = c1
  None = None
  Step = {a, t}
  User = {u1, u2}
  Guest = {g1, g2}
  SessionId = {s1, s2}
  Code = {c1}
  Content <- OneStep
  Browser = {b1, b2}
  Token = {t1, t2}
  Request = {r1, r2}
  MaxSent = 4
  Pick = {"safe"}
SPECIFICATION VSpec
SYMMETRY Symmetric
INVARIANTS
  TypeInv
  Separate
  KeepsSessions
PROPERTY ClosedStaysClosed
CHECK_DEADLOCK FALSE
