CONSTANTS
  a = a
  b = b
  c = c
  t = t
  c1 = c1
  None = None
  Step = {a, b, c, t}
  User = {u1}
  Guest = {g1}
  SessionId = {s1, s2}
  Code = {c1}
  Content <- TwoVersions
  Handler = {h1, h2}
  Pick = {"risky", "critical"}
SPECIFICATION Spec
SYMMETRY Symmetric
INVARIANTS
  TypeInv
  HandlerFresh
  ReplyIsStored
  AnswersFormPath
PROPERTY ImplementsAttempt
