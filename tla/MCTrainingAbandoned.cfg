CONSTANTS
  a = a
  b = b
  c = c
  t = t
  c1 = c1
  None = None
  Step = {a, b, c, t}
  User = {u1}
  Guest = {g1}
  SessionId = {s1}
  Code = {c1}
  Content <- OneVersion
  Handler = {h1, h2}
  Pick = {"safe", "critical"}
SPECIFICATION Spec
PROPERTY AbandonedIsFinal
