CONSTANTS
  c1 = c1
  a = a
  b = b
  c = c
  t = t
  g1 = g1
  g2 = g2
  None = None
  Step = {a, b, c, t}
  User = {u1}
  Guest = {guest1}
  SessionId = {s1, s2, s3}
  Code = {c1}
  Content <- Edited
  Signal = {g1, g2}
  Marked <- MarkedEdited
  Time = {1, 2, 3}
  Attentive = 60
  Resilient = 80
SPECIFICATION PSpec
SYMMETRY Sessions
INVARIANTS
  ResultsRight
  BestIsBest
  MasteryAgrees
  ComparisonsChain
PROPERTY ProgressNeverShrinks
