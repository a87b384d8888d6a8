CONSTANTS
  c1 = c1
  a = a
  b = b
  c = c
  t = t
  None = None
  Step = {a, b, c, t}
  User = {u1}
  Guest = {g1}
  SessionId = {s1, s2}
  Code = {c1}
  Content <- TwoVersions
SPECIFICATION FairSpec
INVARIANTS
  TypeOK
  OneActive
  ScoreIsSum
  AnswersFormPath
  NeverStuck
PROPERTIES
  CompletedFrozen
  EveryWalkEnds
