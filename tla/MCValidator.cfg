CONSTANTS
  a = a
  b = b
  t = t
  lost = lost
  g1 = g1
  None = None
  Step = {a, b, t, lost}
  Known = {g1}
  MinDialogSteps = 1
  MaxDialogSteps = 2
  Inputs <- AllFiles
SPECIFICATION FairSpec
INVARIANTS
  TypeOK
  VerdictRight
  GraphRight
  AcceptedIsPlayable
PROPERTY ValidationEnds
CHECK_DEADLOCK FALSE
