CONSTANTS
  g1 = g1
  g2 = g2
  c1 = c1
  c2 = c2
  x = x
  y = y
  z = z
  r1 = r1
  r2 = r2
  r3 = r3
  Signal = {g1, g2}
  Code = {c1, c2}
  Text = {x, y, z}
  Dir <- Clean
  Release = {r1, r2}
  FirstRelease = r1
  Seeder = {k1, k2}
  MaxRuns = 3
  MaxKills = 0
  MaxDeploys = 1
CHECK_DEADLOCK FALSE
SPECIFICATION Spec
PROPERTY Idempotent
