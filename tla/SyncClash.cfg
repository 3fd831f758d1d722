SPECIFICATION PullSpec
CONSTANTS
  a = a
  b = b
  c = c
  w1 = w1
  w2 = w2
  v = v
  x = x
  y = y
  z = z
  Replica = {a, b}
  Worker = {w1}
  Host <- OneWorker
  Op = {x, y, z}
  Event <- Three
  Collide = {}
  Clash <- XY
  Limit = {0, 1}
  MaxDeltas = 0
  MaxFailures = 0
  MaxResets = 0
INVARIANTS AcknowledgedMaterializes
CHECK_DEADLOCK FALSE
