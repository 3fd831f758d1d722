SPECIFICATION FairSpec
CONSTANTS
  a = a
  b = b
  c = c
  w1 = w1
  w2 = w2
  v = v
  x = x
  y = y
  z = z
  Replica = {a, b}
  Worker = {w1}
  Host <- OneWorker
  Op = {x, y, z}
  Event <- Two
  Collide = {}
  Clash = {}
  Limit = {1}
  MaxDeltas = 2
  MaxFailures = 1
  MaxResets = 1
PROPERTIES ProgressMonotone KeepsPromise Convergence
CHECK_DEADLOCK FALSE
