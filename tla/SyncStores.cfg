SPECIFICATION Spec
CONSTANTS
  a = a
  b = b
  c = c
  w1 = w1
  w2 = w2
  v = v
  x = x
  y = y
  z = z
  Replica = {a, b, c}
  Worker = {w1, w2}
  Host <- OneSided
  Op = {v, x, y, z}
  Event <- ThreeOfFour
  Collide <- VX
  Clash = {}
  Limit = {1}
  MaxDeltas = 0
  MaxFailures = 0
  MaxResets = 0
INVARIANTS TypeOK ProgressSound ManifestStable EventAtomic StoredOnce
SYMMETRY StoreSymmetry
CHECK_DEADLOCK FALSE
