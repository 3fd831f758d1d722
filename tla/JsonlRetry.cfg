SPECIFICATION Spec
CONSTANTS
  Op = {u, v, x, y, z}
  Event = {{v}, {x, y}, {z}, {u, z}}
  Collide = {{v, z}}
  Limit = {0, 1}
  MaxCrashes = 3
INVARIANT AcceptedReadable
CHECK_DEADLOCK FALSE
