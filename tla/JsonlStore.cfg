SPECIFICATION Spec
CONSTANTS
  Op = {u, v, x, y, z}
  Event = {{v}, {x, y}, {z}, {u, z}}
  Collide = {{v, z}}
  Limit = {0, 1}
  MaxCrashes = 3
INVARIANTS TypeOK EventAtomic StoredOnce AcceptedStays ReaderMissesNothing
PROPERTY ImplementsStream
CHECK_DEADLOCK FALSE
