SPECIFICATION Spec
CONSTANTS
  None = None
  a = a
  b = b
  c = c
  k = k
  e = e
  origin = origin
  r1 = r1
  r2 = r2
  Claim <- Claims
  Key <- OnlyKey
  Evidence = {e}
  Source = {origin}
  Scope <- OnlyScope
  Revision = {1}
  Registry = 1
  KeyOf <- Keys
  RefOf <- ClaimRefs
  EvidenceOf <- Cites
  SourceOf <- Sources
  Apart <- Pairs
  Op <- Operations
  Instant = {1}
  Name = {}
  ContextValue = {}
  Shape <- Shapes
  ShapeOf <- ShapesOf
  ValueOf <- Values
  MultiValued <- NoKeys
  KindOf <- Kinds
  Rank <- Ranks
  Finding = {}
  CitedBy <- Citations
  Beginnings <- Logged
  Event <- Events
  MaxOps = 4
  MaxTransit = 1
  MaxCompactions = 2
  MaxCursor = 4
  MaxPending = 3
  Id = {1, 2}
  Signed <- Writings
  Unsigned = "none"
  Policy <- Policies
INVARIANTS TypeOK CompactionUnnoticed SoundSinceReset LoopComputesRuns NothingLostOrInvented CursorStopsAtGap MergesAgree
CHECK_DEADLOCK FALSE
