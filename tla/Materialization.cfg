SPECIFICATION Spec
CONSTANTS
  None = None
  a = a
  b = b
  c = c
  k = k
  e = e
  origin = origin
  r1 = r1
  r2 = r2
  scoped = scoped
  Claim <- Claims
  Key <- OnlyKey
  Evidence = {e}
  Source = {origin}
  Scope <- Scopes
  Revision <- Revisions
  KeyOf <- Keys
  RefOf <- RefsOf
  EvidenceOf <- Cites
  SourceOf <- Sources
  Apart <- PairsOf
  Op <- Operations
  Base = 0
  Starts <- Beginnings
  MaxLog = 6
  MaxRestarts = 1
  HistoryLimit = 2
  Interval = 2
INVARIANTS TypeOK CacheExact ConsumerExact RetractedStaysOut
PROPERTIES SettlementHolds
CHECK_DEADLOCK FALSE
