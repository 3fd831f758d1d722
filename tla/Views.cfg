SPECIFICATION Spec
CONSTANTS
  None = None
  a = a
  b = b
  c = c
  d = d
  g = g
  z = z
  k = k
  j = j
  e = e
  n = n
  m = m
  origin = origin
  spans = spans
  scoped = scoped
  Claim <- Claims
  Key <- AllKeys
  Evidence = {e}
  Source = {origin}
  Scope <- Scopes
  Revision = {1}
  Registry = 1
  KeyOf <- Keys
  RefOf <- RefsOf
  EvidenceOf <- Cites
  SourceOf <- Sources
  Apart <- Pairs
  Op <- Operations
  Instant = {1, 2}
  Name = {n, m}
  ContextValue = {1, 2}
  Shape <- Shapes
  ShapeOf <- ShapesOf
  ValueOf <- Values
  MultiValued <- NoKeys
  KindOf <- Kinds
  Rank <- Ranks
  Finding <- Findings
  EvidenceRank <- EvidenceRanks
  OwnScore <- Scores
  ClaimId <- Ranks
  TextOf <- Texts
  SupersededAt <- Supersedes
  Margin <- Margins
  WriteOf <- Writes
  Contender <- Contenders
  Clock <- Clocks
  Beginnings <- Logs
  Answer <- Answers
  MaxOps = 4
  MaxDecisions = 2
INVARIANTS TypeOK ApplicabilityExact IndexExact QueriesExact CommittedStands UnseenNeverOverruled ConservativeAgrees CausalDominates
PROPERTIES CallReturns
CHECK_DEADLOCK FALSE
