SPECIFICATION FairSpec
CONSTANTS
  v1 = v1
  v2 = v2
  host = host
  first = first
  second = second
  Absent = Absent
  NoEntry = NoEntry
  Id <- TwoRecords
  Version <- TwoVersions
  Caller <- OneHost
  Unseen = FALSE
  MaxCommits = 4
  MaxFailures = 2
  MaxCrashes = 2
INVARIANTS TypeOK Accounted NoOrphan
PROPERTIES SearchFresh EventuallyIndexed
CHECK_DEADLOCK FALSE
