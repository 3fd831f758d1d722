SPECIFICATION Spec
CONSTANTS
  v1 = v1
  v2 = v2
  host = host
  first = first
  second = second
  Absent = Absent
  NoEntry = NoEntry
  Id <- OneRecord
  Version <- TwoVersions
  Caller <- OneHost
  Unseen = TRUE
  MaxCommits = 3
  MaxFailures = 2
  MaxCrashes = 0
INVARIANTS RetiredWhenWritten
CHECK_DEADLOCK FALSE
