SPECIFICATION FairSpec
CONSTANTS
  Sup = {s1, s2}
  Proc = {p1, p2}
  Cold = {c1, c2}
  Hot = {h1, h2}
  none = none
  MaxRevision = 2
  MaxRequests = 0
  MaxCrashes = 1
  MaxRetries = 1
PROPERTIES CrashRecovers
CHECK_DEADLOCK FALSE
