SPECIFICATION Spec
CONSTANTS
  Sup = {s1, s2}
  Proc = {p1, p2}
  Cold = {c1, c2}
  Hot = {h1, h2}
  none = none
  MaxRevision = 2
  MaxRequests = 1
  MaxCrashes = 0
  MaxRetries = 1
INVARIANTS ApplyingHasWorker
CHECK_DEADLOCK FALSE
