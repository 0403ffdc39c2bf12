SPECIFICATION Spec
CONSTANTS
  Sup = {s1, s2}
  Proc = {p1, p2, p3}
  Cold = {c1, c2}
  Hot = {h1, h2}
  none = none
  MaxRevision = 2
  MaxRequests = 2
  MaxCrashes = 1
  MaxRetries = 1
SYMMETRY Alike
INVARIANTS TypeOK RoutedToLiveWorker PendingIsTakenUp
PROPERTIES FailedBootStaysFailed
CHECK_DEADLOCK FALSE
