SPECIFICATION PartsSpec
CONSTANTS
 Components = {"kernel", "link", "store", "stream", "discord", "context", "models", "script", "memory", "timers", "files", "edits", "reading", "view", "messages", "index", "settings", "soul", "metrics", "work", "mcp", "archive"}
 c1 = c1 c2 = c2 t1 = t1 k1 = k1 reminder = reminder alarm = alarm
 Values = {"v1"} Keys = {"k"} MaxRevs = 3 Policies <- StorePolicies Files <- SeedFiles
 Messages = {1, 2, 3} Kind <- ThreeKinds Quiet = {2} Bypass = {2} WakeOnEvent = TRUE
 AutoSeen = 1 Interval = 2 MaxMessages = 1 MaxPreview = 1 MaxTime = 2
INVARIANTS PartsTypeOK RouteIsKept Lawful AppliedOnce StreamKept HistoryRecoverable TurnsCarried IndexTruthful RemindersKept
PROPERTIES PassedForAReason HeldStaysHeld
CHECK_DEADLOCK FALSE
