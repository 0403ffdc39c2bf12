SPECIFICATION LiveSpec
CONSTANTS
 Components = {"kernel", "link", "models", "index", "mcp", "jobs", "hostcalls", "hostrpc", "tunnel"}
 c1 = c1 c2 = c2 t1 = t1 k1 = k1
 MaxFaults = 1 Calls = {1, 2} CallDeadline = 1 HostTimeout = 1 MaxClock = 2
 BodyLimit = 1 MaxBody = 3 Workers = {1, 2} TunnelChunks <- OneEach
INVARIANT HostWorkSound
PROPERTIES EveryCellAnswered ConnectedIsReachable CompletionEnds
CHECK_DEADLOCK FALSE
