SPECIFICATION MemorySpec
CONSTANTS
 MemoryFiles = {f1, f2}
 Syncers = {s}
 Session = s
 MaxWrites = 2
 MaxIds = 2
 Cooldown = 7
INVARIANTS RecalledOncePerTurn
CHECK_DEADLOCK FALSE
