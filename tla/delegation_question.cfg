SPECIFICATION Spec
CONSTANTS
  talker = r1
  Task = {r1}
  Writers = {}
  Retired = {}
  MaxConcurrent = 1
  MaxTurns = 2
  PageLimit = 9
  MaxMessages <- Mailboxes
  MaxRestarts = 0
INVARIANTS PausedWhileAsking
CHECK_DEADLOCK FALSE
