SPECIFICATION Spec
CONSTANTS
  talker = none
  Task = {w1, w2, r1, r2}
  Writers = {w1, w2}
  Retired = {}
  MaxConcurrent = 2
  MaxTurns = 1
  PageLimit = 9
  MaxMessages <- Mailboxes
  MaxRestarts = 0
SYMMETRY Alike
INVARIANTS TypeOK NoIdleSlot
PROPERTIES FirstComeFirstServed
CHECK_DEADLOCK FALSE
