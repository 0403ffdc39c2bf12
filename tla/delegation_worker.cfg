SPECIFICATION FairSpec
CONSTANTS
  talker = w2
  Task = {w1, w2}
  Writers = {w1, w2}
  Retired = {w1}
  MaxConcurrent = 2
  MaxTurns = 2
  PageLimit = 9
  MaxMessages <- Mailboxes
  MaxRestarts = 1
INVARIANTS NothingPhantom NoAnswerMissed
PROPERTIES KeepsTaskContract NoWorkAfterCancel EveryTaskEnds
CHECK_DEADLOCK FALSE
