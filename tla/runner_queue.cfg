SPECIFICATION QueueSpec
CONSTANTS
  Event = {e1, e2, u1}
  Priority = {u1}
  MaxCalls = 1
  IdsRepeat = FALSE
  MaxRestarts = 0
  None = None
INVARIANTS AllCallsAnswered NoMissedWakeup NothingStranded NoEventLost NoEventTwice
PROPERTY KeepsInboxContract
CHECK_DEADLOCK FALSE
