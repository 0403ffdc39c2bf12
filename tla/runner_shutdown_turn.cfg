SPECIFICATION Spec
CONSTANTS
  Event = {e1, u1}
  Priority = {u1}
  MaxCalls = 1
  IdsRepeat = FALSE
  MaxRestarts = 1
  None = None

PROPERTY NoTurnAfterShutdown
CHECK_DEADLOCK FALSE
