SPECIFICATION FairSpec
CONSTANTS
  Event = {e1, u1}
  Priority = {u1}
  MaxCalls = 2
  IdsRepeat = FALSE
  MaxRestarts = 1
  None = None
INVARIANTS TypeOK SavedWhenIdle NothingForgotten
PROPERTIES ShutdownPersists RestForgetsNothing ShutdownAnswered EveryEventServed
CHECK_DEADLOCK FALSE
