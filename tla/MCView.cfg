SPECIFICATION Spec
CONSTANTS
  Capacity = 2
  MaxEvents = 3
  MaxInput = 2
INVARIANTS
  WakeupForEachEvent
PROPERTIES
  SyncMeansShown
  ImplementsEventQueue
  EverySendReturns
\* Both threads may have sent all they had.
CHECK_DEADLOCK FALSE
