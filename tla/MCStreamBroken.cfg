SPECIFICATION Spec
CONSTANTS
  Scripts <- AllScripts
  Junk = {0, 1, 65}
  Faults = FALSE
INVARIANTS
  BrokenIsSaid
\* setup() and the reader's loop end with the connection.
CHECK_DEADLOCK FALSE
