SPECIFICATION Spec
CONSTANTS
  Scripts <- AllScripts
  Junk = {0, 1, 65}
  Faults = TRUE
INVARIANTS
  ConversationAgrees
  ErrorsAreDeserved
\* setup() and the reader's loop end with the connection.
CHECK_DEADLOCK FALSE
