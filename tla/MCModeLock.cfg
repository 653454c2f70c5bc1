SPECIFICATION FairSpec
CONSTANTS
  c1 = c1
  c2 = c2
  c3 = c3
  decoding = decoding
  resizing = resizing
  reading = reading
  Calls <- ThreeCalls
  Modes <- FbAccess
  InitialMode = decoding
  Nobody = Nobody
INVARIANTS
  ModeExclusion
  SleeperIsBlocked
PROPERTIES
  ImplementsGroupLock
  EveryLockReturns
\* Once every guard is dropped nothing is left to do.
CHECK_DEADLOCK FALSE
