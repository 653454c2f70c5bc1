SPECIFICATION FairSpec
CONSTANTS
  WindowLength = 3
  Millisecond = 1
  Delays = {0, 2, 7}
  Passes = {250}
  EnoughSleep = 104
INVARIANTS
  MeanIsExact
PROPERTIES
  NoDelayCountsTwice
  SleepFades
