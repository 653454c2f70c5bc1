SPECIFICATION FairSpec
CONSTANTS
  small = small
  large = large
  laid = laid
  Sizes <- TwoSizes
  FirstSize = small
  NoSize = NoSize
  Layouts <- OneLayout
  Empty = Empty
  Unit = 2
  Motions <- HalfPixels
  Masks <- OneButton
  Sessions <- TwoSessions
  FenceFlags <- SomeFlags
  MaxInput = 2
  Faults = TRUE
INVARIANTS
  NoPanic
  MotionConserved
  ButtonsKnown
  RequestsMatchSize
  FencesAnswered
PROPERTIES
  ThreadsEnd
\* Every thread ends once the window is closed and the reader returned.
CHECK_DEADLOCK FALSE
