SPECIFICATION FairSpec
CONSTANTS
  g1 = g1
  g2 = g2
  s1 = s1
  GeneralWorkers <- TwoWorkers
  Streams <- OneStream
  General = General
  Updater = Updater
  Reader = Reader
  Nobody = Nobody
  Sizes <- SmallSizes
  MaxUpdates = 2
  Uninitialized = Uninitialized
  Scrambled = Scrambled
  Faults = TRUE
  NativeView = TRUE
  Throttle = TRUE
  ViewCapacity = 1
  ZeroCopyAfter = 1
  Servers <- ThreeServers
  CursorPixels = 1
INVARIANTS
  ZlibInOrder
  UpdatesDoNotOverlap
  CopyIsAlone
  PictureIsFaithful
  FailureIsNotShown
  ReturnsAlone
  NobodyIsStuck
PROPERTIES
  ConnectionReturns
  EveryUpdateEnds
  ImplementsScreen
