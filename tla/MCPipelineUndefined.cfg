SPECIFICATION Spec
CONSTANTS
  g1 = g1
  g2 = g2
  s1 = s1
  GeneralWorkers <- TwoWorkers
  Streams <- OneStream
  General = General
  Updater = Updater
  Reader = Reader
  Nobody = Nobody
  Sizes <- TwoPixels
  MaxUpdates = 4
  Uninitialized = Uninitialized
  Scrambled = Scrambled
  Faults = FALSE
  NativeView = TRUE
  Throttle = FALSE
  ViewCapacity = 1
  ZeroCopyAfter = 2
  Servers <- ResizingServer
  CursorPixels = 1
INVARIANTS
  UndefinedIsRefreshed
