SPECIFICATION Spec
CONSTANTS
  ByteBits = 2
  FbWidth = 3
  FbHeight = 2
  Colors <- MCColors
  Gray <- MCGray
  Padding = 0
  TooShortForZlib = 4
  MaxRects = 1
INVARIANTS
  ReaderStaysInStep
  SizesAgree
  PictureIsReproduced
CHECK_DEADLOCK FALSE
