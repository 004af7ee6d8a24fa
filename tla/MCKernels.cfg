SPECIFICATION Spec
CONSTANTS
  N = 8
  P = 17
  W = 2
  Value <- MCValue
  Zero = 0
  One = 1
  Add <- MCAdd
  Mul <- MCMul
  Neg <- MCNeg
  Samples = {0, 1, 7}
  Powers = {0, 1, 2, 3}
  FrameSizes <- MCFrameSizes
  Sizes <- MCSizes
  GreyBytes = {0, 62, 63}
  Bytes = {0, 1, 255}
  HeapByte = 99
  ScreenByte = 7
INVARIANTS
  FftIsDft
  PeakIsStrongest
  FiltersAgree
  EdgesAreSobel
CHECK_DEADLOCK FALSE
