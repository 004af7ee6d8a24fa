SPECIFICATION FairSpec
CONSTANTS
  FileFrames = 1
  SetupFails = FALSE
PROPERTY StopAlwaysEndsVideo
