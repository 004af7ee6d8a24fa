SPECIFICATION FairSpec
CONSTANTS
  FileFrames = 1
  SetupFails = TRUE
INVARIANT RunBitHeld
PROPERTIES
  NoSpuriousPass
  OneWriterOnceModeSettles
  RequestsAnswered
  PlaybackGoesOn
  StopEndsVideo
