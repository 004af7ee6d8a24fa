SPECIFICATION FairSpec
CONSTANTS
  SizeLimit = 5
  MaxChunk = 2
  MaxCalls = 3
INVARIANT HeaderCovered
PROPERTIES
  LogSpec
  CopyGivesParsed
  CallsReturn
