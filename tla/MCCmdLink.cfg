CONSTANTS
  MaxCmds = 3
  MaxBlocks = 2
SPECIFICATION FairSpec
INVARIANTS  Matched
PROPERTIES Answered UploadEnds
CHECK_DEADLOCK FALSE
