CONSTANTS
  Paths <- MCPaths
  Trees <- MCTrees
  MaxFaults = 2
SPECIFICATION FairSpec
INVARIANTS FilesKept DeletedGone
PROPERTY Ends
CHECK_DEADLOCK FALSE
