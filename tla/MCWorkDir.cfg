CONSTANTS
  Names = {"..", "ux0:", "ur0:", "x", "y", "a", "A"}
  Folders = {"..", "ux0:", "ur0:", "x", "y"}
  DIR_UP = ".."
  Rank <- MCRank
  Nodes = {n1, n2, n3, n4, n5}
  NULL = NULL
  Mounts = {"ux0:", "ur0:"}
  Paths <- MCPaths
  Args <- MCArgs
  MaxFaults = 1
SPECIFICATION WDFairSpec
INVARIANTS SortedList Complete ListIsCwd
PROPERTIES UpGoesUp CommandEnds
CHECK_DEADLOCK FALSE
