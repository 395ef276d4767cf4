CONSTANTS
  Gens = {1, 2}
  Fds = {1, 2, 3, 4}
  MaxLoss = 2
  Args = {TRUE, FALSE}
  NoConn = NoConn
SPECIFICATION FairSpec
INVARIANTS TerminalKept OneReader
PROPERTIES CleanRestart EndNoticed
CHECK_DEADLOCK FALSE
