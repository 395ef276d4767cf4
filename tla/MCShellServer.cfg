CONSTANTS
  Clients = {c1, c2}
  NoThread = NoThread
  NoSock = NoSock
  ZeroSock = ZeroSock
  MaxMail = 1
  MaxFailures = 1
  Stops = {"stop", c1, c2}
SYMMETRY Symmetry
SPECIFICATION Spec
INVARIANTS TypeOK SocketsOwned LogsForSession Paired JoinedBeforeFree
PROPERTY SessionStable
CHECK_DEADLOCK FALSE
