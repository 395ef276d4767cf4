CONSTANTS
  Clients = {c1, c2}
  NoThread = NoThread
  NoSock = NoSock
  ZeroSock = ZeroSock
  MaxMail = 1
  MaxFailures = 0
  Stops = {"stop"}
SPECIFICATION FairSpec
PROPERTY StopEnds
CHECK_DEADLOCK FALSE
