CONSTANTS
  Clients = {c1}
  NoThread = NoThread
  NoSock = NoSock
  ZeroSock = ZeroSock
  MaxMail = 1
  MaxFailures = 0
  Stops = {"stop"}
SPECIFICATION FairSpec
PROPERTY StopTerminates
CHECK_DEADLOCK FALSE
