CONSTANTS
  Clients = {c1, c2}
  NoThread = NoThread
  NoSock = NoSock
  ZeroSock = ZeroSock
  MaxMail = 1
  MaxFailures = 1
  Stops = {}
SPECIFICATION FairSpec
PROPERTIES SlotFreed Answered
CHECK_DEADLOCK FALSE
