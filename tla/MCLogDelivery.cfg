CONSTANTS
  MaxMsgs = 2
  Sessions = {c1, c2}
  NoSock = NoSock
  ZeroSock = ZeroSock
  NoOne = NoOne
SPECIFICATION FairLogSpec
INVARIANTS SessionKeeps LastPass
PROPERTIES Delivered Resets
CHECK_DEADLOCK FALSE
