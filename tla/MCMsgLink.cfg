CONSTANTS
  MaxPrints = 3
  MaxTexts = 2
SPECIFICATION FairSpec
INVARIANTS RunAhead ReplyIsOwn
PROPERTY PrintReturns
CHECK_DEADLOCK FALSE
