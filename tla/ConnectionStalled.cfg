CONSTANT MaxMessages = 1
SPECIFICATION FairSpec
PROPERTY ClosedSocketShuts
CHECK_DEADLOCK FALSE
