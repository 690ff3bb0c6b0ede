\* three requests, one byte lost
SPECIFICATION FairSpec
CONSTANTS
  Commands <- MCCommands
  ShortWrites <- MCShortWrites
  StackSize = 5
  MAX_DATA = 12
  MemTop = 33
  PE = 0
  HE = 0
  MaxRequests = 3
  MaxLoss = 1
INVARIANTS TypeOK BuffersHold Quiescent WholeRequestServed
PROPERTIES EveryRequestAnswered
CHECK_DEADLOCK FALSE
