\* a command that gets no answer
SPECIFICATION Spec
CONSTANTS
  Commands <- MCCommands
  Garbage <- MCZeros
  StackSize = 5
  MAX_DATA = 100
  MemTop = 33
  PE = 0
  HE = 0
  MaxExchanges = 2
INVARIANT ShownWasReceived
CHECK_DEADLOCK FALSE
