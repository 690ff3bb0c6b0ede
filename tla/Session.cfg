\* three commands to a slave that may answer late or never
SPECIFICATION Spec
CONSTANTS
  Commands <- MCCommands
  Garbage <- MCGarbage
  StackSize = 5
  MAX_DATA = 100
  MemTop = 33
  PE = 0
  HE = 0
  MaxExchanges = 3
INVARIANTS TypeOK PromptIsClean AtMostOneResponse TimelyAnswersAreShown
CHECK_DEADLOCK FALSE
