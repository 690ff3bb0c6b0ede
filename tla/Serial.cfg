\* two workers and an owner, under way at once
SPECIFICATION FairSpec
CONSTANTS
  Systems <- MCSystems
  w1 = w1
  w2 = w2
  p1 = p1
  p2 = p2
  None = None
  Owner = Owner
  Workers <- MCWorkers
  Ports <- MCPorts
  FirstPort = p1
  Sizes <- MCSizes
  Lines <- MCLines
  MaxBytes = 3
  Tasks <- MCTasks
  MaxCalls <- MCCalls
INVARIANTS TypeOK OpenMeansOpen OnePort ReadsDoNotInterleave WritesDoNotInterleave
PROPERTIES EveryCallReturns
CHECK_DEADLOCK FALSE
