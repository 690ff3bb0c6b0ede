\* the time limit of RESP_PROC
SPECIFICATION FairSpec
CONSTANTS
  r1 = r1
  r2 = r2
  r3 = r3
  n1 = n1
  NoRequest = NoRequest
  Requests <- MCTwoRequests
  NonRequests <- NoPackets
  Port = "interrupt"
  StackSize = 5
  After = 2
  TimerMod = 4
PROPERTIES TimeoutReturnsToIdle
