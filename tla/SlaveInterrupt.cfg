\* callbacks between any two events of MeloBackground
SPECIFICATION FairSpec
CONSTANTS
  r1 = r1
  r2 = r2
  r3 = r3
  n1 = n1
  NoRequest = NoRequest
  Requests <- MCRequests
  NonRequests <- MCNonRequests
  Port = "interrupt"
  StackSize = 5
  After = 2
  TimerMod = 4
INVARIANTS TypeOK ExactlyOneConfirmation StackHasRoom
PROPERTIES BuffersStable RepliesSpec RepliesEnd
