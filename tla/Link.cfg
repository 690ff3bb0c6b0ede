\* three frames, any three bytes of them lost
SPECIFICATION Spec
CONSTANTS
  Payloads <- MCPayloads
  Command = 4
  MAX_DATA = 100
  ByteOrder = 1
  MaxFrames = 3
  MaxLoss = 3
INVARIANTS TypeOK WholeFrameDelivered OnlyTailsAnnounce WholeFrameCleans
CHECK_DEADLOCK FALSE
