\* two frames, to show what a lost byte leaves behind
SPECIFICATION Spec
CONSTANTS
  Payloads <- MCPayloads
  Command = 4
  MAX_DATA = 100
  ByteOrder = 1
  MaxFrames = 2
  MaxLoss = 3
INVARIANT HeadResetsReceiver
CHECK_DEADLOCK FALSE
