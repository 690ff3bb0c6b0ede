\* a big-endian master and a little-endian slave
SPECIFICATION Spec
CONSTANTS
  MemTop = 3
  Values <- MCValues
  PE = 0
  HE = 1
  MAX_DATA = 100
INVARIANT ByteOrderAccountedFor
