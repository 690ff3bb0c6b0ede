\* master and slave of one byte order
SPECIFICATION Spec
CONSTANTS
  MemTop = 3
  Values <- MCValues
  PE = 1
  HE = 1
  MAX_DATA = 100
INVARIANTS TypeOK AnnouncedLengthIsExact FramesFit
PROPERTIES MemorySpec
