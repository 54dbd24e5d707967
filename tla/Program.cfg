CONSTANTS
  Format = {"yuyv", "mjpg"}
  Size = {"vga"}
  Interval = {1, 2}
  AcqInterval = 1
  BUFFER_SIZE = 2
  BufferCount = 2
  MaxGranted = 3
  MsecPerSec = 2
  UintSize = 8
  MaxNumerator = 3
  MaxDenominator = 1
  MaxPosts = 1
  MaxSignals = 1
  UsecPerSec = 4
  NsecPerUsec = 2
  MaxWidth = 3
  MaxHeight = 2
  MaxPadding = 1
SPECIFICATION ProgramSpec
CHECK_DEADLOCK FALSE
INVARIANTS
  ProgramTypeOK
  OwnedAreQueued
  ModeAsRequested
  NoThreadOutlivesItsData
  FramesNeedDumpster
  GarbageIsHarmless
  TimerPeriodValid
  SuccessMeansSetUp
  ReturnsClosed
  ImagesInBounds
PROPERTIES
  SigintEndsProgram
