CONSTANTS
  MaxAcc = 1
  SelectCount = 1
  RgbCount = 1
  FileCount = 1
  MaxBehind = 3
  MaxSignals = 0
  Compress = FALSE
  PackageSize = 2
  MayFail = {}
  MayMiss = {}
SPECIFICATION FairSpec
CHECK_DEADLOCK FALSE
PROPERTIES
  ShutdownCompletes
