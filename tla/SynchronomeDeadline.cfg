CONSTANTS
  MaxAcc = 1
  SelectCount = 1
  RgbCount = 1
  FileCount = 1
  MaxBehind = 2
  MaxSignals = 0
  Compress = FALSE
  PackageSize = 2
  MayFail = {}
  MayMiss = {"capture"}
SPECIFICATION FairSpec
CHECK_DEADLOCK FALSE
PROPERTIES
  MissedDeadlineIsFatal
