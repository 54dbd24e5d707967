CONSTANTS
  MaxAcc = 1
  SelectCount = 1
  RgbCount = 2
  FileCount = 1
  MaxBehind = 2
  MaxSignals = 1
  Compress = TRUE
  PackageSize = 2
  MayFail = {"capture", "select", "convert", "storage", "compressor"}
  MayMiss = {"capture", "select", "convert"}
SPECIFICATION FairSpec
CHECK_DEADLOCK FALSE
INVARIANTS
  TypeOK
  StopAfterProducer
  EntryHeldWhileCompressed
  NothingLeftBehind
  AcknowledgedAreArchived
  FailureReported
PROPERTIES
  ShutdownCompletes
