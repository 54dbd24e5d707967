CONSTANTS
  MaxCount = 3
  MaxPush = 8
  MayFail = {"producer", "consumer"}
SPECIFICATION FairSpec
CHECK_DEADLOCK FALSE
INVARIANTS
  SlotExclusion
  InOrder
  GarbageOnlyAtEnd
  CountExact
  StopDrains
PROPERTIES
  ConsumerLeaves
  FifoSpec
