CONSTANTS
  Service = {"s1", "s2"}
  LOG_QUEUE_COUNT = 2
  MaxMessages = 2
SPECIFICATION FairSpec
CHECK_DEADLOCK FALSE
INVARIANTS
  AllLogged
  InOrder
PROPERTIES
  Terminates
