CONSTANTS
  Delay = 2
  Window = 4
  QueCap = 1
  MaxPubs = 5
  MaxNow = 8
SPECIFICATION FairSpec
INVARIANTS UnsentIsTriggered BoundedDelay
PROPERTIES EventuallySent
CHECK_DEADLOCK FALSE
