SPECIFICATION FairSpec
CONSTANTS
  NRequests = 3
  MaxOverlap = 2
  Scanners = {s1, s2}
  None = None
  MaxTime = 2
  DueAt = 1
  Retention = 1
  MaxFault = 1
  Worlds <- Meetings
INVARIANTS
  NotifiedOnce
  NothingLeftBehind
PROPERTIES
  StoppedIsQuiet
  WaitingIsDelivered
  TrashIsReclaimed
CHECK_DEADLOCK FALSE
