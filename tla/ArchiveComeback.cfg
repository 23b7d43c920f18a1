SPECIFICATION Spec
CONSTANTS
  NRequests = 1
  MaxOverlap = 1
  Scanners = {s1}
  None = None
  MaxTime = 2
  DueAt = 1
  Retention = 1
  MaxFault = 0
  Worlds <- Comebacks
PROPERTIES
  StoppedIsQuiet
CHECK_DEADLOCK FALSE
