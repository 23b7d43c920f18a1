SPECIFICATION Spec
CONSTANTS
  Instances = {i1, i2}
  Users = {u1}
  Requests = {1, 2}
  Workers = 1
  MaxSize = 1
  MaxPerUser = 1
  GlobalMax = 1
  Environments <- Stopping
  None = None
PROPERTIES
  StopHitsEarlierOnly
CHECK_DEADLOCK FALSE
