SPECIFICATION FairSpec
CONSTANTS
  Instances = {i1, i2}
  Users = {u1, u2}
  Requests = {1, 2, 3}
  Workers = 2
  MaxSize = 1
  MaxPerUser = 1
  GlobalMax = 1
  Environments <- Worlds
  None = None
INVARIANTS
  LimitsHold
  CountersMatch
PROPERTIES
  EveryRequestEnds
CHECK_DEADLOCK FALSE
