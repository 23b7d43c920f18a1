SPECIFICATION FairSpec
CONSTANTS
  Instances = {i1, i2}
  Owner = i1
  Calls = {c1, c2}
  Environments <- Worlds
  None = None
INVARIANTS
  AnswersAreTrue
  NotFoundIsTrue
PROPERTIES
  WaitsEnd
CHECK_DEADLOCK FALSE
