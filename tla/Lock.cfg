SPECIFICATION FairSpec
CONSTANTS
  Calls = {c1, c2}
  Nobody = Nobody
  Lease = 3
  RenewInterval = 1
  Slack = 0
  Environments <- Worlds
INVARIANTS
  MutualExclusion
  OverlapIsReported
  NoFalseAlarm
PROPERTIES
  ImplementsExclusiveLock
  OnlyOwnerReleases
  LossIsNoticed
  WaiterProceeds
CHECK_DEADLOCK FALSE
