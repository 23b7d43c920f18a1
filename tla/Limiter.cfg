SPECIFICATION FairSpec
CONSTANTS
  Calls = {c1, c2}
  MaxLimit = 1
  TTL = 2
  Beat = 1
  Slack = 0
  Skew = 0
  Environments <- Worlds
INVARIANTS
  HoldersKeepSlots
PROPERTIES
  AdmitsWithinLimit
  SlotsComeBack
  NeverBlocksForGood
CHECK_DEADLOCK FALSE
