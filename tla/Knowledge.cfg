SPECIFICATION FairSpec
CONSTANTS
  Images = {i1, i2}
  Subtasks = {summary, other}
  Summary = summary
  None = None
  MaxRetry = 1
  MaxAttempt = 3
  MaxCrash = 1
  Settings <- Situations
INVARIANTS
  JoinsWait
  NoOrphanChunks
  CompletedIsSearchable
  NothingStranded
PROPERTIES
  SubtasksRunOnce
  Settles
CHECK_DEADLOCK FALSE
