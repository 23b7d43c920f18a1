SPECIFICATION FairSpec
CONSTANTS
  Images = {i1}
  Subtasks = {summary, other}
  Summary = summary
  None = None
  MaxRetry = 0
  MaxAttempt = 1
  MaxCrash = 0
  Settings = {{"cancel"}}
PROPERTIES
  CancelIsFinal
CHECK_DEADLOCK FALSE
