SPECIFICATION FairSpec
CONSTANTS
  Node <- LiveNode
  Definitions <- LiveVersions
  Value = {"delicate", "plain"}
  Thread = {t1, t2}
  MaxRetries = 1
  MaxRejections = 2
  ScheduledTrigger = FALSE
  SlowNodes = FALSE
  MaxPauses = 2
  MaxTasks = 2
  MaxCalls = 3
  MaxCrashes = 0
  MaxRecoveries = 0
  MaxFaults = 0
  MaxCancels = 0
CHECK_DEADLOCK FALSE
PROPERTIES ApprovalWaitEnds RunEnds ToolPauseEnds
