SPECIFICATION Spec
CONSTANTS
  Node <- EditNode
  Definitions <- EditVersions
  Value = {"retry", "skip"}
  Thread = {t1, t2}
  MaxRetries = 1
  MaxRejections = 2
  ScheduledTrigger = TRUE
  SlowNodes = FALSE
  MaxPauses = 1
  MaxTasks = 1
  MaxCalls = 1
  MaxCrashes = 1
  MaxRecoveries = 1
  MaxFaults = 0
  MaxCancels = 1
CHECK_DEADLOCK FALSE
SYMMETRY Threads
INVARIANTS OneDriver NoForgedDecision RejectionsBacked
