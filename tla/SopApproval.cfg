SPECIFICATION Spec
CONSTANTS
  Node <- ApprovalNode
  Definitions <- ApprovalVersions
  Value = {"ok"}
  Thread = {t1, t2}
  MaxRetries = 1
  MaxRejections = 2
  ScheduledTrigger = FALSE
  SlowNodes = FALSE
  MaxPauses = 2
  MaxTasks = 0
  MaxCalls = 0
  MaxCrashes = 0
  MaxRecoveries = 0
  MaxFaults = 1
  MaxCancels = 1
CHECK_DEADLOCK FALSE
SYMMETRY Threads
INVARIANTS TypeOK OneDriver NoForgedDecision RejectionLimit
PROPERTIES ImplementsLifecycle ImplementsApprovalLedger ResumesLastPause ResumesOnce
