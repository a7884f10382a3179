SPECIFICATION FairSpec
CONSTANTS
  Resume <- OverlappingResumes
  MaxResumes = 3
  MaxFaults = 1
CHECK_DEADLOCK FALSE
INVARIANTS ReplyExcludesPush RefusedHandHasResult
PROPERTY DeliveredOnceUnsuspended
