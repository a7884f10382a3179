SPECIFICATION FairSpec
CONSTANTS
  api = api
  script = script
  unknown = unknown
  NoCall = NoCall
  Queued <- QueuedCalls
  Pod <- NoCalls
  Immediate <- NoCalls
  Attempts = 3
  MaxFaults = 1
CHECK_DEADLOCK FALSE
PROPERTY FailedJobResumes
