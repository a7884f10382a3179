SPECIFICATION FairSpec
CONSTANTS
  api = api
  script = script
  unknown = unknown
  NoCall = NoCall
  Queued <- QueuedCalls
  Pod <- PodCalls
  Immediate <- ImmediateCalls
  Attempts = 3
  MaxFaults = 1
CHECK_DEADLOCK FALSE
INVARIANT TypeOK
PROPERTIES ImplementsLedger WatchedCallsClose PauseEnds PodsFreed
