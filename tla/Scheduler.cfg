SPECIFICATION Spec
CONSTANTS
  r1 = r1
  r2 = r2
  daily = daily
  weekly = weekly
  Blank = Blank
  Keep = Keep
  None = None
  Handler <- TwoRequests
  Cron <- TwoCrons
  MaxFaults = 1
SYMMETRY Symmetry
CHECK_DEADLOCK FALSE
INVARIANTS ScheduleMatches RunsAccounted
PROPERTIES RestartHeals OnlyActiveFires
