SPECIFICATION Spec
CONSTANTS
  first = first
  second = second
  m1 = m1
  m2 = m2
  leave = leave
  None = None
  Handler <- TwoHandlers
  Message <- TwoMessages
  TextOf <- SameWords
  Sop <- OneSop
  MaxRounds = 2
  MaxDeliveries = 2
  MaxExecs = 2
  MaxFaults = 1
SYMMETRY Symmetry
CHECK_DEADLOCK FALSE
INVARIANT FlaggedNeverSent
