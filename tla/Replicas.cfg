SPECIFICATION Spec
CONSTANTS
  first = first
  second = second
  NoOwner = NoOwner
  Handler <- TwoRequests
  Redis = TRUE
  MaxReplicas = 2
  MaxBoxes = 3
  MaxFaults = 1
SYMMETRY Symmetry
CHECK_DEADLOCK FALSE
INVARIANTS TypeOK OneReconciler ReadyIsUp NoOrphans Heals
