SPECIFICATION Spec
CONSTANTS
  Run = {r1}
  Worker = {w1, w2}
  OwnerId = {p1}
  Owner <- SharedOwner
  NoOwner = NoOwner
  NoRun = NoRun
  MaxFence = 1
  MaxFaults = 1
  MaxStalls = 1
SYMMETRY Symmetry
INVARIANTS OneHolder HolderCanCommit OneFinalMessage
PROPERTIES CancelledIsSilent
CHECK_DEADLOCK FALSE
