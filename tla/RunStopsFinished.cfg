SPECIFICATION Spec
CONSTANTS
  Run = {r1}
  Worker = {w1, w2}
  OwnerId = {w1, w2}
  Owner <- DistinctOwner
  NoOwner = NoOwner
  NoRun = NoRun
  MaxFence = 0
  MaxFaults = 0
  MaxStalls = 0
PROPERTIES TerminalIsFinal
CHECK_DEADLOCK FALSE
