SPECIFICATION FairSpec
CONSTANTS
  Run = {r1}
  Worker = {w1, w2}
  OwnerId = {p1}
  Owner <- SharedOwner
  NoOwner = NoOwner
  NoRun = NoRun
  MaxFence = 1
  MaxFaults = 1
  MaxStalls = 0
PROPERTIES RunSettles KeepsPromise
CHECK_DEADLOCK FALSE
