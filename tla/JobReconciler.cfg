SPECIFICATION Spec
CONSTANTS
  Process = {p1, p2}
  Nobody = Nobody
  Run = {}
  Routine = {1}
  Computer = {1, 2}
  Never = 9
  Off = Off
  NoCursor = NoCursor
  BatchSize = 1
  Lookahead = 1
  Horizon = 1
  MaxMoves = 1
  MaxFaults = 1
INVARIANTS ScanCovers
PROPERTIES NeedyIsServed
CHECK_DEADLOCK FALSE
