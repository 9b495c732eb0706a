SPECIFICATION ControlSpec
CONSTANTS
  Proc = {p1, p2}
  Bot = {a, b}
  Extra = {b}
  Runner = {a}
  MaxLeases = 2
  None = None
  Ttl = 1
  TeachTtl = 2
  Horizon = 2
  MaxRequests = 2
  MaxRunAsks = 1
  MaxFaults = 1
INVARIANTS ControlInv
PROPERTIES LateCallsSpareControl LateCallsSpareStream HandedBack
CHECK_DEADLOCK FALSE
