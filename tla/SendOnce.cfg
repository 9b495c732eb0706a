SPECIFICATION Spec
CONSTANTS
  Bot = {"x", "y"}
  Group = {"g"}
  Sender = {"x", "y"}
  Call = {c1, c2}
  Key <- CallKeys
  Address <- Calls
  NoKey = NoKey
  Nobody = Nobody
  MaxCalls = 3
  MaxUpsets = 1
SYMMETRY Symmetry
INVARIANTS SendInv EveryMessageIsHeard ClearedStaysClear
CHECK_DEADLOCK FALSE
