SPECIFICATION FairSpec
CONSTANTS
  Skill = {s1, s2}
  Proc = {p1, p2}
  MessageWindow = 2
  EventWindow = 2
  MaxInputs = 1
  MaxRequests = 3
  MaxUpsets = 2
INVARIANTS TeachInv ShownOnce
PROPERTIES DraftIsShown
CHECK_DEADLOCK FALSE
