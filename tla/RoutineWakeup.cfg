SPECIFICATION Spec
CONSTANTS
  Worker = {w1, w2}
  MaxRuns = 3
  Period = {2, 3}
  Once = Once
  Broken = Broken
  None = None
  Horizon = 3
  Lookahead = 1
  Skew = 2
  Slack = 1
  MaxFaults = 1
  MaxEdits = 1
INVARIANTS RoutineInv OneRunPerOccurrence NothingLost
PROPERTIES PausedStaysPaused DueFires
CHECK_DEADLOCK FALSE
