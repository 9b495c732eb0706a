SPECIFICATION Spec
SYMMETRY Symmetry
CONSTANTS
    Run = {r1, r2}
    Job = {j1, j2}
    BatchSize = 2
    WindowSize = 0
    LegacySize = 2
    MaxMessages = 5
    MaxClears = 2
    MaxFaults = 1
INVARIANTS SummaryIsWhole OneConversation ContextIsWhole ClearedIsNotRecalled ClearedIsPurged
CHECK_DEADLOCK FALSE
