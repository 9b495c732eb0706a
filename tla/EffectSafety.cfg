SPECIFICATION Spec
SYMMETRY Symmetry
CONSTANTS
    r1 = r1
    r2 = r2
    send = send
    look = look
    Worker = {w1, w2}
    Request = {r1, r2}
    NoRequest = NoRequest
    Tool = {send, look}
    ToolOf <- TwoTools
    Consequential = {send}
    AutoReview = TRUE
    MaxFence = 3
    MaxStalls = 1
    MaxEdits = 1
INVARIANTS AtMostOnce DeniedNeverRuns CardsHold
PROPERTIES KeepsEffectPromise
CHECK_DEADLOCK FALSE
