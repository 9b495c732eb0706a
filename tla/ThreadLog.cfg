\* Two writers, one request at a time, three events (a message, a clear, a message), a
\* batch that fills, a page that overflows, and one fault of any kind.
SPECIFICATION FairLogSpec
CONSTANTS
    Writer = {w1, w2}
    Request = {q1}
    BatchSize = 2
    PageSize = 1
    MaxEvents = 3
    MaxFaults = 1
INVARIANTS LogInv NoLostWakeUp ClearedStaysCleared
PROPERTIES InOrder EventReaches
CHECK_DEADLOCK FALSE
