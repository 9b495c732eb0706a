SPECIFICATION Spec
CONSTANTS
    c1 = c1
    c2 = c2
    r1 = r1
    r2 = r2
    b1 = b1
    b2 = b2
    NoLease = NoLease
    Call = {c1, c2}
    Run = {r1, r2}
    Bot = {b1, b2}
    BotOf <- TwoBots
    MaxAsks = 1
    MaxTakeovers = 1
    MaxSleeps = 1
    MaxLapses = 1
    MaxCrashes = 1
    MaxFence = 2
CONSTRAINT Bounded
SYMMETRY AnyCall
INVARIANTS ComputerInv UpBesideReplace StopSparesOthers
CHECK_DEADLOCK FALSE
