CONSTANTS
    Threads = {t1, t2}
    Free = Free
    MaxCalls = 3
    MaxEntries = 3
    MaxFaults = 2
    MaxEvents = 1
    Writers = {w1, w2}
SPECIFICATION MCSpec
INVARIANTS ClientInStep WaitsEnd
PROPERTIES HeadIsLeaf TurnstilePasses
CHECK_DEADLOCK FALSE
