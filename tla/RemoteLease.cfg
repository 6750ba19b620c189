CONSTANTS
    Clients = {c1, c2}
    Sessions = {s1}
    Entries = {e1}
    None = None
    Created = {s1}
    Ops = {"acquire", "renew", "release", "append", "delete"}
    TTL = 2
    MaxTTL = 2
    Margin = 1
    PlainCreates = FALSE
    OtherProcess = FALSE
    MaxTime = 4
    MaxRequests = 2
    MaxRestarts = 1
    MaxBreaks = 1
SPECIFICATION Spec
INVARIANTS TypeOK OneBeliever LeaseIsTheHold
PROPERTY LandsInLeaseOrder
SYMMETRY MCSymmetry
CHECK_DEADLOCK FALSE
