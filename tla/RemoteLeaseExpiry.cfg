CONSTANTS
    Clients = {c1}
    Sessions = {s1}
    Entries = {e1}
    None = None
    Created = {s1}
    Ops = {"acquire", "renew", "create", "delete"}
    TTL = 2
    MaxTTL = 2
    Margin = 1
    PlainCreates = FALSE
    OtherProcess = TRUE
    MaxTime = 4
    MaxRequests = 3
    MaxRestarts = 1
    MaxBreaks = 0
SPECIFICATION FairSpec
INVARIANT LeaseIsTheHold
PROPERTY ExpiredLeasesEnd
CHECK_DEADLOCK FALSE
