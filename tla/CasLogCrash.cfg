CONSTANTS
    e1 = e1
    e2 = e2
    e3 = e3
    lab = lab
    o1 = o1
    o2 = o2
    o3 = o3
    ol = ol
    Sessions = {s1}
    Entries = {e1, e2, lab}
    Objects = {o1, o2, ol}
    Root = Root
    None = None
    Names <- MCNames
    Parent <- MCParent
    LeafTarget <- MCLeafTarget
    MaxLog = 5
    MaxCrash = 2
    KillPoints = {"idle", "recover", "prepare", "flush", "log", "fsync", "cut"}
    FsyncMayFail = FALSE
SPECIFICATION Spec
INVARIANTS TypeOK SurvivesCrashes HandleFollowsLog
CHECK_DEADLOCK FALSE
