CONSTANTS
    e1 = e1
    e2 = e2
    e3 = e3
    lab = lab
    o1 = o1
    o2 = o2
    o3 = o3
    ol = ol
    Sessions = {s1, s2}
    Entries = {e1, e2}
    Objects = {o1, o2}
    Root = Root
    None = None
    Names <- MCNames
    Parent <- MCParent
    LeafTarget <- MCLeafTarget
    MaxLog = 3
    MaxCrash = 2
    KillPoints = {"idle", "recover", "prepare", "flush", "log"}
    FsyncMayFail = TRUE
SPECIFICATION Spec
INVARIANTS RecoveryInv SurvivesFailures
SYMMETRY MCSymmetry
CHECK_DEADLOCK FALSE
