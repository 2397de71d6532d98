SPECIFICATION FairSpec
CONSTANTS
    Procs = {p1, p2}
    Pid1 = p1
    NoProc = none
    AnyChild = any
    Killable = {"STOP", "KILL"}
    Broadcast = {}
    WaitPids = {}
    WaitOptions = {}
CHECK_DEADLOCK FALSE
PROPERTY KillReaches
