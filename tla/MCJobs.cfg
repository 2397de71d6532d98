SPECIFICATION FairSpec
CONSTANTS
    Procs = {p1, p2}
    Pid1 = p1
    NoProc = none
    AnyChild = any
    Killable = {"STOP", "CONT", "KILL"}
    Broadcast = {"STOP"}
    WaitPids = {any, p2}
    WaitOptions = {{"WUNTRACED", "WCONTINUED"}, {"WNOHANG", "WUNTRACED"}, {}}
CHECK_DEADLOCK FALSE
INVARIANT
    ExitNeverSleeps

    
