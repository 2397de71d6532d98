SPECIFICATION Spec
CONSTANTS
    Procs = {p1, p2, p3}
    Pid1 = p1
    NoProc = none
    AnyChild = any
    Killable = {"KILL"}
    Broadcast = {"KILL"}
    WaitPids = {any, p2, p3}
    WaitOptions = {{"WUNTRACED", "WCONTINUED"}, {"WNOHANG", "WUNTRACED"}, {}}
SYMMETRY Symmetry
CHECK_DEADLOCK FALSE
INVARIANTS
    FinishedIsMine
    
