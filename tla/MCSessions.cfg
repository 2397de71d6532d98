SPECIFICATION Spec
CONSTANTS
    Pids = {p1, p2, p3}
    Pid1 = p1
    Terminals = {console}
    None = none
SYMMETRY Symmetry
INVARIANTS
    SessionFounded
    GroupNamed
