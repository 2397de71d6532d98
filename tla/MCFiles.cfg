SPECIFICATION BoundedSpec
CONSTANTS
    Procs = {p1, p2}
    InitProc = p1
    Fds = {0, 1}
    Inodes = {root, covered, tmp, i1, i2, i3}
    Root = root
    Covered = covered
    Tmp = tmp
    Descriptions = {1, 2}
    a = a
    b = b
    Names = {a, b}
    TmpName = m
    Paths <- ShortPaths
    Null = null
SYMMETRY Symmetry
INVARIANTS
    
    TreeWhole
    GetcwdExact
