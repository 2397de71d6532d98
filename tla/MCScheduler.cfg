SPECIFICATION FairSpec
CONSTANTS
    Threads = {t1, t2}
    Idle = idle
    NoThread = none
    Quantum = 2
    MaxSleep = 1
INVARIANTS
    ListsSound
    ExitSound
PROPERTIES
    NoStarvation
    SleepEnds
