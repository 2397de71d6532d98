SPECIFICATION Spec
CONSTANTS
    Threads = {t1, t2, t3}
    Idle = idle
    NoThread = none
    Quantum = 1
    MaxSleep = 0
    Queues = {q, poll}
    Poll = poll
    Irq = irqc
SYMMETRY Symmetry
INVARIANTS
    QueuesSafe
PROPERTIES
    UsesScheduler
