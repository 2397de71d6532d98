------------------------------ MODULE WaitQueue ------------------------------
(***************************************************************************)
(* kernel/sched/waitqueue.cpp on top of the scheduler: threads that wait,  *)
(* and threads and device interrupts that wake.  The lock of a queue is    *)
(* released between linking a waiter and blocking it, and between taking a *)
(* waiter off the list and unblocking it, so each of those is a step of    *)
(* its own; a thread may be preempted between them, a handler not.         *)
(*                                                                         *)
(* m_generation is only ever compared with a value read earlier, so it is  *)
(* modelled by "unchanged since thread t read it".                         *)
(***************************************************************************)
EXTENDS Naturals, Sequences, Functions, TLC

CONSTANTS
    Threads, Idle, NoThread, Quantum, MaxSleep,  \* as in Scheduler
    Queues,      \* WaitQueue objects
    Poll,        \* poll_queue()
    Irq          \* the device interrupt handler, as a caller of wake_all

ASSUME ThreadsAssumption == Idle \notin Threads /\ NoThread \notin Threads \cup {Idle}
ASSUME TicksAssumption == Quantum \in Nat \ {0} /\ MaxSleep \in Nat
ASSUME PollAssumption == Poll \in Queues
ASSUME IrqAssumption == Irq \notin Threads \cup {Idle, NoThread}

VARIABLES
    state, current, runQueue, zombies, sleepers, remaining, quantum, pc,
    reaping, irq,       \* as in Scheduler
    waiters,     \* WaitQueue::m_waiters
    unchanged,   \* the generation thread t read is still the queue's
    at           \* where a caller is inside this file: see Positions

queueVars == <<waiters, unchanged, at>>
schedVars == <<state, current, runQueue, zombies, sleepers, remaining, quantum,
               pc, reaping, irq>>
vars == <<schedVars, queueVars>>

OnSomeQueue == UNION {Range(waiters[q]) : q \in Queues}

S == INSTANCE SchedulerProofs WITH waitLinked <- OnSomeQueue

Callers == Threads \cup {Irq}

\* "out":     not in this file
\* "looked":  has read the generation, tests its condition
\* "linked":  is on m_waiters, block_current to come
\* "asleep":  block_current is entered, detach_self to come
\* "take":    in wake_all's loop, take_first to come
\* "unblock": has taken a victim off the list, Scheduler::unblock to come
Positions == [op : {"out", "looked", "linked", "asleep", "take", "unblock"},
              q : Queues, victim : Threads \cup {NoThread}]

At(op, q, victim) == [op |-> op, q |-> q, victim |-> victim]

Out == At("out", Poll, NoThread)

TypeOK ==
    /\ S!TypeOK
    /\ waiters \in [Queues -> Seq(Threads)]
    /\ unchanged \in [Threads -> BOOLEAN]
    /\ at \in [Callers -> Positions]

Init ==
    /\ waiters = [q \in Queues |-> <<>>]
    /\ unchanged = [t \in Threads |-> FALSE]
    /\ at = [c \in Callers |-> Out]
    /\ S!Init

\* Caller c has the CPU and is at op
Runs(c, op) ==
    /\ at[c].op = op
    /\ IF c = Irq THEN irq = "device" ELSE S!RunningCode(c) /\ pc[c] = "run"

-----------------------------------------------------------------------------
(* wait and wait_since                                                      *)

Link(t, q) ==
    /\ waiters' = [waiters EXCEPT ![q] = S!AppendNode(@, t, S!WaitNodeLinked(t))]
    /\ at' = [at EXCEPT ![t] = At("linked", q, NoThread)]
    /\ UNCHANGED schedVars

Wait(t, q) ==
    /\ Runs(t, "out")
    /\ Link(t, q)
    /\ UNCHANGED unchanged

Generation(t, q) ==
    /\ Runs(t, "out")
    /\ unchanged' = [unchanged EXCEPT ![t] = TRUE]
    /\ at' = [at EXCEPT ![t] = At("looked", q, NoThread)]
    /\ UNCHANGED <<schedVars, waiters>>

WaitSince(t) ==
    /\ Runs(t, "looked")
    /\ \/ /\ unchanged[t]
          /\ Link(t, at[t].q)
       \/ /\ ~unchanged[t]
          /\ at' = [at EXCEPT ![t] = Out]
          /\ UNCHANGED <<schedVars, waiters>>
    /\ UNCHANGED unchanged

Block(t) ==
    /\ Runs(t, "linked")
    /\ at' = [at EXCEPT ![t].op = "asleep"]
    /\ UNCHANGED <<waiters, unchanged>>
    /\ S!BlockCurrent(t, "Blocked")

\* Mutant: trusts the waker to have taken the thread off the list
DetachSelfTrusting(t) ==
    /\ Runs(t, "asleep")
    /\ at' = [at EXCEPT ![t] = Out]
    /\ UNCHANGED <<schedVars, waiters, unchanged>>

DetachSelf(t) ==
    /\ Runs(t, "asleep")
    /\ waiters' = [waiters EXCEPT ![at[t].q] =
                     IF S!WaitNodeLinked(t) THEN S!RemoveNode(@, t) ELSE @]
    /\ at' = [at EXCEPT ![t] = Out]
    /\ UNCHANGED <<schedVars, unchanged>>

-----------------------------------------------------------------------------
(* wake_all, by a thread or by a device's interrupt handler                 *)

Bump(q) ==
    unchanged' = [t \in Threads |-> unchanged[t] /\ ~(at[t].op = "looked" /\ at[t].q = q)]

WakeAll(t, q) ==
    /\ Runs(t, "out")
    /\ Bump(q)
    /\ at' = [at EXCEPT ![t] = At("take", q, NoThread)]
    /\ UNCHANGED <<schedVars, waiters>>

\* The interrupt is taken and its handler calls wake_all
DeviceWakeAll(q) ==
    /\ Bump(q)
    /\ at' = [at EXCEPT ![Irq] = At("take", q, NoThread)]
    /\ UNCHANGED waiters
    /\ S!DeviceBegin

\* Mutant: takes the first waiter of an empty list too, a null Thread*
TakeFirstNull(c) ==
    LET q == at[c].q
    IN  /\ Runs(c, "take")
        /\ waiters' = [waiters EXCEPT ![q] = IF @ = <<>> THEN <<NoThread>> ELSE Tail(@)]
        /\ at' = [at EXCEPT ![c] = At("unblock", q, IF waiters[q] = <<>> THEN NoThread
                                                   ELSE Head(waiters[q]))]
        /\ UNCHANGED <<schedVars, unchanged>>

TakeFirst(c) ==
    LET q == at[c].q
    IN  /\ Runs(c, "take") /\ waiters[q] # <<>>
        /\ waiters' = [waiters EXCEPT ![q] = Tail(@)]
        /\ at' = [at EXCEPT ![c] = At("unblock", q, Head(waiters[q]))]
        /\ UNCHANGED <<schedVars, unchanged>>

\* The queue is empty; go on with the poll queue, which every wake includes
TakeNone(c) ==
    LET q == at[c].q
    IN  /\ Runs(c, "take") /\ waiters[q] = <<>>
        /\ \/ /\ q # Poll
              /\ Bump(Poll)
              /\ at' = [at EXCEPT ![c] = At("take", Poll, NoThread)]
           \/ /\ q = Poll
              /\ at' = [at EXCEPT ![c] = Out]
              /\ UNCHANGED unchanged
        /\ UNCHANGED <<schedVars, waiters>>

\* Mutant: marks the thread Ready and leaves it off the run queue
UnblockVictimUnqueued(c) ==
    LET t == at[c].victim
    IN  /\ Runs(c, "unblock")
        /\ at' = [at EXCEPT ![c] = At("take", at[c].q, NoThread)]
        /\ UNCHANGED <<waiters, unchanged>>
        /\ state' = [state EXCEPT ![t] = IF @ = "Running" THEN @ ELSE "Ready"]
        /\ UNCHANGED <<current, runQueue, zombies, sleepers, remaining, quantum,
                       pc, reaping, irq>>

UnblockVictim(c) ==
    LET t == at[c].victim
    IN  /\ Runs(c, "unblock")
        /\ at' = [at EXCEPT ![c] = At("take", at[c].q, NoThread)]
        /\ UNCHANGED <<waiters, unchanged>>
        /\ \/ S!Unblock(t)
           \/ state[t] \in {"Running", "Ready"} /\ UNCHANGED schedVars

\* The wake-up at the end of Process::raise_signal, from another thread
Signal(t, target) ==
    /\ Runs(t, "out") /\ state[target] \in {"Blocked", "Sleeping"}
    /\ UNCHANGED queueVars
    /\ S!Unblock(target)

\* The handler is done when wake_all has returned
DeviceReturn ==
    /\ at[Irq].op = "out"
    /\ UNCHANGED queueVars
    /\ S!DeviceEnd

-----------------------------------------------------------------------------
(* What the scheduler does by itself, and the other calls threads make.     *)

SchedulerStep ==
    /\ UNCHANGED queueVars
    /\ \/ S!Timer
       \/ S!ReapTake
       \/ S!ReapFree
       \/ \E t \in Threads : pc[t] # "run" /\ S!Yield(t)

OtherCall(t) ==
    /\ Runs(t, "out")
    /\ UNCHANGED queueVars
    /\ \/ S!ExitCurrent(t)
       \/ \E ticks \in 0..MaxSleep : S!Sleep(t, ticks)
       \/ \E new \in Threads : S!Enqueue(new)

\* Only sys_poll waits with wait_since, and only on the poll queue; nothing
\* waits there otherwise, and nothing but wake_all wakes it.
Next ==
    \/ SchedulerStep
    \/ DeviceReturn
    \/ \E q \in Queues \ {Poll} : DeviceWakeAll(q)
    \/ \E c \in Callers : TakeFirst(c) \/ TakeNone(c) \/ UnblockVictim(c)
    \/ \E t \in Threads :
        \/ \E q \in Queues \ {Poll} : Wait(t, q) \/ WakeAll(t, q)
        \/ Generation(t, Poll) \/ WaitSince(t) \/ Block(t) \/ DetachSelf(t)
        \/ OtherCall(t)
        \/ \E target \in Threads : Signal(t, target)

Spec == Init /\ [][Next]_vars

\* No thread is told from another, which TLC uses.
Symmetry == Permutations(Threads)

-----------------------------------------------------------------------------
\* detach_self and take_first do their list surgery on the right list: a
\* thread linked on a queue is inside wait or wait_since of that very queue,
\* linked once, so it is never left behind on one queue while it waits on
\* another, sleeps or exits, however it was woken.
WaiterIsInside ==
    \A q \in Queues : \A i \in DOMAIN waiters[q] :
        LET t == waiters[q][i]
        IN  /\ at[t].op \in {"linked", "asleep"} /\ at[t].q = q
            /\ \A j \in DOMAIN waiters[q] : waiters[q][j] = t => j = i

\* wake_all holds a bare Thread* between take_first and unblock, and may be
\* preempted there.  The thread may meanwhile be woken by a signal, wait
\* elsewhere, or exit, but it is not freed: the idle loop that frees it runs
\* only when the run queue is empty, and the preempted waker is on it.
VictimIsAlive ==
    \A c \in Callers : at[c].op = "unblock" =>
        /\ at[c].victim # reaping
        /\ state[at[c].victim] # "Absent"

\* Together: no list and no waker refers to a thread that is not waiting there.
QueuesSafe == TypeOK /\ WaiterIsInside /\ VictimIsAlive

\* The queues use the scheduler as Scheduler.tla says its callers do.
UsesScheduler == S!Spec

\* A thread blocked on a queue is still on its list, or a waker holds it: the
\* wake that took it off the list has put it, or will put it, on the run queue
Wakeable(t) ==
    state[t] = "Blocked" /\ at[t].op = "asleep" =>
        \/ t \in Range(waiters[at[t].q])
        \/ \E c \in Callers : at[c].op = "unblock" /\ at[c].victim = t

\* What the comment in WaitQueue::wait says: a wake that arrives between
\* appending and blocking is "one spurious wake rather than a lost one".
WaitNotLost == \A t \in Threads : Wakeable(t)
=============================================================================
