------------------------------ MODULE Scheduler ------------------------------
(***************************************************************************)
(* kernel/sched/scheduler.cpp: the round-robin scheduler of a single CPU.  *)
(*                                                                         *)
(* One step is one critical section (an InterruptLockGuard masks the       *)
(* interrupts of the only CPU, so it is atomic), one software interrupt,   *)
(* or one part of an interrupt handler.  Between two steps of a thread     *)
(* interrupts are enabled, so a timer tick or a device interrupt may       *)
(* happen there; a handler runs with interrupts masked, so nothing else    *)
(* moves until it returns.                                                 *)
(*                                                                         *)
(* Callers of the scheduler (wait queues, signals, drivers) are reduced    *)
(* here to the calls they may make: block_current, unblock, enqueue, and   *)
(* linking or unlinking the wait_queue_node that s_sleepers shares with    *)
(* every wait queue.  WaitQueue.tla supplies the real callers.             *)
(***************************************************************************)
EXTENDS Naturals, Sequences, Functions

CONSTANTS
    Threads,     \* every Thread object but the idle one
    Idle,        \* s_idle_thread
    NoThread,    \* a null Thread*
    Quantum,     \* DEFAULT_QUANTUM_TICKS
    MaxSleep     \* longest sleep_ms, in timer ticks

ASSUME IdleAssumption == Idle \notin Threads
ASSUME NoThreadAssumption == NoThread \notin Threads \cup {Idle}
ASSUME QuantumAssumption == Quantum \in Nat \ {0}
ASSUME MaxSleepAssumption == MaxSleep \in Nat

VARIABLES
    state,       \* Thread::m_state; "Absent" when the object does not exist
    current,     \* cpu->current_thread
    runQueue,    \* s_run_queue
    zombies,     \* s_zombies, on the same ListNode as the run queue
    sleepers,    \* s_sleepers
    waitLinked,  \* threads whose wait_queue_node is on some WaitQueue
    remaining,   \* m_wake_at_tick less the tick counter, not below zero
    quantum,     \* m_quantum_remaining of the current thread
    pc,          \* what a thread does next: see PcValues
    reaping,     \* the zombie idle_loop has taken off the list, not yet freed
    irq          \* the interrupt handler in progress

vars == <<state, current, runQueue, zombies, sleepers, waitLinked, remaining,
          quantum, pc, reaping, irq>>

AllThreads == Threads \cup {Idle}

ThreadState ==
    {"Ready", "Running", "Blocked", "Sleeping", "Stopped", "Zombie"}

\* "run":   outside the scheduler
\* "yield": the state is set, the lock released, the yield interrupt to come
\* "exit":  the same inside exit_current
\* "dead":  after that yield; to be scheduled here is the panic of
\*          exit_current
PcValues == {"run", "yield", "exit", "dead"}

TypeOK ==
    /\ state \in [AllThreads -> ThreadState \cup {"Absent"}]
    /\ current \in AllThreads
    /\ runQueue \in Seq(Threads)
    /\ zombies \in Seq(Threads)
    /\ sleepers \in Seq(Threads)
    /\ waitLinked \in SUBSET Threads
    /\ remaining \in [Threads -> 0..MaxSleep]
    /\ quantum \in 0..Quantum
    /\ pc \in [AllThreads -> PcValues]
    /\ reaping \in Threads \cup {NoThread}
    /\ irq \in {"none", "tick", "device"}

-----------------------------------------------------------------------------
(* IntrusiveList: append does nothing when the node is already linked, on   *)
(* this list or on another that shares the node.                            *)

\* Mutant: one node for the run queue and the wait queues
RunNodeLinkedShared(t) == t \in Range(runQueue) \cup Range(zombies) \cup waitLinked

RunNodeLinked(t) == t \in Range(runQueue) \cup Range(zombies)

WaitNodeLinked(t) == t \in Range(sleepers) \cup waitLinked

\* Mutant: append does not look at the linked flag
AppendNodeAlways(list, t, linked) == Append(list, t)

AppendNode(list, t, linked) == IF linked THEN list ELSE Append(list, t)

\* The list without its i-th item
Unlinked(list, i) == SubSeq(list, 1, i - 1) \o SubSeq(list, i + 1, Len(list))

\* remove trusts the item to be on this list (where it is at most once).
\* Given an item of another list it overwrites this list's head and tail
\* with the item's neighbours there, and what this list held is lost.
RemoveNode(list, t) ==
    IF t \in Range(list)
    THEN Unlinked(list, CHOOSE i \in DOMAIN list : list[i] = t)
    ELSE <<>>

-----------------------------------------------------------------------------
\* adopt_current_context: the boot context is the first thread
Init ==
    /\ \E boot \in Threads :
        /\ current = boot
        /\ state = [t \in AllThreads |-> IF t = boot THEN "Running"
                                         ELSE IF t = Idle THEN "Ready"
                                         ELSE "Absent"]
    /\ runQueue = <<>> /\ zombies = <<>> /\ sleepers = <<>>
    /\ waitLinked = {}
    /\ remaining = [t \in Threads |-> 0]
    /\ quantum = Quantum
    /\ pc = [t \in AllThreads |-> "run"]
    /\ reaping = NoThread
    /\ irq = "none"

\* Thread code runs: no handler is in progress and thread t has the CPU
RunningCode(t) == irq = "none" /\ current = t

\* Code outside the scheduler runs, in a thread or in a device's handler
CallerRuns == irq = "device" \/ (irq = "none" /\ current # Idle /\ pc[current] = "run")

-----------------------------------------------------------------------------
(* switch_to_next(frame, true): both callers ask for the requeue.           *)

Requeued ==
    IF state[current] = "Running" /\ current # Idle
    THEN AppendNode(runQueue, current, RunNodeLinked(current))
    ELSE runQueue

\* Mutant: the thread that loses the CPU is still called Running
SwitchToNextRunning ==
    LET next == IF Requeued = <<>> THEN Idle ELSE Head(Requeued)
    IN  /\ state' = [state EXCEPT ![next] = "Running"]
        /\ runQueue' = IF Requeued = <<>> THEN <<>> ELSE Tail(Requeued)
        /\ current' = next
        /\ quantum' = Quantum

\* Mutant: the newest thread of the run queue goes first
SwitchToNextNewest ==
    LET next == IF Requeued = <<>> THEN Idle ELSE Requeued[Len(Requeued)]
        saved == IF state[current] = "Running" THEN "Ready" ELSE state[current]
    IN  /\ state' = [state EXCEPT ![current] = saved, ![next] = "Running"]
        /\ runQueue' = IF Requeued = <<>> THEN <<>> ELSE SubSeq(Requeued, 1, Len(Requeued) - 1)
        /\ current' = next
        /\ quantum' = Quantum

\* Mutant: the idle thread runs whenever there is a zombie to reap
SwitchToNextReaps ==
    LET idles == Requeued = <<>> \/ zombies # <<>>
        next == IF idles THEN Idle ELSE Head(Requeued)
        saved == IF state[current] = "Running" THEN "Ready" ELSE state[current]
    IN  /\ state' = [state EXCEPT ![current] = saved, ![next] = "Running"]
        /\ runQueue' = IF idles THEN Requeued ELSE Tail(Requeued)
        /\ current' = next
        /\ quantum' = Quantum

SwitchToNext ==
    LET next == IF Requeued = <<>> THEN Idle ELSE Head(Requeued)
        saved == IF state[current] = "Running" THEN "Ready" ELSE state[current]
    IN  /\ state' = [state EXCEPT ![current] = saved, ![next] = "Running"]
        /\ runQueue' = IF Requeued = <<>> THEN <<>> ELSE Tail(Requeued)
        /\ current' = next
        /\ quantum' = Quantum

\* on_yield_request; a thread also yields of its own accord from "run"
Yield(t) ==
    /\ RunningCode(t) /\ t # Idle
    /\ SwitchToNext
    /\ pc' = [pc EXCEPT ![t] = IF pc[t] \in {"exit", "dead"} THEN "dead" ELSE "run"]
    /\ UNCHANGED <<zombies, sleepers, waitLinked, remaining, reaping, irq>>

-----------------------------------------------------------------------------
(* The timer interrupt: on_timer_interrupt counts the tick, on_timer_tick   *)
(* wakes the sleepers that are due one by one and then decides on a switch. *)

TickBegin ==
    /\ irq = "none"
    /\ irq' = "tick"
    /\ remaining' = [t \in Threads |-> IF t \in Range(sleepers) /\ remaining[t] > 0
                                       THEN remaining[t] - 1 ELSE remaining[t]]
    /\ UNCHANGED <<state, current, runQueue, zombies, sleepers, waitLinked,
                   quantum, pc, reaping>>

\* Mutant: an idle CPU looks at nothing but the run queue
DueUnlessIdle(i) == current # Idle /\ remaining[sleepers[i]] = 0

Due(i) == remaining[sleepers[i]] = 0

TickWake ==
    /\ irq = "tick"
    /\ \E i \in DOMAIN sleepers :
        /\ Due(i) /\ \A j \in DOMAIN sleepers : j < i => ~Due(j)
        /\ sleepers' = Unlinked(sleepers, i)
        /\ state' = [state EXCEPT ![sleepers[i]] = "Ready"]
        /\ runQueue' = AppendNode(runQueue, sleepers[i], RunNodeLinked(sleepers[i]))
    /\ UNCHANGED <<current, zombies, waitLinked, remaining, quantum, pc, reaping, irq>>

TickEnd ==
    LET left == IF quantum > 0 THEN quantum - 1 ELSE 0
        someoneWaiting == runQueue # <<>>
    IN  /\ irq = "tick"
        /\ \A i \in DOMAIN sleepers : ~Due(i)
        /\ \/ /\ left # 0 /\ ~(current = Idle /\ someoneWaiting)
              /\ quantum' = left
              /\ UNCHANGED <<state, current, runQueue>>
           \/ /\ left = 0 /\ ~someoneWaiting /\ state[current] = "Running"
              /\ quantum' = Quantum
              /\ UNCHANGED <<state, current, runQueue>>
           \/ /\ left = 0 \/ (current = Idle /\ someoneWaiting)
              /\ someoneWaiting \/ state[current] # "Running"
              /\ SwitchToNext
        /\ irq' = "none"
        /\ UNCHANGED <<zombies, sleepers, waitLinked, remaining, pc, reaping>>

-----------------------------------------------------------------------------
(* What the running thread asks for.                                        *)

\* enqueue, of a thread that was just created
Enqueue(t) ==
    /\ irq = "none" /\ current # Idle /\ pc[current] = "run"
    /\ state[t] = "Absent"
    /\ state' = [state EXCEPT ![t] = "Ready"]
    /\ runQueue' = AppendNode(runQueue, t, RunNodeLinked(t))
    /\ pc' = [pc EXCEPT ![t] = "run"]
    /\ UNCHANGED <<current, zombies, sleepers, waitLinked, remaining, quantum,
                   reaping, irq>>

BlockCurrent(t, reason) ==
    /\ RunningCode(t) /\ pc[t] = "run"
    /\ state' = [state EXCEPT ![t] = reason]
    /\ pc' = [pc EXCEPT ![t] = "yield"]
    /\ UNCHANGED <<current, runQueue, zombies, sleepers, waitLinked, remaining,
                   quantum, reaping, irq>>

\* sleep_ms, called with the thread on no wait queue
Sleep(t, ticks) ==
    /\ RunningCode(t) /\ pc[t] = "run" /\ t \notin waitLinked
    /\ remaining' = [remaining EXCEPT ![t] = ticks]
    /\ state' = [state EXCEPT ![t] = "Sleeping"]
    /\ sleepers' = AppendNode(sleepers, t, WaitNodeLinked(t))
    /\ pc' = [pc EXCEPT ![t] = "yield"]
    /\ UNCHANGED <<current, runQueue, zombies, waitLinked, quantum, reaping, irq>>

ExitCurrent(t) ==
    /\ RunningCode(t) /\ pc[t] = "run" /\ t \notin waitLinked
    /\ state' = [state EXCEPT ![t] = "Zombie"]
    /\ zombies' = AppendNode(zombies, t, RunNodeLinked(t))
    /\ pc' = [pc EXCEPT ![t] = "exit"]
    /\ UNCHANGED <<current, runQueue, sleepers, waitLinked, remaining, quantum,
                   reaping, irq>>

\* Mutant: without the test of the state before the list surgery
UnblockAnyList(t) ==
    /\ CallerRuns
    /\ state[t] # "Absent" /\ t # reaping
    /\ state[t] \notin {"Running", "Ready"}
    /\ sleepers' = IF WaitNodeLinked(t) THEN RemoveNode(sleepers, t) ELSE sleepers
    /\ state' = [state EXCEPT ![t] = "Ready"]
    /\ runQueue' = AppendNode(runQueue, t, RunNodeLinked(t))
    /\ UNCHANGED <<current, zombies, waitLinked, remaining, quantum, pc, reaping, irq>>

\* unblock, of a thread whose object still exists
Unblock(t) ==
    /\ CallerRuns
    /\ state[t] # "Absent" /\ t # reaping
    /\ state[t] \notin {"Running", "Ready"}
    /\ sleepers' = IF state[t] = "Sleeping" /\ WaitNodeLinked(t)
                   THEN RemoveNode(sleepers, t) ELSE sleepers
    /\ state' = [state EXCEPT ![t] = "Ready"]
    /\ runQueue' = AppendNode(runQueue, t, RunNodeLinked(t))
    /\ UNCHANGED <<current, zombies, waitLinked, remaining, quantum, pc, reaping, irq>>

-----------------------------------------------------------------------------
(* The node wait queues share with s_sleepers, and device handlers.         *)

LinkWaiter(t) ==
    /\ RunningCode(t) /\ pc[t] = "run" /\ t # Idle
    /\ waitLinked' = waitLinked \cup {t}
    /\ UNCHANGED <<state, current, runQueue, zombies, sleepers, remaining, quantum,
                   pc, reaping, irq>>

UnlinkWaiter(t) ==
    /\ CallerRuns /\ t \in waitLinked
    /\ waitLinked' = waitLinked \ {t}
    /\ UNCHANGED <<state, current, runQueue, zombies, sleepers, remaining, quantum,
                   pc, reaping, irq>>

DeviceBegin ==
    /\ irq = "none" /\ irq' = "device"
    /\ UNCHANGED <<state, current, runQueue, zombies, sleepers, waitLinked,
                   remaining, quantum, pc, reaping>>

DeviceEnd ==
    /\ irq = "device" /\ irq' = "none"
    /\ UNCHANGED <<state, current, runQueue, zombies, sleepers, waitLinked,
                   remaining, quantum, pc, reaping>>

-----------------------------------------------------------------------------
(* idle_loop: take a zombie under the lock, free it outside.                *)

\* Mutant: the zombie is looked at but left on the list
ReapTakeLeaves ==
    /\ RunningCode(Idle) /\ reaping = NoThread /\ zombies # <<>>
    /\ reaping' = Head(zombies)
    /\ UNCHANGED <<state, current, runQueue, zombies, sleepers, waitLinked, remaining,
                   quantum, pc, irq>>

ReapTake ==
    /\ RunningCode(Idle) /\ reaping = NoThread /\ zombies # <<>>
    /\ reaping' = Head(zombies)
    /\ zombies' = Tail(zombies)
    /\ UNCHANGED <<state, current, runQueue, sleepers, waitLinked, remaining,
                   quantum, pc, irq>>

ReapFree ==
    /\ RunningCode(Idle) /\ reaping # NoThread
    /\ state' = [state EXCEPT ![reaping] = "Absent"]
    /\ reaping' = NoThread
    /\ UNCHANGED <<current, runQueue, zombies, sleepers, waitLinked, remaining,
                   quantum, pc, irq>>

-----------------------------------------------------------------------------
ThreadStep(t) ==
    \/ Yield(t)
    \/ \E reason \in {"Blocked", "Stopped"} : BlockCurrent(t, reason)
    \/ \E ticks \in 0..MaxSleep : Sleep(t, ticks)
    \/ ExitCurrent(t)
    \/ LinkWaiter(t)

Timer == TickBegin \/ TickWake \/ TickEnd

Next ==
    \/ Timer
    \/ DeviceBegin
    \/ DeviceEnd
    \/ ReapTake
    \/ ReapFree
    \/ \E t \in Threads :
        ThreadStep(t) \/ Enqueue(t) \/ Unblock(t) \/ UnlinkWaiter(t)

Spec == Init /\ [][Next]_vars

\* The PIT keeps ticking; a tick that arrives while a handler runs stays
\* latched in the PIC and is taken when the handler returns, hence SF.
\* A handler, once entered, returns.
FairSpec ==
    /\ Spec
    /\ SF_vars(TickBegin) /\ WF_vars(TickWake) /\ WF_vars(TickEnd)
    /\ WF_vars(DeviceEnd)

-----------------------------------------------------------------------------
\* A thread the scheduler calls Ready is on the run queue, so it will be
\* picked: no sequence of blocks, ticks, wake-ups and preemptions inside the
\* window between block_current's lock and its yield loses one.  The
\* exception is a zombie that a late unblock marked Ready: its node is on
\* s_zombies, which keeps it off the run queue.
RunnableIsQueued ==
    \A t \in Threads :
        state[t] = "Ready" /\ pc[t] \notin {"exit", "dead"} => t \in Range(runQueue)

\* switch_to_next hands the CPU to Ready threads only, each once: a thread on
\* the run queue is Ready and not queued twice, and no thread but the current
\* one is Running.
RunQueueSound ==
    /\ \A i \in DOMAIN runQueue : state[runQueue[i]] = "Ready"
    /\ \A i, j \in DOMAIN runQueue : runQueue[i] = runQueue[j] => i = j
    /\ \A t \in AllThreads : state[t] = "Running" => t = current

\* s_sleepers and every wait queue thread onto the same ListNode; the state
\* test in unblock is what keeps the surgery on the right list.  A Sleeping
\* thread is on s_sleepers, so its deadline is looked at, and on no other
\* list that uses the node.
SleeperIsListed ==
    \A t \in Threads :
        /\ state[t] = "Sleeping" => t \in Range(sleepers)
        /\ t \in Range(sleepers) => state[t] = "Sleeping" /\ t \notin waitLinked

\* Together: whatever blocks, sleeps, ticks, wakes and exits interleave, every
\* thread is on the lists its state calls for and on no others.
ListsSound == RunnableIsQueued /\ RunQueueSound /\ SleeperIsListed

\* The panic at the end of exit_current is unreachable: a thread that exited
\* never has the CPU again.
ZombieNeverScheduled ==
    \A t \in Threads : pc[t] = "dead" => current # t

\* idle_loop frees a Thread outside the lock, and only when no list and no
\* CPU refers to it any more.
FreedIsUnreachable ==
    \A t \in Threads : state[t] = "Absent" \/ t = reaping =>
        /\ t # current
        /\ t \notin Range(runQueue) \cup Range(zombies) \cup Range(sleepers) \cup waitLinked

\* Together: exit_current is final, and the memory is freed only after that.
ExitSound == ZombieNeverScheduled /\ FreedIsUnreachable

\* Round robin: a thread on the run queue gets the CPU, whatever the others do.
NoStarvation ==
    \A t \in Threads : t \in Range(runQueue) ~> state[t] = "Running"

\* A sleeping thread is woken, by its deadline or by a signal.
SleepEnds ==
    \A t \in Threads : state[t] = "Sleeping" ~> state[t] # "Sleeping"
=============================================================================
