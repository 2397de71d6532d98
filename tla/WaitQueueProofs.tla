--------------------------- MODULE WaitQueueProofs ---------------------------
(***************************************************************************)
(* The wait queues keep to the scheduler's rules, and no list and no waker *)
(* refers to a thread that is gone, for every number of threads and        *)
(* queues.                                                                 *)
(***************************************************************************)
EXTENDS WaitQueue, TLAPS

(***************************************************************************)
(* The inductive invariant.                                                *)
(***************************************************************************)
Waking == {"take", "unblock"}

Typed ==
    /\ waiters \in [Queues -> Seq(Threads)]
    /\ unchanged \in [Threads -> BOOLEAN]
    /\ at \in [Callers -> Positions]

\* A list holds threads that wait there, each once.
Listed ==
    \A q \in Queues :
        /\ S!Injective(waiters[q])
        /\ \A t \in Range(waiters[q]) : at[t].op \in {"linked", "asleep"} /\ at[t].q = q

\* The handler only wakes, and is not left in the middle of it.
Handler ==
    /\ at[Irq].op \in Waking \cup {"out"}
    /\ at[Irq].op \in Waking => irq = "device"

\* A thread in the middle of wake_all has the CPU or is on the run queue, so
\* the idle loop does not run.
Wakers ==
    \A t \in Threads : at[t].op \in Waking =>
        pc[t] = "run" /\ state[t] \in {"Running", "Ready"} /\ current # Idle

\* What it has taken off a list exists.
Victims ==
    \A c \in Callers : at[c].op = "unblock" =>
        /\ at[c].victim \in Threads
        /\ at[c].victim # reaping /\ state[at[c].victim] # "Absent"

IInv == S!IInv /\ Typed /\ Listed /\ Handler /\ Wakers /\ Victims

-----------------------------------------------------------------------------
\* The scheduler's module has a Range of its own.
LEMMA SameItems == \A s : S!Range(s) = Range(s)
BY DEF S!Range, Range

\* A step of the scheduler keeps the scheduler's invariant.
LEMMA SchedulerNext == S!IInv /\ [S!Next]_S!vars => S!IInv'
BY S!NextInv, ThreadsAssumption, TicksAssumption

\* A thread linked on a queue is on the list of the queue it waits on.
LEMMA LinkedThere ==
    ASSUME IInv, NEW t \in OnSomeQueue
    PROVE  t \in Threads /\ at[t].op \in {"linked", "asleep"} /\ at[t].q \in Queues /\ t \in Range(waiters[at[t].q])
<1>1. PICK q \in Queues : t \in Range(waiters[q])
    BY DEF OnSomeQueue
<1>2. waiters[q] \in Seq(Threads)
    BY DEF IInv, Typed
<1>3. t \in Threads
    BY <1>1, <1>2, S!ItemsFacts, SameItems, ThreadsAssumption, TicksAssumption
<1> QED BY <1>1, <1>3 DEF IInv, Listed

\* A caller that has the CPU is Running, and on no list but a queue's.
LEMMA RunnerFacts ==
    ASSUME IInv, NEW t \in Threads, NEW op, Runs(t, op)
    PROVE  /\ t = current /\ irq = "none" /\ pc[t] = "run" /\ at[t].op = op /\ t # Idle /\ t # Irq
           /\ state[t] = "Running" /\ t \notin S!Range(sleepers) /\ t \notin S!Range(zombies)
           /\ t \notin S!Range(runQueue) /\ t # reaping
           /\ S!RunningCode(t) /\ S!CallerRuns
<1>1. t = current /\ irq = "none" /\ pc[t] = "run" /\ at[t].op = op /\ t # Idle /\ t # Irq
    BY IrqAssumption, ThreadsAssumption DEF Runs, S!RunningCode
<1>2. state[t] = "Running"
    BY <1>1 DEF IInv, S!IInv, S!CpuInv
<1> QED BY <1>1, <1>2 DEF IInv, S!IInv, S!CpuInv, S!ThreadInv, S!Exiting, S!RunningCode, S!CallerRuns

\* What is on a list exists.
LEMMA LinkedAlive ==
    ASSUME IInv, NEW t \in OnSomeQueue
    PROVE  state[t] # "Absent" /\ t # reaping
BY LinkedThere DEF IInv, S!IInv, S!ThreadInv

\* One list gains a thread, or loses one that was on it.
LEMMA OneMore ==
    ASSUME IInv, NEW q \in Queues, NEW t, NEW list,
           waiters' = [waiters EXCEPT ![q] = list], Range(list) = Range(waiters[q]) \cup {t}
    PROVE  OnSomeQueue' = OnSomeQueue \cup {t}
<1>1. /\ Range(waiters'[q]) = Range(waiters[q]) \cup {t}
      /\ \A r \in Queues \ {q} : Range(waiters'[r]) = Range(waiters[r])
    BY DEF IInv, Typed
<1>2. OnSomeQueue' = UNION {Range(waiters'[r]) : r \in Queues}
    BY DEF OnSomeQueue, Range
<1> QED BY <1>1, <1>2 DEF OnSomeQueue

LEMMA OneLess ==
    ASSUME IInv, NEW q \in Queues, NEW t \in Range(waiters[q]), NEW list,
           waiters' = [waiters EXCEPT ![q] = list], Range(list) = Range(waiters[q]) \ {t}
    PROVE  OnSomeQueue' = OnSomeQueue \ {t}
<1>1. /\ Range(waiters'[q]) = Range(waiters[q]) \ {t}
      /\ \A r \in Queues \ {q} : Range(waiters'[r]) = Range(waiters[r]) /\ t \notin Range(waiters[r])
    BY Zenon DEF IInv, Typed, Listed
<1>2. OnSomeQueue' = UNION {Range(waiters'[r]) : r \in Queues}
    BY DEF OnSomeQueue, Range
<1> QED BY <1>1, <1>2 DEF OnSomeQueue

\* The lists of SchedulerProofs, for the lists of waiters.
LEMMA ListFacts ==
    ASSUME NEW s \in Seq(Threads), S!Injective(s)
    PROVE  /\ \A t \in Threads \ Range(s) :
                 /\ Append(s, t) \in Seq(Threads) /\ S!Injective(Append(s, t))
                 /\ Range(Append(s, t)) = Range(s) \cup {t}
           /\ s # <<>> =>
                 /\ Head(s) \in Range(s) /\ Head(s) \in Threads
                 /\ Tail(s) \in Seq(Threads) /\ S!Injective(Tail(s))
                 /\ Range(Tail(s)) = Range(s) \ {Head(s)}
           /\ \A t \in Range(s) :
                 /\ S!RemoveNode(s, t) \in Seq(Threads) /\ S!Injective(S!RemoveNode(s, t))
                 /\ Range(S!RemoveNode(s, t)) = Range(s) \ {t}
<1> USE SameItems, ThreadsAssumption, TicksAssumption
<1>1. ASSUME NEW t \in Threads \ Range(s)
      PROVE  /\ Append(s, t) \in Seq(Threads) /\ S!Injective(Append(s, t))
             /\ Range(Append(s, t)) = Range(s) \cup {t}
    BY S!AppendFacts
<1>2. ASSUME s # <<>>
      PROVE  /\ Head(s) \in Range(s) /\ Head(s) \in Threads
             /\ Tail(s) \in Seq(Threads) /\ S!Injective(Tail(s))
             /\ Range(Tail(s)) = Range(s) \ {Head(s)}
    BY <1>2, S!TailFacts
<1>3. ASSUME NEW t \in Range(s)
      PROVE  /\ S!RemoveNode(s, t) \in Seq(Threads) /\ S!Injective(S!RemoveNode(s, t))
             /\ Range(S!RemoveNode(s, t)) = Range(s) \ {t}
    BY S!RemoveNodeFacts
<1> QED BY <1>1, <1>2, <1>3

-----------------------------------------------------------------------------
(***************************************************************************)
(* Steps inside this file, which leave the threads' states alone.          *)
(***************************************************************************)

\* Caller c goes to x.
Moves(c, x) ==
    /\ UNCHANGED schedVars /\ Listed'
    /\ waiters' \in [Queues -> Seq(Threads)]
    /\ unchanged' \in [Threads -> BOOLEAN]
    /\ at' = [at EXCEPT ![c] = x] /\ x \in Positions
    /\ c = Irq => x.op \in Waking \cup {"out"}
    /\ x.op \in Waking => IF c = Irq THEN irq = "device" ELSE state[c] = "Running" /\ pc[c] = "run"
    /\ x.op = "unblock" => x.victim \in Threads /\ x.victim # reaping /\ state[x.victim] # "Absent"

\* The positions actions write.
LEMMA AtFacts ==
    ASSUME NEW q \in Queues, NEW v \in Threads \cup {NoThread},
           NEW op \in {"out", "looked", "linked", "asleep", "take", "unblock"}
    PROVE  /\ At(op, q, v) \in Positions
           /\ At(op, q, v).op = op /\ At(op, q, v).q = q /\ At(op, q, v).victim = v
BY DEF At, Positions

LEMMA OutFacts == Out \in Positions /\ Out.op = "out"
BY AtFacts, PollAssumption DEF Out

\* Such a step keeps the invariant, if the scheduler keeps its own.
LEMMA MovesKeeps ==
    ASSUME IInv, NEW c \in Callers, NEW x, Moves(c, x), S!IInv'
    PROVE  IInv'
<1> USE DEF Moves
<1>1. at'[c] = x /\ \A d \in Callers \ {c} : at'[d] = at[d]
    BY DEF IInv, Typed
<1>2. Typed'
    BY DEF IInv, Typed
<1>3. UNCHANGED <<state, current, pc, reaping, irq>>
    BY DEF schedVars
<1>4. Handler'
    BY <1>1, <1>3, IrqAssumption, Zenon DEF IInv, Handler, Callers
<1>5. Wakers'
  <2> SUFFICES ASSUME NEW t \in Threads, at'[t].op \in Waking
               PROVE  pc[t] = "run" /\ state[t] \in {"Running", "Ready"} /\ current # Idle
    BY <1>3 DEF Wakers, Waking
  <2>1. CASE t = c
    BY <1>1, <2>1, IrqAssumption, ThreadsAssumption, SMTT(60) DEF IInv, S!IInv, S!CpuInv, S!AllThreads
  <2>2. CASE t # c
    BY <1>1, <2>2, Zenon DEF IInv, Wakers, Callers
  <2> QED BY <2>1, <2>2, Zenon
<1>6. Victims'
    BY <1>1, <1>3, ZenonT(60) DEF IInv, Victims
<1> QED BY <1>2, <1>4, <1>5, <1>6 DEF IInv

\* The lists stay as they are, and the caller is on none.
LEMMA ListedKept ==
    ASSUME IInv, UNCHANGED waiters, NEW c \in Callers, NEW x,
           at' = [at EXCEPT ![c] = x], c \notin OnSomeQueue
    PROVE  Listed'
<1> SUFFICES ASSUME NEW q \in Queues, NEW t \in Range(waiters[q])
             PROVE  at'[t] = at[t]
    BY DEF IInv, Listed, Range
<1>1. t \in OnSomeQueue
    BY DEF OnSomeQueue
<1> QED BY <1>1, LinkedThere DEF IInv, Typed, Callers

\* WaitQueue::wait links the caller, which is on no list.
LEMMA LinkKeeps ==
    ASSUME IInv, NEW t \in Threads, NEW q \in Queues, NEW op \in {"out", "looked"}, Runs(t, op),
           Link(t, q), UNCHANGED unchanged
    PROVE  S!LinkWaiter(t) /\ IInv'
<1>1. t \notin OnSomeQueue
    BY RunnerFacts, LinkedThere
<1>2. waiters' = [waiters EXCEPT ![q] = Append(waiters[q], t)]
    BY <1>1, RunnerFacts, Zenon DEF Link, S!AppendNode, S!WaitNodeLinked
<1>3. /\ waiters[q] \in Seq(Threads) /\ S!Injective(waiters[q]) /\ t \notin Range(waiters[q])
    BY <1>1 DEF IInv, Typed, Listed, OnSomeQueue
<1>4. /\ Append(waiters[q], t) \in Seq(Threads) /\ S!Injective(Append(waiters[q], t))
      /\ Range(Append(waiters[q], t)) = Range(waiters[q]) \cup {t}
    BY <1>3, ListFacts, Zenon
<1>5. OnSomeQueue' = OnSomeQueue \cup {t}
    BY <1>2, <1>4, OneMore, Zenon
<1>6. S!LinkWaiter(t)
    BY <1>5, RunnerFacts, Zenon DEF S!LinkWaiter, Link, schedVars
<1>7. S!IInv'
    BY <1>6, SchedulerNext DEF S!Next, S!ThreadStep, IInv
<1>8. waiters' \in [Queues -> Seq(Threads)]
    BY <1>2, <1>4 DEF IInv, Typed
<1> DEFINE x == At("linked", q, NoThread)
<1>9. x \in Positions /\ x.op = "linked" /\ x.q = q /\ at' = [at EXCEPT ![t] = x]
    BY AtFacts DEF Link
<1> HIDE DEF x
<1>10. Listed'
  <2> SUFFICES ASSUME NEW r \in Queues
               PROVE  /\ S!Injective(waiters'[r])
                      /\ \A u \in Range(waiters'[r]) : at'[u].op \in {"linked", "asleep"} /\ at'[u].q = r
    BY DEF Listed, Range, S!Injective
  <2>1. at'[t] = x /\ \A u \in Threads \ {t} : at'[u] = at[u]
    BY <1>9 DEF IInv, Typed, Callers
  <2>2. CASE r = q
    <3>1. waiters'[r] = Append(waiters[q], t)
      BY <1>2, <2>2 DEF IInv, Typed
    <3>2. \A u \in Range(waiters[q]) : u \in Threads /\ u # t
      BY <1>1, LinkedThere DEF OnSomeQueue
    <3> QED BY <1>4, <1>9, <2>1, <2>2, <3>1, <3>2, SMTT(60) DEF IInv, Listed
  <2>3. CASE r # q
    <3>1. waiters'[r] = waiters[r]
      BY <1>2, <2>3 DEF IInv, Typed
    <3>2. \A u \in Range(waiters[r]) : u \in Threads /\ u # t
      BY <1>1, LinkedThere DEF OnSomeQueue
    <3> QED BY <2>1, <3>1, <3>2, ZenonT(60) DEF IInv, Listed
  <2> QED BY <2>2, <2>3
<1>11. Moves(t, x)
    BY <1>8, <1>9, <1>10, RunnerFacts, Zenon DEF Moves, Link, Waking, IInv, Typed
<1> QED BY <1>6, <1>7, <1>11, MovesKeeps DEF Callers

\* Nothing happens to the scheduler or to the lists.
LEMMA StillKeeps ==
    ASSUME IInv, UNCHANGED <<schedVars, waiters>>
    PROVE  UNCHANGED S!vars /\ S!IInv'
<1>1. UNCHANGED S!vars
    BY DEF S!vars, schedVars, OnSomeQueue
<1> QED BY <1>1, SchedulerNext DEF IInv

\* Another caller than a waiter goes somewhere, and the lists stay.
LEMMA QuietMove ==
    ASSUME IInv, NEW c \in Callers, c \notin OnSomeQueue, NEW op, Runs(c, op), NEW x \in Positions,
           at' = [at EXCEPT ![c] = x], UNCHANGED <<schedVars, waiters>>,
           unchanged' \in [Threads -> BOOLEAN],
           c = Irq => x.op \in Waking \cup {"out"}, x.op # "unblock"
    PROVE  IInv'
<1>1. IF c = Irq THEN irq = "device" ELSE state[c] = "Running" /\ pc[c] = "run"
    BY RunnerFacts, Zenon DEF Runs, Callers
<1>2. Listed' /\ S!IInv'
    BY ListedKept, StillKeeps, Zenon
<1>3. Moves(c, x)
    BY <1>1, <1>2, Zenon DEF Moves, IInv, Typed
<1> QED BY <1>2, <1>3, MovesKeeps

\* Whoever is in wake_all, or outside this file, is on no list.
LEMMA OffTheLists ==
    ASSUME IInv, NEW c \in Callers, at[c].op \in {"out", "looked", "take", "unblock"}
    PROVE  c \notin OnSomeQueue
BY LinkedThere

\* generation, before the condition is tested.
LEMMA GenerationKeeps ==
    ASSUME IInv, NEW t \in Threads, NEW q \in Queues, Generation(t, q)
    PROVE  UNCHANGED S!vars /\ IInv'
<1> DEFINE x == At("looked", q, NoThread)
<1>1. x \in Positions /\ x.op = "looked"
    BY AtFacts
<1>2. Runs(t, "out") /\ at[t].op = "out" /\ t # Irq /\ t \in Callers
    BY RunnerFacts, Zenon DEF Generation, Callers
<1>3. /\ UNCHANGED <<schedVars, waiters>> /\ unchanged' \in [Threads -> BOOLEAN]
      /\ at' = [at EXCEPT ![t] = x]
    BY DEF Generation, IInv, Typed
<1> HIDE DEF x
<1> QED BY <1>1, <1>2, <1>3, OffTheLists, QuietMove, StillKeeps, Zenon

\* wait_since links the caller, or returns at once.
LEMMA WaitSinceKeeps ==
    ASSUME IInv, NEW t \in Threads, WaitSince(t)
    PROVE  (S!LinkWaiter(t) \/ UNCHANGED S!vars) /\ IInv'
<1>1. Runs(t, "looked") /\ at[t].op = "looked" /\ t # Irq /\ t \in Callers /\ UNCHANGED unchanged
    BY RunnerFacts, Zenon DEF WaitSince, Callers
<1>2. CASE Link(t, at[t].q)
  <2>1. at[t].q \in Queues
    BY <1>1 DEF IInv, Typed, Positions
  <2> QED BY <1>1, <1>2, <2>1, LinkKeeps, Zenon
<1>3. CASE at' = [at EXCEPT ![t] = Out] /\ UNCHANGED <<schedVars, waiters>>
    BY <1>1, <1>3, OutFacts, OffTheLists, QuietMove, StillKeeps, Zenon DEF IInv, Typed
<1> QED BY <1>2, <1>3 DEF WaitSince

\* wake_all begins.
LEMMA WakeAllKeeps ==
    ASSUME IInv, NEW t \in Threads, NEW q \in Queues, WakeAll(t, q)
    PROVE  UNCHANGED S!vars /\ IInv'
<1> DEFINE x == At("take", q, NoThread)
<1>1. x \in Positions /\ x.op = "take"
    BY AtFacts
<1>2. Runs(t, "out") /\ at[t].op = "out" /\ t # Irq /\ t \in Callers
    BY RunnerFacts, Zenon DEF WakeAll, Callers
<1>3. /\ UNCHANGED <<schedVars, waiters>> /\ unchanged' \in [Threads -> BOOLEAN]
      /\ at' = [at EXCEPT ![t] = x]
    BY DEF WakeAll, Bump, IInv, Typed
<1> HIDE DEF x
<1> QED BY <1>1, <1>2, <1>3, OffTheLists, QuietMove, StillKeeps, Zenon

\* wake_all finds the list empty.
LEMMA TakeNoneKeeps ==
    ASSUME IInv, NEW c \in Callers, TakeNone(c)
    PROVE  UNCHANGED S!vars /\ IInv'
<1> DEFINE x == IF at[c].q # Poll THEN At("take", Poll, NoThread) ELSE Out
<1>1. x \in Positions /\ x.op \in {"take", "out"}
    BY AtFacts, OutFacts, PollAssumption
<1>2. Runs(c, "take") /\ at[c].op = "take"
    BY Zenon DEF TakeNone, Runs
<1>3. UNCHANGED <<schedVars, waiters>> /\ at' = [at EXCEPT ![c] = x]
    BY Zenon DEF TakeNone
<1>4. unchanged' \in [Threads -> BOOLEAN]
    BY Zenon DEF TakeNone, Bump, IInv, Typed
<1> HIDE DEF x
<1> QED BY <1>1, <1>2, <1>3, <1>4, OffTheLists, QuietMove, StillKeeps, Zenon DEF Waking

\* One list loses a thread that was on it, and another caller moves.
LEMMA UnlistedKept ==
    ASSUME IInv, NEW q \in Queues, NEW t \in Range(waiters[q]), NEW list \in Seq(Threads),
           S!Injective(list), Range(list) = Range(waiters[q]) \ {t},
           waiters' = [waiters EXCEPT ![q] = list],
           NEW c \in Callers, NEW x, at' = [at EXCEPT ![c] = x], c \in OnSomeQueue => c = t
    PROVE  Listed' /\ waiters' \in [Queues -> Seq(Threads)] /\ OnSomeQueue' = OnSomeQueue \ {t}
<1>1. OnSomeQueue' = OnSomeQueue \ {t}
    BY OneLess, Zenon
<1>2. waiters' \in [Queues -> Seq(Threads)]
    BY DEF IInv, Typed
<1>3. Listed'
  <2> SUFFICES ASSUME NEW r \in Queues
               PROVE  /\ S!Injective(waiters'[r])
                      /\ \A u \in Range(waiters'[r]) : at'[u].op \in {"linked", "asleep"} /\ at'[u].q = r
    BY Zenon DEF Listed, Range, S!Injective
  <2>1. S!Injective(waiters'[r]) /\ Range(waiters'[r]) \subseteq Range(waiters[r]) \ {t}
    <3>1. CASE r = q
      BY <3>1 DEF IInv, Typed
    <3>2. CASE r # q
      <4>1. waiters'[r] = waiters[r]
        BY <3>2 DEF IInv, Typed
      <4>2. at[t].q = q /\ \A u \in Range(waiters[r]) : at[u].q = r
        BY Zenon DEF IInv, Listed
      <4> QED BY <3>2, <4>1, <4>2, ZenonT(60) DEF IInv, Listed
    <3> QED BY <3>1, <3>2
  <2>2. \A u \in Range(waiters[r]) \ {t} : u \in Callers /\ u # c
    BY LinkedThere, Zenon DEF OnSomeQueue, Callers
  <2>3. \A u \in Callers \ {c} : at'[u] = at[u]
    BY DEF IInv, Typed
  <2> QED BY <2>1, <2>2, <2>3, SMTT(60) DEF IInv, Listed
<1> QED BY <1>1, <1>2, <1>3, Zenon

\* take_first: the waiter is off the list, and exists.
LEMMA TakeFirstKeeps ==
    ASSUME IInv, NEW c \in Callers, TakeFirst(c)
    PROVE  (\E t \in Threads : S!UnlinkWaiter(t)) /\ IInv'
<1> DEFINE q == at[c].q
           t == Head(waiters[q])
           x == At("unblock", q, t)
<1>1. Runs(c, "take") /\ at[c].op = "take" /\ waiters[q] # <<>>
    BY Zenon DEF TakeFirst, Runs
<1>2. /\ waiters' = [waiters EXCEPT ![q] = Tail(waiters[q])] /\ at' = [at EXCEPT ![c] = x]
      /\ UNCHANGED <<schedVars, unchanged>>
    BY Zenon DEF TakeFirst
<1>3. q \in Queues /\ waiters[q] \in Seq(Threads) /\ S!Injective(waiters[q])
    BY Zenon DEF IInv, Typed, Positions, Listed
<1>4. /\ t \in Range(waiters[q]) /\ t \in Threads
      /\ Tail(waiters[q]) \in Seq(Threads) /\ S!Injective(Tail(waiters[q]))
      /\ Range(Tail(waiters[q])) = Range(waiters[q]) \ {t}
    BY <1>1, <1>3, ListFacts, Zenon
<1>5. t \in OnSomeQueue /\ t # reaping /\ state[t] # "Absent"
    BY <1>3, <1>4, LinkedAlive, Zenon DEF OnSomeQueue
<1>6. c \notin OnSomeQueue
    BY <1>1, OffTheLists, Zenon
<1> HIDE DEF q, t
<1>7. /\ x \in Positions /\ x.op = "unblock" /\ x.victim = t
    BY <1>3, <1>4, AtFacts, SMTT(60)
<1> HIDE DEF x
<1>8. Listed' /\ waiters' \in [Queues -> Seq(Threads)] /\ OnSomeQueue' = OnSomeQueue \ {t}
    BY <1>2, <1>3, <1>4, <1>6, UnlistedKept, Zenon
<1>9. IF c = Irq THEN irq = "device" ELSE state[c] = "Running" /\ pc[c] = "run"
    BY <1>1, RunnerFacts, Zenon DEF Runs, Callers
<1>10. S!CallerRuns
    BY <1>1, RunnerFacts, Zenon DEF Runs, Callers, S!CallerRuns
<1>11. S!UnlinkWaiter(t)
    BY <1>2, <1>5, <1>8, <1>10 DEF S!UnlinkWaiter, schedVars
<1>12. S!IInv'
    BY <1>4, <1>11, SchedulerNext DEF S!Next, IInv
<1>13. Moves(c, x)
    BY <1>2, <1>4, <1>5, <1>7, <1>8, <1>9, Zenon DEF Moves, Waking, IInv, Typed
<1> QED BY <1>4, <1>11, <1>12, <1>13, MovesKeeps, Zenon

\* detach_self takes the caller off the list, if it is still there.
LEMMA DetachSelfKeeps ==
    ASSUME IInv, NEW t \in Threads, DetachSelf(t)
    PROVE  (S!UnlinkWaiter(t) \/ UNCHANGED S!vars) /\ IInv'
<1> DEFINE q == at[t].q
<1>1. /\ Runs(t, "asleep") /\ at' = [at EXCEPT ![t] = Out] /\ UNCHANGED <<schedVars, unchanged>>
      /\ waiters' = [waiters EXCEPT ![q] = IF S!WaitNodeLinked(t) THEN S!RemoveNode(waiters[q], t)
                                           ELSE waiters[q]]
    BY Zenon DEF DetachSelf
<1>2. q \in Queues /\ waiters[q] \in Seq(Threads) /\ S!Injective(waiters[q]) /\ t \in Callers
    BY Zenon DEF IInv, Typed, Positions, Listed, Callers
<1>3. S!WaitNodeLinked(t) <=> t \in OnSomeQueue
    BY <1>1, RunnerFacts, Zenon DEF S!WaitNodeLinked
<1> HIDE DEF q
<1>4. CASE t \in OnSomeQueue
  <2>1. t \in Range(waiters[q])
    BY <1>4, LinkedThere, Zenon DEF q
  <2> DEFINE list == S!RemoveNode(waiters[q], t)
  <2>2. list \in Seq(Threads) /\ S!Injective(list) /\ Range(list) = Range(waiters[q]) \ {t}
    BY <1>2, <2>1, ListFacts, Zenon
  <2>3. waiters' = [waiters EXCEPT ![q] = list]
    BY <1>1, <1>3, <1>4, Zenon
  <2> HIDE DEF list
  <2>4. Listed' /\ waiters' \in [Queues -> Seq(Threads)] /\ OnSomeQueue' = OnSomeQueue \ {t}
    BY <1>1, <1>2, <2>1, <2>2, <2>3, UnlistedKept, Zenon
  <2>5. S!UnlinkWaiter(t)
    BY <1>1, <1>4, <2>4, RunnerFacts, Zenon DEF S!UnlinkWaiter, schedVars
  <2>6. S!IInv'
    BY <2>5, SchedulerNext DEF S!Next, IInv
  <2>7. Moves(t, Out)
    BY <1>1, <2>4, OutFacts, Zenon DEF Moves, Waking, IInv, Typed
  <2> QED BY <1>2, <2>5, <2>6, <2>7, MovesKeeps
<1>5. CASE t \notin OnSomeQueue
  <2>1. UNCHANGED waiters
    BY <1>1, <1>2, <1>3, <1>5, Zenon DEF IInv, Typed
  <2>2. Listed' /\ UNCHANGED S!vars /\ S!IInv'
    BY <1>1, <1>2, <1>5, <2>1, ListedKept, StillKeeps, Zenon
  <2>3. Moves(t, Out)
    BY <1>1, <2>1, <2>2, OutFacts, Zenon DEF Moves, Waking, IInv, Typed
  <2> QED BY <1>2, <2>2, <2>3, MovesKeeps
<1> QED BY <1>4, <1>5

-----------------------------------------------------------------------------
(***************************************************************************)
(* Steps that call the scheduler.                                          *)
(***************************************************************************)

\* Where the callers are and what the lists hold stays as it is.
LEMMA ScheduledKeeps ==
    ASSUME IInv, S!IInv', UNCHANGED queueVars,
           at[Irq].op \in Waking => irq' = "device",
           \A t \in Threads : at[t].op \in Waking =>
               pc'[t] = "run" /\ state'[t] \in {"Running", "Ready"} /\ current' # Idle,
           \A c \in Callers : at[c].op = "unblock" =>
               at[c].victim # reaping' /\ state'[at[c].victim] # "Absent"
    PROVE  IInv'
<1>1. Typed' /\ Listed'
    BY Zenon DEF queueVars, IInv, Typed, Listed
<1>2. Handler' /\ Wakers' /\ Victims'
    BY Zenon DEF queueVars, IInv, Handler, Wakers, Victims
<1> QED BY <1>1, <1>2, Zenon DEF IInv

\* Nothing is freed, nothing taken by the idle loop, nobody loses the CPU.
LEMMA SameCpuKeeps ==
    ASSUME IInv, S!IInv', UNCHANGED <<waiters, unchanged, at, current, reaping>>,
           at[Irq].op \in Waking => irq' = "device",
           \A t \in Threads : state'[t] # state[t] =>
               \/ state'[t] = "Ready" /\ state[t] \notin {"Running", "Ready"}
               \/ t = current /\ state'[t] # "Absent" /\ at[t].op \notin Waking,
           \A t \in Threads : pc'[t] = pc[t] \/ pc'[t] = "run" \/ (t = current /\ at[t].op \notin Waking)
    PROVE  IInv'
<1>1. \A t \in Threads : at[t].op \in Waking =>
          pc'[t] = "run" /\ state'[t] \in {"Running", "Ready"} /\ current' # Idle
    BY Zenon DEF IInv, Wakers
<1>2. \A c \in Callers : at[c].op = "unblock" =>
          at[c].victim # reaping' /\ state'[at[c].victim] # "Absent"
    BY Zenon DEF IInv, Victims
<1> QED BY <1>1, <1>2, ScheduledKeeps, Zenon DEF queueVars

\* While the idle loop runs, nobody is inside wake_all.
LEMMA NoWakerIdle ==
    ASSUME IInv, S!RunningCode(Idle)
    PROVE  \A c \in Callers : at[c].op \notin Waking
BY Zenon DEF IInv, Handler, Wakers, Callers, S!RunningCode

\* A thread inside wake_all stays on the run queue when it loses the CPU.
LEMMA SwitchKeepsWakers ==
    ASSUME IInv, S!SwitchToNext, NEW w \in Threads, at[w].op \in Waking
    PROVE  state'[w] \in {"Running", "Ready"} /\ current' # Idle
<1>1. pc[w] = "run" /\ state[w] \in {"Running", "Ready"}
    BY Zenon DEF IInv, Wakers
<1>2. state[w] = "Ready" => w \in S!Range(runQueue)
    BY <1>1, Zenon DEF IInv, S!IInv, S!ThreadInv, S!Exiting
<1>3. state[w] = "Running" => w = current /\ w # Idle
    BY ThreadsAssumption, Zenon DEF IInv, S!IInv, S!CpuInv, S!AllThreads
<1>4. current' = Idle => S!Range(runQueue) \cup (IF state[current] = "Running" /\ current # Idle
                                              THEN {current} ELSE {}) = {}
    BY S!SwitchFacts, ThreadsAssumption, TicksAssumption, Zenon DEF IInv
<1>5. current' # Idle
    BY <1>1, <1>2, <1>3, <1>4, Zenon
<1>6. state'[w] \in {"Running", "Ready"}
    BY <1>1, Zenon DEF S!SwitchToNext, IInv, S!IInv, S!TypeOK, S!AllThreads
<1> QED BY <1>5, <1>6, Zenon

\* A switch of threads.
LEMMA SwitchKeeps ==
    ASSUME IInv, S!IInv', UNCHANGED queueVars, UNCHANGED reaping, S!SwitchToNext,
           at[Irq].op \notin Waking,
           \A t \in Threads : at[t].op \in Waking => pc'[t] = "run"
    PROVE  IInv'
<1>1. \A c \in Callers : at[c].op = "unblock" =>
          at[c].victim # reaping' /\ state'[at[c].victim] # "Absent"
    BY ZenonT(60) DEF IInv, Victims, S!SwitchToNext, S!IInv, S!TypeOK, S!AllThreads
<1> QED BY <1>1, SwitchKeepsWakers, ScheduledKeeps, Zenon

\* The second half of wait: block_current, on or already off the list.
LEMMA BlockKeeps ==
    ASSUME IInv, NEW t \in Threads, Block(t)
    PROVE  S!BlockCurrent(t, "Blocked") /\ IInv'
<1>1. Runs(t, "linked") /\ S!BlockCurrent(t, "Blocked") /\ UNCHANGED <<waiters, unchanged>>
    BY DEF Block
<1>2. S!IInv'
    BY <1>1, SchedulerNext, Zenon DEF S!Next, S!ThreadStep, IInv
<1> DEFINE x == [at[t] EXCEPT !.op = "asleep"]
<1>3. at[t] \in Positions /\ at[t].op = "linked" /\ t \in Callers
    BY <1>1, RunnerFacts, Zenon DEF IInv, Typed, Callers
<1>4. x \in Positions /\ x.op = "asleep" /\ x.q = at[t].q
    BY <1>3, SMTT(60) DEF Positions
<1>5. at' = [at EXCEPT ![t] = x]
    BY <1>3 DEF Block
<1> HIDE DEF x
<1>6. at'[t] = x /\ \A c \in Callers \ {t} : at'[c] = at[c]
    BY <1>3, <1>5, Zenon DEF IInv, Typed
<1>7. Typed'
    BY <1>1, <1>4, <1>5, Zenon DEF IInv, Typed
<1>8. Listed'
  <2> SUFFICES ASSUME NEW q \in Queues, NEW u \in Range(waiters[q])
               PROVE  at'[u].op \in {"linked", "asleep"} /\ at'[u].q = q
    BY <1>1, Zenon DEF IInv, Listed
  <2>1. u \in Callers
    BY LinkedThere, Zenon DEF OnSomeQueue, Callers
  <2> QED BY <1>4, <1>6, <2>1, ZenonT(60) DEF IInv, Listed
<1>9. UNCHANGED <<current, reaping, irq>> /\ state' = [state EXCEPT ![t] = "Blocked"] /\ pc' = [pc EXCEPT ![t] = "yield"]
    BY <1>1, Zenon DEF S!BlockCurrent
<1>10. Handler'
    BY <1>3, <1>6, <1>9, IrqAssumption, Zenon DEF IInv, Handler, Callers
<1>11. Wakers'
    BY <1>3, <1>4, <1>6, <1>9, ZenonT(60) DEF IInv, Wakers, Callers, S!IInv, S!TypeOK, S!AllThreads, Waking
<1>12. Victims'
    BY <1>3, <1>4, <1>6, <1>9, ZenonT(60) DEF IInv, Victims, S!IInv, S!TypeOK, S!AllThreads
<1> QED BY <1>1, <1>2, <1>7, <1>8, <1>10, <1>11, <1>12, Zenon DEF IInv

\* Scheduler::unblock, as wake_all and raise_signal call it.
LEMMA UnblockFacts ==
    ASSUME IInv, NEW t \in Threads, S!Unblock(t)
    PROVE  /\ S!IInv' /\ UNCHANGED <<current, reaping, irq, pc>>
           /\ state[t] \notin {"Running", "Ready"} /\ state' = [state EXCEPT ![t] = "Ready"]
<1>1. S!IInv'
    BY SchedulerNext, Zenon DEF S!Next, IInv
<1> QED BY <1>1, Zenon DEF S!Unblock

\* wake_all unblocks the thread it took, unless that runs already.
LEMMA UnblockVictimKeeps ==
    ASSUME IInv, NEW c \in Callers, UnblockVictim(c)
    PROVE  ((\E t \in Threads : S!Unblock(t)) \/ UNCHANGED S!vars) /\ IInv'
<1> DEFINE t == at[c].victim
           x == At("take", at[c].q, NoThread)
<1>1. Runs(c, "unblock") /\ at[c].op = "unblock" /\ UNCHANGED <<waiters, unchanged>>
      /\ at' = [at EXCEPT ![c] = x]
    BY Zenon DEF UnblockVictim, Runs
<1>2. t \in Threads
    BY <1>1, Zenon DEF IInv, Victims
<1>3. x \in Positions /\ x.op = "take"
    BY AtFacts, SMTT(60) DEF IInv, Typed, Positions
<1>4. c \notin OnSomeQueue
    BY <1>1, OffTheLists, Zenon
<1>5. c = Irq => x.op \in Waking \cup {"out"}
    BY <1>3, Zenon DEF Waking
<1> HIDE DEF x, t
<1>6. CASE UNCHANGED schedVars
    BY <1>1, <1>3, <1>4, <1>5, <1>6, QuietMove, StillKeeps, Zenon DEF IInv, Typed
<1>7. CASE S!Unblock(t)
  <2>1. /\ S!IInv' /\ UNCHANGED <<current, reaping, irq, pc>>
        /\ state[t] \notin {"Running", "Ready"} /\ state' = [state EXCEPT ![t] = "Ready"]
    BY <1>2, <1>7, UnblockFacts, Zenon
  <2>2. at'[c] = x /\ \A d \in Callers \ {c} : at'[d] = at[d]
    BY <1>1, Zenon DEF IInv, Typed
  <2>3. Typed' /\ Listed'
    BY <1>1, <1>3, <1>4, ListedKept, Zenon DEF IInv, Typed
  <2>4. Handler'
    BY <1>1, <1>3, <2>1, <2>2, Zenon DEF IInv, Handler, Callers, Waking
  <2>5. Wakers'
    BY <1>1, <1>2, <2>1, <2>2, Zenon DEF IInv, Wakers, Callers, Waking, S!IInv, S!TypeOK, S!AllThreads
  <2>6. Victims'
    BY <1>2, <1>3, <2>1, <2>2, ZenonT(60) DEF IInv, Victims, S!IInv, S!TypeOK, S!AllThreads
  <2> QED BY <1>2, <1>7, <2>1, <2>3, <2>4, <2>5, <2>6, Zenon DEF IInv
<1> QED BY <1>6, <1>7, Zenon DEF UnblockVictim, t

\* raise_signal wakes a thread.
LEMMA SignalKeeps ==
    ASSUME IInv, NEW t \in Threads, NEW target \in Threads, Signal(t, target)
    PROVE  S!Unblock(target) /\ IInv'
<1>1. Runs(t, "out") /\ UNCHANGED queueVars /\ S!Unblock(target)
    BY Zenon DEF Signal
<1>2. /\ S!IInv' /\ UNCHANGED <<current, reaping, irq, pc>>
      /\ state[target] \notin {"Running", "Ready"} /\ state' = [state EXCEPT ![target] = "Ready"]
    BY <1>1, UnblockFacts, Zenon
<1>3. at[Irq].op \in Waking => irq' = "device"
    BY <1>2, Zenon DEF IInv, Handler
<1> QED BY <1>1, <1>2, <1>3, SameCpuKeeps, Zenon DEF queueVars, IInv, S!IInv, S!TypeOK, S!AllThreads

\* A device's handler begins, and returns.
LEMMA DeviceWakeAllKeeps ==
    ASSUME IInv, NEW q \in Queues, DeviceWakeAll(q)
    PROVE  S!DeviceBegin /\ IInv'
<1> DEFINE x == At("take", q, NoThread)
<1>1. /\ S!DeviceBegin /\ irq' = "device" /\ irq = "none" /\ UNCHANGED <<state, current, pc, reaping>>
      /\ UNCHANGED waiters /\ at' = [at EXCEPT ![Irq] = x]
    BY Zenon DEF DeviceWakeAll, S!DeviceBegin
<1>2. S!IInv'
    BY <1>1, SchedulerNext, Zenon DEF S!Next, IInv
<1>3. x \in Positions /\ x.op = "take"
    BY AtFacts, SMTT(60)
<1>4. at[Irq].op = "out" /\ Irq \in Callers /\ Irq \notin Threads
    BY <1>1, IrqAssumption, Zenon DEF IInv, Handler, Callers
<1> HIDE DEF x
<1>5. at'[Irq] = x /\ \A c \in Callers \ {Irq} : at'[c] = at[c]
    BY <1>1, <1>4, Zenon DEF IInv, Typed
<1>6. unchanged' \in [Threads -> BOOLEAN]
    BY Zenon DEF DeviceWakeAll, Bump, IInv, Typed
<1>7. Typed' /\ Listed'
    BY <1>1, <1>3, <1>4, <1>6, OffTheLists, ListedKept, Zenon DEF IInv, Typed
<1>8. Handler' /\ Wakers' /\ Victims'
    BY <1>1, <1>3, <1>4, <1>5, SMTT(60) DEF IInv, Handler, Wakers, Victims, Callers, Waking
<1> QED BY <1>1, <1>2, <1>7, <1>8, Zenon DEF IInv

LEMMA DeviceReturnKeeps ==
    ASSUME IInv, DeviceReturn
    PROVE  S!DeviceEnd /\ IInv'
<1>1. S!DeviceEnd /\ at[Irq].op = "out" /\ UNCHANGED queueVars /\ UNCHANGED <<state, current, pc, reaping>>
    BY Zenon DEF DeviceReturn, S!DeviceEnd
<1>2. S!IInv'
    BY <1>1, SchedulerNext, Zenon DEF S!Next, IInv
<1> QED BY <1>1, <1>2, SameCpuKeeps, Zenon DEF queueVars, Waking

\* The timer interrupt counts the tick, wakes the sleepers that are due and
\* switches threads.
LEMMA TimerKeeps ==
    ASSUME IInv, S!Timer, UNCHANGED queueVars
    PROVE  IInv'
<1>1. S!IInv'
    BY SchedulerNext, Zenon DEF S!Next, IInv
<1>2. CASE S!TickBegin
  <2>1. /\ UNCHANGED <<state, current, pc, reaping>> /\ irq = "none"
    BY <1>2, Zenon DEF S!TickBegin
  <2>2. at[Irq].op \notin Waking
    BY <2>1, Zenon DEF IInv, Handler
  <2> QED BY <1>1, <2>1, <2>2, SameCpuKeeps, Zenon DEF queueVars
<1>3. CASE S!TickWake
  <2>1. PICK i \in DOMAIN sleepers : state' = [state EXCEPT ![sleepers[i]] = "Ready"]
    BY <1>3, Zenon DEF S!TickWake
  <2>2. UNCHANGED <<current, pc, reaping, irq>>
    BY <1>3, Zenon DEF S!TickWake
  <2>3. sleepers[i] \in Threads /\ sleepers[i] \in S!Range(sleepers)
    BY SMTT(60) DEF IInv, S!IInv, S!TypeOK, S!Range
  <2>4. state[sleepers[i]] = "Sleeping"
    BY <2>3, Zenon DEF IInv, S!IInv, S!ThreadInv
  <2>5. at[Irq].op \in Waking => irq' = "device"
    BY <2>2, Zenon DEF IInv, Handler
  <2>6. \A t \in Threads : state'[t] # state[t] =>
            state'[t] = "Ready" /\ state[t] \notin {"Running", "Ready"}
    BY <2>1, <2>3, <2>4, Zenon DEF IInv, S!IInv, S!TypeOK, S!AllThreads
  <2> QED BY <1>1, <2>2, <2>5, <2>6, SameCpuKeeps, Zenon DEF queueVars
<1>4. CASE S!TickEnd
  <2>1. UNCHANGED <<pc, reaping>> /\ irq = "tick"
    BY <1>4, Zenon DEF S!TickEnd
  <2>2. at[Irq].op \notin Waking
    BY <2>1, Zenon DEF IInv, Handler
  <2>3. CASE UNCHANGED <<state, current, runQueue>>
    BY <1>1, <2>1, <2>2, <2>3, SameCpuKeeps, Zenon DEF queueVars
  <2>4. CASE S!SwitchToNext
    <3>1. \A t \in Threads : at[t].op \in Waking => pc'[t] = "run"
      BY <2>1, Zenon DEF IInv, Wakers
    <3> QED BY <1>1, <2>1, <2>2, <2>4, <3>1, SwitchKeeps, Zenon
  <2> QED BY <1>4, <2>3, <2>4, Zenon DEF S!TickEnd
<1> QED BY <1>2, <1>3, <1>4, Zenon DEF S!Timer

\* The idle loop runs only while nobody is inside wake_all.
LEMMA ReapKeeps ==
    ASSUME IInv, S!ReapTake \/ S!ReapFree, UNCHANGED queueVars
    PROVE  IInv'
<1>1. S!IInv'
    BY SchedulerNext, Zenon DEF S!Next, IInv
<1>2. S!RunningCode(Idle)
    BY Zenon DEF S!ReapTake, S!ReapFree
<1>3. \A c \in Callers : at[c].op \notin Waking
    BY <1>2, NoWakerIdle, Zenon
<1> QED BY <1>1, <1>3, ScheduledKeeps, Zenon DEF Waking, Callers

\* The yield of a thread that blocks, sleeps or exits.
LEMMA YieldKeeps ==
    ASSUME IInv, NEW t \in Threads, pc[t] # "run", S!Yield(t), UNCHANGED queueVars
    PROVE  IInv'
<1>1. S!IInv'
    BY SchedulerNext, Zenon DEF S!Next, S!ThreadStep, IInv
<1>2. /\ S!SwitchToNext /\ irq = "none" /\ UNCHANGED reaping
      /\ \A u \in Threads : pc[u] = "run" => pc'[u] = "run"
    BY Zenon DEF S!Yield, S!RunningCode, IInv, S!IInv, S!TypeOK, S!AllThreads
<1>3. at[Irq].op \notin Waking
    BY <1>2, Zenon DEF IInv, Handler
<1>4. \A u \in Threads : at[u].op \in Waking => pc'[u] = "run"
    BY <1>2, Zenon DEF IInv, Wakers
<1> QED BY <1>1, <1>2, <1>3, <1>4, SwitchKeeps, Zenon

\* exit_current, sleep_ms and enqueue.
LEMMA OtherCallKeeps ==
    ASSUME IInv, NEW t \in Threads, OtherCall(t)
    PROVE  S!Next /\ IInv'
<1>1. Runs(t, "out") /\ UNCHANGED queueVars /\ S!Next
    BY Zenon DEF OtherCall, S!Next, S!ThreadStep
<1>2. S!IInv'
    BY <1>1, SchedulerNext, Zenon DEF IInv
<1>3. t = current /\ at[t].op \notin Waking /\ irq = "none"
    BY <1>1, RunnerFacts, SMTT(60) DEF Waking
<1>4. at[Irq].op \notin Waking
    BY <1>3, Zenon DEF IInv, Handler
<1>5. /\ UNCHANGED <<current, reaping>>
      /\ \A u \in Threads : state'[u] # state[u] =>
               \/ state'[u] = "Ready" /\ state[u] \notin {"Running", "Ready"}
               \/ u = t /\ state'[u] # "Absent"
      /\ \A u \in Threads : pc'[u] = pc[u] \/ pc'[u] = "run" \/ u = t
    BY ZenonT(60) DEF OtherCall, S!ExitCurrent, S!Sleep, S!Enqueue, IInv, S!IInv, S!TypeOK, S!AllThreads
<1> QED BY <1>1, <1>2, <1>3, <1>4, <1>5, SameCpuKeeps, Zenon DEF queueVars

-----------------------------------------------------------------------------
\* Every step is one the scheduler's module allows, and keeps the invariant.
LEMMA NextKeeps ==
    ASSUME IInv, [Next]_vars
    PROVE  [S!Next]_S!vars /\ IInv'
<1>1. CASE UNCHANGED vars
  <2>1. UNCHANGED <<schedVars, waiters>> /\ UNCHANGED queueVars
    BY <1>1, Zenon DEF vars, queueVars
  <2>2. UNCHANGED S!vars /\ S!IInv'
    BY <2>1, StillKeeps, Zenon
  <2> QED BY <2>1, <2>2, SameCpuKeeps, Zenon DEF queueVars, schedVars, IInv, Handler
<1>2. CASE SchedulerStep
  <2>1. UNCHANGED queueVars /\ S!Next
    BY <1>2, Zenon DEF SchedulerStep, S!Next, S!ThreadStep
  <2> QED BY <1>2, <2>1, TimerKeeps, ReapKeeps, YieldKeeps, Zenon DEF SchedulerStep
<1>3. CASE DeviceReturn
    BY <1>3, DeviceReturnKeeps, Zenon DEF S!Next
<1>4. ASSUME NEW q \in Queues, DeviceWakeAll(q) PROVE [S!Next]_S!vars /\ IInv'
    BY <1>4, DeviceWakeAllKeeps, Zenon DEF S!Next
<1>5. ASSUME NEW c \in Callers, TakeFirst(c) \/ TakeNone(c) \/ UnblockVictim(c)
      PROVE  [S!Next]_S!vars /\ IInv'
    BY <1>5, TakeFirstKeeps, TakeNoneKeeps, UnblockVictimKeeps, Zenon DEF S!Next
<1>6. ASSUME NEW t \in Threads, NEW q \in Queues, Wait(t, q) \/ WakeAll(t, q) \/ Generation(t, q)
      PROVE  [S!Next]_S!vars /\ IInv'
  <2>1. CASE Wait(t, q)
    <3>1. Runs(t, "out") /\ Link(t, q) /\ UNCHANGED unchanged
      BY <2>1, Zenon DEF Wait
    <3> QED BY <3>1, LinkKeeps, Zenon DEF S!Next, S!ThreadStep
  <2> QED BY <1>6, <2>1, WakeAllKeeps, GenerationKeeps, Zenon
<1>7. ASSUME NEW t \in Threads, WaitSince(t) \/ Block(t) \/ DetachSelf(t)
      PROVE  [S!Next]_S!vars /\ IInv'
    BY <1>7, WaitSinceKeeps, BlockKeeps, DetachSelfKeeps, Zenon DEF S!Next, S!ThreadStep
<1>8. ASSUME NEW t \in Threads, OtherCall(t) \/ \E target \in Threads : Signal(t, target)
      PROVE  [S!Next]_S!vars /\ IInv'
    BY <1>8, OtherCallKeeps, SignalKeeps, Zenon DEF S!Next
<1> QED BY <1>1, <1>2, <1>3, <1>4, <1>5, <1>6, <1>7, <1>8, PollAssumption, Zenon DEF Next

\* The kernel starts with empty queues.
LEMMA InitOK == Init => IInv
<1> SUFFICES ASSUME Init PROVE IInv
    OBVIOUS
<1>1. S!IInv
    BY S!InitInv, ThreadsAssumption, TicksAssumption, Zenon DEF Init
<1>2. Out \in Positions /\ Out.op = "out"
    BY OutFacts
<1>3. Typed
    BY <1>2 DEF Init, Typed
<1>4. Listed
    BY SMTT(60) DEF Init, Listed, S!Injective, Range
<1>5. Handler /\ Wakers /\ Victims
    BY <1>2, Zenon DEF Init, Handler, Wakers, Victims, Waking, Callers
<1> QED BY <1>1, <1>3, <1>4, <1>5 DEF IInv

\* The invariant holds in every reachable state.
THEOREM InvariantHolds == Spec => []IInv
<1>1. IInv /\ [Next]_vars => IInv'
    BY NextKeeps, Zenon
<1> QED BY <1>1, InitOK, PTL DEF Spec

\* take_first and detach_self find their threads on the right list, and the
\* Thread* that wake_all holds between take_first and unblock is not freed.
THEOREM QueuesAreSafe == Spec => []QueuesSafe
<1>1. ASSUME IInv PROVE QueuesSafe
  <2>1. TypeOK
    BY <1>1, Zenon DEF IInv, Typed, TypeOK, S!IInv
  <2>2. WaiterIsInside
    BY <1>1, ZenonT(60) DEF IInv, Listed, S!Injective, WaiterIsInside, Range
  <2>3. VictimIsAlive
    BY <1>1, Zenon DEF IInv, Victims, VictimIsAlive
  <2> QED BY <2>1, <2>2, <2>3 DEF QueuesSafe
<1> QED BY <1>1, InvariantHolds, PTL

\* Wait queues, wake-ups and signals call the scheduler as it expects: each of
\* their steps is a step of Scheduler.tla or leaves its variables alone.
THEOREM SchedulerIsUsedWell == Spec => UsesScheduler
<1>1. Init => S!Init
    BY Zenon DEF Init
<1>2. IInv /\ [Next]_vars => [S!Next]_S!vars
    BY NextKeeps, Zenon
<1> QED BY <1>1, <1>2, InvariantHolds, PTL DEF Spec, UsesScheduler, S!Spec

\* So what SchedulerProofs shows of the scheduler holds under its real callers.
THEOREM SchedulerStaysSound == Spec => [](S!ListsSound /\ S!ExitSound)
<1>1. S!Spec => []S!ListsSound
    BY S!ListsCorrect, ThreadsAssumption, TicksAssumption, Zenon
<1>2. S!Spec => []S!ExitSound
    BY S!ExitCorrect, ThreadsAssumption, TicksAssumption, Zenon
<1> QED BY <1>1, <1>2, SchedulerIsUsedWell, PTL DEF UsesScheduler
=============================================================================
