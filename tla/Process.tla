------------------------------- MODULE Process -------------------------------
(***************************************************************************)
(* kernel/sched/process.cpp: the process table, fork, exit and waitpid,    *)
(* stop and continue, and the signals that drive them (delivered by        *)
(* sys/syscall.cpp on the way out of a system call), with every            *)
(* disposition at its default and no signal blocked.                       *)
(*                                                                         *)
(* A system call runs with interrupts enabled and may be preempted between *)
(* any two of its critical sections, so each process is wherever at[p]     *)
(* says inside the code and a step moves one process to its next critical  *)
(* section.  Pids are never reused: s_next_pid only grows.                 *)
(*                                                                         *)
(* A Process that was freed keeps its contents here, as the heap block     *)
(* does until it is handed out again.                                      *)
(***************************************************************************)
EXTENDS Naturals, TLC

CONSTANTS
    Procs,       \* the pids a run may hand out
    Pid1,        \* init
    NoProc,      \* a null Process*
    Killable,    \* signals some process sends with kill(pid, sig)
    Broadcast,   \* signals some process sends with kill(-1, sig)
    WaitPids,    \* the first arguments of waitpid,
    WaitOptions, \* and its third: sets of WNOHANG, WUNTRACED and WCONTINUED
    AnyChild     \* waitpid's pid -1

ASSUME Pid1Assumption == Pid1 \in Procs
ASSUME NoProcAssumption == NoProc \notin Procs
ASSUME AnyChildAssumption == AnyChild \notin Procs

VARIABLES
    life,        \* m_has_exited, and whether the Process is in s_processes
    parent,      \* m_parent_pid
    thread,      \* state of m_main_thread; "none" while that is null
    onQueue,     \* processes linked on their own m_child_exit_queue
    pending,     \* m_pending_signals
    isStopped, stopPending, continuePending,   \* m_is_stopped, ...
    at,          \* where a process is in the kernel: see Positions
    hung         \* the CPU spins on s_process_lock with interrupts masked

vars == <<life, parent, thread, onQueue, pending, isStopped, stopPending,
          continuePending, at, hung>>
jobVars == <<isStopped, stopPending, continuePending>>

Signals == {"KILL", "CHLD", "CONT", "STOP"}

ASSUME KillableAssumption == Killable \subseteq Signals
ASSUME BroadcastAssumption == Broadcast \subseteq Signals

\* include/shitos/abi/signal.h: the lowest number is delivered first
Number == [KILL |-> 9, CHLD |-> 17, CONT |-> 18, STOP |-> 19]

\* SIGTSTP, SIGTTIN and SIGTTOU behave like SIGSTOP at their default
STOP_SIGNAL_MASK == {"STOP"}

NoCall == [want |-> NoProc]

\* What sys_waitpid makes of its arguments.
WaitCalls ==
    {[want |-> pid, blocking |-> "WNOHANG" \notin options, untraced |-> "WUNTRACED" \in options,
      continued |-> "WCONTINUED" \in options] : pid \in WaitPids, options \in WaitOptions}

ASSUME WaitCallsAssumption == WaitPids \subseteq Procs \cup {AnyChild}

\* op:   the next critical section
\* of:   the process it is about     to: a Process* taken in an earlier one
\* next: what follows the notification of a parent
\* call: the waitpid in progress, or to be restarted
Positions ==
    [op : {"user", "fork", "reparent", "find", "chld", "wake", "exit", "block",
           "unblock", "raise", "set", "scan", "finished", "changed", "link",
           "linked", "asleep", "deliver"},
     of : Procs \cup {NoProc}, to : Procs \cup {NoProc},
     sig : Signals \cup {"none"}, next : {"none", "exit", "block", "unblock"},
     call : WaitCalls \cup {NoCall}]

User == [op |-> "user", of |-> NoProc, to |-> NoProc, sig |-> "none",
         next |-> "none", call |-> NoCall]

TypeOK ==
    /\ life \in [Procs -> {"unused", "live", "exited", "freed"}]
    /\ parent \in [Procs -> Procs \cup {NoProc}]
    /\ thread \in [Procs -> {"none", "Runnable", "Blocked", "Stopped", "Zombie"}]
    /\ onQueue \in SUBSET Procs
    /\ pending \in [Procs -> SUBSET Signals]
    /\ isStopped \in [Procs -> BOOLEAN]
    /\ stopPending \in [Procs -> BOOLEAN]
    /\ continuePending \in [Procs -> BOOLEAN]
    /\ at \in [Procs -> Positions]
    /\ hung \in BOOLEAN

\* s_processes
Table == {p \in Procs : life[p] \in {"live", "exited"}}

Init ==
    /\ life = [p \in Procs |-> IF p = Pid1 THEN "live" ELSE "unused"]
    /\ parent = [p \in Procs |-> NoProc]
    /\ thread = [p \in Procs |-> IF p = Pid1 THEN "Runnable" ELSE "none"]
    /\ onQueue = {}
    /\ pending = [p \in Procs |-> {}]
    /\ isStopped = [p \in Procs |-> FALSE]
    /\ stopPending = [p \in Procs |-> FALSE]
    /\ continuePending = [p \in Procs |-> FALSE]
    /\ at = [p \in Procs |-> User]
    /\ hung = FALSE

\* Process p can be scheduled and is about to do op
Runs(p, op) == ~hung /\ thread[p] = "Runnable" /\ at[p].op = op

\* Back to syscall_dispatch, which looks for a signal; EINTR leaves the call
\* to be restarted
Return(p) == at' = [at EXCEPT ![p] = [User EXCEPT !.op = "deliver"]]

\* Back to user code, or restart_interrupted_syscall
Restarted(p) ==
    IF at[p].call = NoCall THEN User
    ELSE [User EXCEPT !.op = "scan", !.call = at[p].call]

\* Any other system call: nothing happens but the delivery at its end
OtherCall(p) ==
    /\ Runs(p, "user") /\ pending[p] # {}
    /\ Return(p)
    /\ UNCHANGED <<life, parent, thread, onQueue, pending, jobVars, hung>>

-----------------------------------------------------------------------------
(* sys_fork                                                                 *)

\* Process::create: the child is in the table before it has a thread
Fork(p, c) ==
    /\ Runs(p, "user") /\ life[c] = "unused"
    /\ life' = [life EXCEPT ![c] = "live"]
    /\ parent' = [parent EXCEPT ![c] = p]
    /\ at' = [at EXCEPT ![p].op = "fork", ![p].of = c]
    /\ UNCHANGED <<thread, onQueue, pending, jobVars, hung>>

\* add_thread and enqueue; or clone_user_space or create_from_frame failed,
\* and the child stays in the table as it is
ForkReturn(p) ==
    /\ Runs(p, "fork")
    /\ \/ thread' = [thread EXCEPT ![at[p].of] = "Runnable"]
       \/ UNCHANGED thread
    /\ Return(p)
    /\ UNCHANGED <<life, parent, onQueue, pending, jobVars, hung>>

-----------------------------------------------------------------------------
(* The parent is told of an exit, a stop or a continue of process at[p].of. *)

Notify(p, of, next) ==
    at' = [at EXCEPT ![p].op = "find", ![p].of = of, ![p].next = next]

Unblocked(t) == [thread EXCEPT ![t] = IF @ \in {"Blocked", "Stopped"} THEN "Runnable" ELSE @]

FindParent(p) ==
    /\ Runs(p, "find")
    /\ LET boss == parent[at[p].of]
       IN  at' = IF boss \in Table
                 THEN [at EXCEPT ![p].op = "chld", ![p].to = boss]
                 ELSE [at EXCEPT ![p].op = at[p].next]
    /\ UNCHANGED <<life, parent, thread, onQueue, pending, jobVars, hung>>

RaiseSigchld(p) ==
    LET boss == at[p].to
    IN  /\ Runs(p, "chld")
        /\ pending' = [pending EXCEPT ![boss] = @ \cup {"CHLD"}]
        /\ thread' = IF thread[boss] = "Blocked" THEN Unblocked(boss) ELSE thread
        /\ at' = [at EXCEPT ![p].op = "wake"]
        /\ UNCHANGED <<life, parent, onQueue, jobVars, hung>>

\* m_child_exit_queue.wake_all: only the parent itself ever waits there
WakeParent(p) ==
    LET boss == at[p].to
    IN  /\ Runs(p, "wake")
        /\ onQueue' = onQueue \ {boss}
        /\ thread' = IF boss \in onQueue THEN Unblocked(boss) ELSE thread
        /\ at' = [at EXCEPT ![p].op = at[p].next]
        /\ UNCHANGED <<life, parent, pending, jobVars, hung>>

-----------------------------------------------------------------------------
(* do_exit: mark_exited, then exit_current.  init.c never exits.            *)

MarkExited(p) ==
    /\ p # Pid1
    /\ life' = [life EXCEPT ![p] = IF @ = "live" THEN "exited" ELSE @]
    /\ at' = [at EXCEPT ![p] = [User EXCEPT !.op = "reparent"]]

Exit(p) ==
    /\ Runs(p, "user")
    /\ MarkExited(p)
    /\ UNCHANGED <<parent, thread, onQueue, pending, jobVars, hung>>

\* Mutant: only the children that are still running are handed to init
ReparentLive(p) ==
    /\ Runs(p, "reparent")
    /\ parent' = [c \in Procs |-> IF life[c] = "live" /\ parent[c] = p THEN Pid1 ELSE parent[c]]
    /\ Notify(p, p, "exit")
    /\ UNCHANGED <<life, thread, onQueue, pending, jobVars, hung>>

\* Mutant: nothing is left to do after the parent is told
ReparentLost(p) ==
    /\ Runs(p, "reparent")
    /\ parent' = [c \in Procs |-> IF c \in Table /\ parent[c] = p THEN Pid1 ELSE parent[c]]
    /\ Notify(p, p, "none")
    /\ UNCHANGED <<life, thread, onQueue, pending, jobVars, hung>>

\* Mutant: mark_exited returns to the system call instead of exit_current
ReparentReturns(p) ==
    /\ Runs(p, "reparent")
    /\ parent' = [c \in Procs |-> IF c \in Table /\ parent[c] = p THEN Pid1 ELSE parent[c]]
    /\ Notify(p, p, "deliver")
    /\ UNCHANGED <<life, thread, onQueue, pending, jobVars, hung>>

Reparent(p) ==
    /\ Runs(p, "reparent")
    /\ parent' = [c \in Procs |-> IF c \in Table /\ parent[c] = p THEN Pid1 ELSE parent[c]]
    /\ Notify(p, p, "exit")
    /\ UNCHANGED <<life, thread, onQueue, pending, jobVars, hung>>

ExitThread(p) ==
    /\ Runs(p, "exit")
    /\ thread' = [thread EXCEPT ![p] = "Zombie"]
    /\ at' = [at EXCEPT ![p] = User]
    /\ UNCHANGED <<life, parent, onQueue, pending, jobVars, hung>>

-----------------------------------------------------------------------------
(* sys_waitpid: reap_child                                                  *)

Waitpid(p, call) ==
    /\ Runs(p, "user")
    /\ at' = [at EXCEPT ![p].op = "scan", ![p].call = call]
    /\ UNCHANGED <<life, parent, thread, onQueue, pending, jobVars, hung>>

\* Mutant: looks at every process of the table
MatchingAll(p, call) == {c \in Table : c # p /\ call.want \in {c, AnyChild}}

Matching(p, call) ==
    {c \in Table : parent[c] = p /\ c # p /\ call.want \in {c, AnyChild}}

Changed(c, call) ==
    \/ call.untraced /\ stopPending[c]
    \/ call.continued /\ continuePending[c]

\* Mutant: a caller without children waits
ScanNoEchild(p) ==
    LET call == at[p].call
        finished == {c \in Matching(p, call) : life[c] = "exited"}
    IN  /\ Runs(p, "scan")
        /\ \/ \E c \in finished : at' = [at EXCEPT ![p].op = "finished", ![p].to = c]
           \/ /\ finished = {}
              /\ IF ~call.blocking THEN Return(p) ELSE at' = [at EXCEPT ![p].op = "link"]
        /\ UNCHANGED <<life, parent, thread, onQueue, pending, jobVars, hung>>

\* The scan under s_process_lock.  It stops at the first child that exited;
\* a change it met before that is reported first.
Scan(p) ==
    LET call == at[p].call
        children == Matching(p, call)
        finished == {c \in children : life[c] = "exited"}
        changed == {c \in children : life[c] = "live" /\ Changed(c, call)}
    IN  /\ Runs(p, "scan")
        /\ \/ \E c \in changed : at' = [at EXCEPT ![p].op = "changed", ![p].to = c]
           \/ \E c \in finished : at' = [at EXCEPT ![p].op = "finished", ![p].to = c]
           \/ /\ changed = {} /\ finished = {}
              /\ IF children = {} \/ ~call.blocking
                 THEN Return(p)
                 ELSE at' = [at EXCEPT ![p].op = "link"]
        /\ UNCHANGED <<life, parent, thread, onQueue, pending, jobVars, hung>>

ReportChange(p) ==
    LET c == at[p].to
    IN  /\ Runs(p, "changed")
        /\ IF stopPending[c]
           THEN /\ stopPending' = [stopPending EXCEPT ![c] = FALSE]
                /\ UNCHANGED continuePending
           ELSE /\ continuePending' = [continuePending EXCEPT ![c] = FALSE]
                /\ UNCHANGED stopPending
        /\ Return(p)
        /\ UNCHANGED <<life, parent, thread, onQueue, pending, isStopped, hung>>

\* Off the table under the lock, then ~Process and kfree
Reap(p) ==
    /\ Runs(p, "finished")
    /\ life' = [life EXCEPT ![at[p].to] = "freed"]
    /\ Return(p)
    /\ UNCHANGED <<parent, thread, onQueue, pending, jobVars, hung>>

WaitLink(p) ==
    /\ Runs(p, "link")
    /\ onQueue' = onQueue \cup {p}
    /\ at' = [at EXCEPT ![p].op = "linked"]
    /\ UNCHANGED <<life, parent, thread, pending, jobVars, hung>>

WaitBlock(p) ==
    /\ Runs(p, "linked")
    /\ thread' = [thread EXCEPT ![p] = "Blocked"]
    /\ at' = [at EXCEPT ![p].op = "asleep"]
    /\ UNCHANGED <<life, parent, onQueue, pending, jobVars, hung>>

\* Woken: EINTR for a pending signal, otherwise look again
WaitWoken(p) ==
    /\ Runs(p, "asleep")
    /\ onQueue' = onQueue \ {p}
    /\ at' = [at EXCEPT ![p].op = IF pending[p] # {} THEN "deliver" ELSE "scan"]
    /\ UNCHANGED <<life, parent, thread, pending, jobVars, hung>>

-----------------------------------------------------------------------------
(* stop, resume and raise_signal                                            *)

\* stop, of the process itself
MarkStopped(p) ==
    /\ isStopped' = [isStopped EXCEPT ![p] = TRUE]
    /\ stopPending' = [stopPending EXCEPT ![p] = TRUE]
    /\ continuePending' = [continuePending EXCEPT ![p] = FALSE]
    /\ Notify(p, p, "block")

StopBlock(p) ==
    /\ Runs(p, "block")
    /\ thread' = [thread EXCEPT ![p] = "Stopped"]
    /\ at' = [at EXCEPT ![p] = Restarted(p)]
    /\ UNCHANGED <<life, parent, onQueue, pending, jobVars, hung>>

\* resume of process t, by process p
MarkResumed(p, t) ==
    /\ isStopped' = [isStopped EXCEPT ![t] = FALSE]
    /\ stopPending' = [stopPending EXCEPT ![t] = FALSE]
    /\ continuePending' = [continuePending EXCEPT ![t] = TRUE]
    /\ Notify(p, t, "unblock")

\* Mutant: unblocks a thread that waits, not one that is stopped
ResumeUnblockBlocked(p) ==
    LET t == at[p].of
    IN  /\ Runs(p, "unblock")
        /\ thread' = [thread EXCEPT ![t] = IF @ = "Blocked" THEN "Runnable" ELSE @]
        /\ Return(p)
        /\ UNCHANGED <<life, parent, onQueue, pending, jobVars, hung>>

\* The end of resume, in kill or in the delivery of SIGCONT
ResumeUnblock(p) ==
    LET t == at[p].of
    IN  /\ Runs(p, "unblock")
        /\ thread' = Unblocked(t)
        /\ IF at[p].sig = "none"
           THEN at' = [at EXCEPT ![p] = Restarted(p)]
           ELSE Return(p)
        /\ UNCHANGED <<life, parent, onQueue, pending, jobVars, hung>>

\* sys_kill of one pid: by_pid gives a Process* that is used unlocked
Kill(p, t, sig) ==
    /\ Runs(p, "user") /\ t \in Table
    /\ at' = [at EXCEPT ![p].op = "raise", ![p].of = t, ![p].sig = sig]
    /\ UNCHANGED <<life, parent, thread, onQueue, pending, jobVars, hung>>

Cancelled(signals, sig) ==
    CASE sig = "CONT" -> signals \ STOP_SIGNAL_MASK
      [] sig \in STOP_SIGNAL_MASK -> signals \ {"CONT"}
      [] OTHER -> signals

RaiseCancel(p) ==
    /\ Runs(p, "raise")
    /\ pending' = [pending EXCEPT ![at[p].of] = Cancelled(@, at[p].sig)]
    /\ at' = [at EXCEPT ![p].op = "set"]
    /\ UNCHANGED <<life, parent, thread, onQueue, jobVars, hung>>

RaiseSet(p) ==
    LET t == at[p].of
    IN  /\ Runs(p, "set")
        /\ pending' = [pending EXCEPT ![t] = @ \cup {at[p].sig}]
        /\ IF isStopped[t] /\ at[p].sig \in {"CONT", "KILL"}
           THEN MarkResumed(p, t) /\ UNCHANGED thread
           ELSE /\ thread' = IF thread[t] = "Blocked" THEN Unblocked(t) ELSE thread
                /\ Return(p)
                /\ UNCHANGED jobVars
        /\ UNCHANGED <<life, parent, onQueue, hung>>

\* sys_kill of -1: for_each holds s_process_lock, so nothing comes between;
\* resume calls by_pid, which takes the lock again and spins
KillAll(p, sig) ==
    LET targets == {t \in Table : t \notin {p, Pid1}}
    IN  /\ Runs(p, "user")
        /\ IF sig \in {"CONT", "KILL"} /\ \E t \in targets : isStopped[t]
           THEN hung' = TRUE /\ UNCHANGED <<pending, thread, at>>
           ELSE /\ pending' = [t \in Procs |-> IF t \in targets
                                  THEN Cancelled(pending[t], sig) \cup {sig} ELSE pending[t]]
                /\ thread' = [t \in Procs |-> IF t \in targets /\ thread[t] = "Blocked"
                                              THEN "Runnable" ELSE thread[t]]
                /\ Return(p)
                /\ UNCHANGED hung
        /\ UNCHANGED <<life, parent, onQueue, jobVars>>

-----------------------------------------------------------------------------
(* deliver_pending_signal: one signal on the way out of a system call       *)

Lowest(signals) == CHOOSE s \in signals : \A r \in signals : Number[s] <= Number[r]

DeliverNone(p) ==
    /\ Runs(p, "deliver") /\ pending[p] = {}
    /\ at' = [at EXCEPT ![p] = User]
    /\ UNCHANGED <<life, parent, thread, onQueue, pending, jobVars, hung>>

Deliver(p) ==
    LET sig == Lowest(pending[p])
    IN  /\ Runs(p, "deliver") /\ pending[p] # {}
        /\ pending' = [pending EXCEPT ![p] = @ \ {sig}]
        /\ \/ sig = "KILL" /\ MarkExited(p) /\ UNCHANGED jobVars
           \/ sig = "STOP" /\ MarkStopped(p) /\ UNCHANGED life
           \/ sig = "CONT" /\ isStopped[p] /\ MarkResumed(p, p) /\ UNCHANGED life
           \/ /\ sig = "CHLD" \/ (sig = "CONT" /\ ~isStopped[p])
              /\ at' = [at EXCEPT ![p] = Restarted(p)]
              /\ UNCHANGED <<life, jobVars>>
        /\ UNCHANGED <<parent, thread, onQueue, hung>>

-----------------------------------------------------------------------------
Step(p) ==
    \/ OtherCall(p)
    \/ \E c \in Procs : Fork(p, c)
    \/ ForkReturn(p)
    \/ FindParent(p) \/ RaiseSigchld(p) \/ WakeParent(p)
    \/ Exit(p) \/ Reparent(p) \/ ExitThread(p)
    \/ \E call \in WaitCalls : Waitpid(p, call)
    \/ Scan(p) \/ ReportChange(p) \/ Reap(p)
    \/ WaitLink(p) \/ WaitBlock(p) \/ WaitWoken(p)
    \/ StopBlock(p) \/ ResumeUnblock(p)
    \/ \E t \in Procs \ {Pid1}, sig \in Killable : Kill(p, t, sig)
    \/ RaiseCancel(p) \/ RaiseSet(p)
    \/ \E sig \in Broadcast : KillAll(p, sig)
    \/ DeliverNone(p) \/ Deliver(p)

Next == \E p \in Procs : Step(p)

Spec == Init /\ [][Next]_vars

\* The scheduler is round robin and preemptive, so a runnable thread moves on
\* (NoStarvation of Scheduler.tla); a program makes a system call again.
FairSpec == Spec /\ \A p \in Procs : WF_vars(Step(p))

-----------------------------------------------------------------------------
\* reap_child uses the child it found after it has released s_process_lock.
\* Nobody else frees that child, or takes it over, in between: the pointer is
\* still a child of the caller in the table.
FinishedIsMine ==
    \A p \in Procs : at[p].op \in {"finished", "changed"} =>
        at[p].to \in Table /\ parent[at[p].to] = p

\* "Orphans are reparented to pid 1" (docs/syscalls.md): a process in the
\* table has a parent that can still wait for it, except while that parent is
\* between m_has_exited and the loop that hands its children over.
OrphansAdopted ==
    \A c \in Table \ {Pid1} :
        \/ life[parent[c]] = "live"
        \/ at[parent[c]].op = "reparent"

\* mark_exited runs to exit_current: a process that is already reported as
\* exited is never suspended by a stop signal, or asleep in a wait, with its
\* thread and its kernel stack left behind.
ExitNeverSleeps ==
    \A p \in Procs : life[p] \in {"exited", "freed"} => thread[p] \notin {"Blocked", "Stopped"}

\* A SIGCONT that finds a process suspended and marked so gets it running,
\* whoever else stops, continues or kills it, or exits, at the same time.
ContinueWorks ==
    \A p \in Procs :
        /\ thread[p] = "Stopped" /\ isStopped[p]
        /\ \E r \in Procs : at[r].op = "set" /\ at[r].of = p /\ at[r].sig = "CONT"
        ~> thread[p] # "Stopped"

\* waitpid sleeps only for a child there is: the ECHILD test is still true
\* when the caller is asleep, although the lock was released before.
WaiterHasChild ==
    \A p \in Procs : at[p].op \in {"link", "linked", "asleep"} =>
        Matching(p, at[p].call) # {}

\* Together: everybody in the table has somebody to wait for them, and nobody
\* waits for nothing.
FamilySound == TypeOK /\ OrphansAdopted /\ WaiterHasChild

\* process.cpp: SIGKILL is "the one signal that must reach a process no matter
\* what state it is in".
KillReaches ==
    \A p \in Procs : "KILL" \in pending[p] /\ thread[p] # "none" ~> life[p] \in {"exited", "freed"}

\* Only init is special.
Symmetry == Permutations(Procs \ {Pid1})
=============================================================================
