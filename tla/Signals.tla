------------------------------- MODULE Signals -------------------------------
(***************************************************************************)
(* How one process takes its signals: raise_signal by anyone, delivery on  *)
(* the way out of a system call or a fault (kernel/sys/syscall.cpp and     *)
(* fault.cpp), handlers, sigreturn, and the restart of interrupted calls.  *)
(*                                                                         *)
(* A frame is the user context: `level' is how many handlers it is inside  *)
(* of, `pc' is "run", "call" (at the syscall instruction with its number   *)
(* in rax) or "after" (past it, `rax' holding the result); "lost" is an    *)
(* instruction pointer moved back from a place that followed no call.      *)
(* `seen' records that the program may know the call was interrupted: a    *)
(* handler without SA_RESTART ran, or the call was nanosleep.              *)
(***************************************************************************)
EXTENDS Naturals, Sequences, FiniteSets, FiniteSetsExt

CONSTANTS
    INT, KILL, SEGV, CHLD, CONT, STOP, TSTP,   \* signal numbers
    Raisable,      \* signals others raise
    Maskable,      \* signals the program blocks
    Handled,       \* signals the program gives a disposition
    StackRoom      \* contexts that fit on the user stack

VARIABLES
    pend,         \* m_pending_signals
    mask,         \* m_signal_mask
    action,       \* signal -> "dfl", "ign", "catch" or "restart" (SA_RESTART)
    mode,         \* "user", "kernel", "leaving", "stopping", "stopped", "dead"
    isStopped,    \* m_is_stopped
    call,         \* the system call under way, "none" in a fault
    restartable,  \* Thread::m_restartable_syscall, or "none"
    frame,        \* the user context
    contexts      \* SignalContexts on the user stack, oldest first

svars == <<pend, mask, action, mode, isStopped, call, restartable, frame, contexts>>

Sigs == {INT, KILL, SEGV, CHLD, CONT, STOP, TSTP}
Calls == {"read", "nanosleep"}
Stops == {STOP, TSTP}
signal_stops_by_default(sig) == sig \in Stops
signal_terminates_by_default(sig) == sig \notin Stops \cup {CHLD, CONT}

Frame(level, pc, rax) == [level |-> level, pc |-> pc, rax |-> rax, seen |-> FALSE]

SInit ==
    /\ pend = {} /\ mask = {}
    /\ action = [s \in Sigs |-> "dfl"]
    /\ mode = "user" /\ isStopped = FALSE
    /\ call = "none" /\ restartable = "none"
    /\ frame = Frame(0, "run", "none")
    /\ contexts = <<>>

Deliverable == pend \ (mask \ {KILL, STOP})
has_pending_signals == Deliverable # {}
take_pending_signal == Min(Deliverable)

\* raise_signal: stopping and continuing cancel each other, and a stopped
\* process is resumed.  Waking a blocked one is `Interrupted' being enabled.
Raised(sig) ==
    (pend \ (IF sig = CONT THEN Stops ELSE IF sig \in Stops THEN {CONT} ELSE {}))
        \cup {sig}
raise_signal(sig) ==
    /\ mode # "dead"
    /\ pend' = Raised(sig)
    /\ IF isStopped /\ sig \in {CONT, KILL}
       THEN /\ isStopped' = FALSE
            /\ mode' = IF mode = "stopped" THEN "user" ELSE mode
       ELSE UNCHANGED <<isStopped, mode>>
    /\ UNCHANGED <<mask, action, call, restartable, frame, contexts>>

-----------------------------------------------------------------------------

\* The program runs up to its next system call; one it was put back to is
\* the one it makes.
Enter ==
    /\ mode = "user"
    /\ call' \in IF frame.pc = "call" THEN {frame.rax} ELSE Calls
    /\ restartable' = "none"
    /\ mode' = "kernel"
    /\ frame' = Frame(frame.level, "after", "none")
    /\ UNCHANGED <<pend, mask, action, isStopped, contexts>>

Completed ==
    /\ mode = "kernel"
    /\ frame' = [frame EXCEPT !.rax = "ok"]
    /\ mode' = "leaving"
    /\ UNCHANGED <<pend, mask, action, isStopped, call, restartable, contexts>>

\* EINTR; nanosleep is never taken again.
Interrupted ==
    /\ mode = "kernel" /\ has_pending_signals
    /\ frame' = [frame EXCEPT !.rax = "eintr", !.seen = (call = "nanosleep")]
    /\ restartable' = IF call = "nanosleep" THEN "none" ELSE call
    /\ mode' = "leaving"
    /\ UNCHANGED <<pend, mask, action, isStopped, call, contexts>>

\* set_signal_action refuses SIGKILL and SIGSTOP.
sys_sigaction ==
    /\ mode = "user" /\ frame.pc # "call"
    /\ \E s \in Handled \ {KILL, STOP}, how \in {"dfl", "ign", "catch", "restart"} :
         action' = [action EXCEPT ![s] = how]
    /\ restartable' = "none" /\ call' = "sigaction" /\ mode' = "leaving"
    /\ frame' = Frame(frame.level, "after", "ok")
    /\ UNCHANGED <<pend, mask, isStopped, contexts>>

sys_sigprocmask ==
    /\ mode = "user" /\ frame.pc # "call"
    /\ \E m \in SUBSET Maskable : mask' = m \ {KILL, STOP}
    /\ restartable' = "none" /\ call' = "sigprocmask" /\ mode' = "leaving"
    /\ frame' = Frame(frame.level, "after", "ok")
    /\ UNCHANGED <<pend, action, isStopped, contexts>>

\* A bug: the stack pointer is not moved past the context.
sys_sigreturn_keeps ==
    /\ mode = "user" /\ frame.pc # "call" /\ frame.level > 0
    /\ frame' = contexts[Len(contexts)]
    /\ restartable' = "none" /\ call' = "sigreturn" /\ mode' = "leaving"
    /\ UNCHANGED <<pend, mask, action, isStopped, contexts>>

\* The handler returned to its restorer.
sys_sigreturn ==
    /\ mode = "user" /\ frame.pc # "call" /\ frame.level > 0
    /\ frame' = contexts[Len(contexts)]
    /\ contexts' = SubSeq(contexts, 1, Len(contexts) - 1)
    /\ restartable' = "none" /\ call' = "sigreturn" /\ mode' = "leaving"
    /\ UNCHANGED <<pend, mask, action, isStopped>>

\* execve: reset_signal_handlers and a new frame on a new stack.
sys_execve ==
    /\ mode = "user" /\ frame.pc # "call"
    /\ action' = [s \in Sigs |-> IF action[s] = "ign" THEN "ign" ELSE "dfl"]
    /\ frame' = Frame(0, "run", "none") /\ contexts' = <<>>
    /\ restartable' = "none" /\ call' = "execve" /\ mode' = "leaving"
    /\ UNCHANGED <<pend, mask, isStopped>>

\* An exception in the program (on_fault).
on_fault ==
    /\ mode = "user" /\ frame.pc # "call"
    /\ pend' = Raised(SEGV)
    /\ frame' = [frame EXCEPT !.pc = "run"]
    /\ call' = "none" /\ mode' = "leaving"
    /\ UNCHANGED <<mask, action, isStopped, restartable, contexts>>

-----------------------------------------------------------------------------

\* restart_interrupted_syscall, on a frame.
Rewound(f) ==
    [f EXCEPT !.pc = IF f.pc = "after" THEN "call" ELSE "lost", !.rax = restartable]
restart_interrupted_syscall ==
    IF restartable = "none" THEN UNCHANGED <<frame, restartable>>
    ELSE frame' = Rewound(frame) /\ restartable' = "none"

\* A bug: a call interrupted by a stop is not taken again.
StopForgets ==
    /\ isStopped' = TRUE /\ mode' = "stopping"
    /\ UNCHANGED <<frame, restartable, contexts>>

\* stop, which sleeps until a resume, and what follows it on the way back to
\* the program; what else is pending waits for the next system call or fault.
Stop ==
    /\ isStopped' = TRUE /\ mode' = "stopping"
    /\ restart_interrupted_syscall /\ UNCHANGED contexts
Block ==
    /\ mode = "stopping" /\ mode' = "stopped"
    /\ UNCHANGED <<pend, mask, action, isStopped, call, restartable, frame, contexts>>

do_exit ==
    /\ mode' = "dead" /\ UNCHANGED <<isStopped, frame, restartable, contexts>>

Resume ==
    /\ mode' = "user" /\ isStopped' = FALSE
    /\ restart_interrupted_syscall /\ UNCHANGED contexts

\* A context for sigreturn, rewound for SA_RESTART; then the handler's frame.
Handle(sig) ==
    IF Len(contexts) = StackRoom THEN do_exit
    ELSE /\ contexts' = Append(contexts,
                IF action[sig] # "restart" THEN [frame EXCEPT !.seen = TRUE]
                ELSE IF restartable = "none" THEN frame ELSE Rewound(frame))
         /\ restartable' = IF action[sig] = "restart" THEN "none" ELSE restartable
         /\ frame' = Frame(frame.level + 1, "run", "none")
         /\ mode' = "user"
         /\ isStopped' = IF sig = CONT THEN FALSE ELSE isStopped

deliver_pending_signal ==
    /\ mode = "leaving"
    /\ IF ~has_pending_signals
       THEN mode' = "user" /\ UNCHANGED <<pend, isStopped, restartable, frame, contexts>>
       ELSE LET sig == take_pending_signal IN
            /\ pend' = pend \ {sig}
            /\ CASE sig = KILL -> do_exit
                 [] sig = STOP -> Stop
                 [] sig = CONT /\ action[sig] \in {"ign", "dfl"} -> Resume
                 [] sig \notin {KILL, STOP, CONT} /\ action[sig] = "ign" -> Resume
                 [] sig \notin {KILL, STOP, CONT} /\ action[sig] = "dfl" ->
                      IF signal_stops_by_default(sig) THEN Stop
                      ELSE IF signal_terminates_by_default(sig) THEN do_exit
                      ELSE Resume
                 [] OTHER -> Handle(sig)
    /\ UNCHANGED <<mask, action, call>>

SNext ==
    \/ \E sig \in Raisable : raise_signal(sig)
    \/ Enter \/ Completed \/ Interrupted
    \/ sys_sigaction \/ sys_sigprocmask \/ sys_sigreturn \/ sys_execve
    \/ on_fault \/ Block \/ deliver_pending_signal

-----------------------------------------------------------------------------

(* Handlers nest: the program is as many handlers deep as there are        *)
(* contexts on its stack, and the context sigreturn takes is the one the   *)
(* innermost handler interrupted.                                          *)
HandlersNest ==
    mode # "dead" =>
        /\ frame.level = Len(contexts)
        /\ \A i \in DOMAIN contexts : contexts[i].level = i - 1

(* A program back from a system call, outside any handler the call's       *)
(* signal started, sees EINTR only if it handled something meanwhile, or   *)
(* asked to sleep (the comment on restart_interrupted_syscall).            *)
EintrExplained ==
    mode = "user" /\ frame.rax = "eintr" => frame.seen
=============================================================================
