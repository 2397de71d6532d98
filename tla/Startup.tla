------------------------------- MODULE Startup -------------------------------
(***************************************************************************)
(* The two programs that start shells and wait for them: pid 1             *)
(* (user/bin/init.c), and the terminal emulator (user/wsys/terminal.c)     *)
(* with forkpty (user/libc/src/posix_files.c). What the programs they      *)
(* start do, and when those exit, is open; so is whether fork and exec     *)
(* succeed.                                                                *)
(***************************************************************************)
EXTENDS Naturals, FiniteSets
LOCAL INSTANCE FiniteSetsExt

CONSTANTS
    MaxPids,    \* children pid 1 has in all; a pid is not used again
    MaxFd       \* descriptors of the emulator

VARIABLES
    init,       \* where pid 1 is
    brood,      \* pid -> "unused", "running", "zombie" or "gone", of its children
    script,     \* the pid of /etc/rc's shell
    shell,      \* `shell' of main; 0 for -1
    forkFailed, \* spawn_shell has failed
    emulator,   \* where the emulator is
    own,        \* descriptor -> what it is: "none", "other", "master" or "slave"
    ptys,       \* the descriptors openpty returned
    child,      \* where forkpty's child is
    childOwn,   \* its descriptors
    leads,      \* it has a session of its own,
    terminal,   \* the controlling terminal of its session,
    front,      \* and the pty's foreground group is its own
    hup,        \* the emulator has sent it SIGHUP
    job         \* a job of its shell has the slave open

initVars == <<init, brood, script, shell, forkFailed>>
childVars == <<child, childOwn, leads, terminal, front, job>>
ptyVars == <<emulator, own, ptys, childVars, hup>>

Pids == 1..MaxPids
Fds == 0..MaxFd - 1

\* The emulator may have been started with any of 0, 1 and 2 closed.
StartInit ==
    /\ init = "begin" /\ brood = [p \in Pids |-> "unused"] /\ script = 0 /\ shell = 0
    /\ forkFailed = FALSE
    /\ emulator = "start" /\ ptys = [master |-> 0, slave |-> 0]
    /\ \E open \in SUBSET {0, 1, 2} : own = [f \in Fds |-> IF f \in open THEN "other" ELSE "none"]
    /\ child = "none" /\ childOwn = [f \in Fds |-> "none"]
    /\ leads = FALSE /\ terminal = "console" /\ front = FALSE /\ hup = FALSE /\ job = FALSE

-----------------------------------------------------------------------------
(* pid 1                                                                   *)

Forked(p) == brood[p] = "unused" /\ brood' = [brood EXCEPT ![p] = "running"]

\* /etc/rc is not there, cannot be forked for, or is started.
run_boot_script ==
    /\ init = "begin"
    /\ \/ init' = "spawn" /\ UNCHANGED <<brood, script>>
       \/ \E p \in Pids : Forked(p) /\ script' = p /\ init' = "script"
    /\ UNCHANGED <<shell, forkFailed>>

\* waitpid(child), until it does not fail.
script_done ==
    /\ init = "script" /\ brood[script] = "zombie"
    /\ brood' = [brood EXCEPT ![script] = "gone"] /\ init' = "spawn"
    /\ UNCHANGED <<script, shell, forkFailed>>

\* Mutant: the pid of the new shell is not kept.
spawn_shell_forgets ==
    /\ init = "spawn" /\ init' = "loop"
    /\ \/ \E p \in Pids : Forked(p) /\ shell' = (IF shell = 0 THEN p ELSE shell) /\ UNCHANGED forkFailed
       \/ shell' = 0 /\ forkFailed' = TRUE /\ UNCHANGED brood
    /\ UNCHANGED script

spawn_shell ==
    /\ init = "spawn" /\ init' = "loop"
    /\ \/ \E p \in Pids : Forked(p) /\ shell' = p /\ UNCHANGED forkFailed
       \/ shell' = 0 /\ forkFailed' = TRUE /\ UNCHANGED brood
    /\ UNCHANGED script

\* Mutant: the loop waits for the shell.
main_loop_shell ==
    /\ init = "loop" /\ shell \in Pids /\ brood[shell] = "zombie"
    /\ brood' = [brood EXCEPT ![shell] = "gone"] /\ init' = "spawn"
    /\ UNCHANGED <<script, shell, forkFailed>>

\* waitpid(-1), which fails when there are no children; then sleep(1).
main_loop ==
    /\ \/ /\ init = "loop"
          /\ \E p \in Pids : /\ brood[p] = "zombie" /\ brood' = [brood EXCEPT ![p] = "gone"]
                             /\ init' = IF p = shell THEN "spawn" ELSE "loop"
       \/ /\ init = "loop" /\ \A p \in Pids : brood[p] \in {"unused", "gone"}
          /\ init' = "asleep" /\ UNCHANGED brood
       \/ init = "asleep" /\ init' = "loop" /\ UNCHANGED brood
    /\ UNCHANGED <<script, shell, forkFailed>>

Pid1 == (run_boot_script \/ script_done \/ spawn_shell \/ main_loop) /\ UNCHANGED ptyVars

\* A child exits; a process whose parent exits becomes a child (external).
Exits(p) ==
    /\ brood[p] = "running" /\ brood' = [brood EXCEPT ![p] = "zombie"]
    /\ UNCHANGED <<init, script, shell, forkFailed>>
Orphaned(p) ==
    /\ brood[p] = "unused" /\ \E q \in Pids : brood[q] # "unused"
    /\ \E how \in {"running", "zombie"} : brood' = [brood EXCEPT ![p] = how]
    /\ UNCHANGED <<init, script, shell, forkFailed>>

-----------------------------------------------------------------------------
(* The emulator                                                            *)

Free == {f \in Fds : own[f] = "none"}
Goto(from, to) == emulator = from /\ emulator' = to

openpty ==
    /\ \/ /\ Goto("start", "opened") /\ Cardinality(Free) > 1
          /\ LET m == Min(Free)
                 s == Min(Free \ {m})
             IN  /\ ptys' = [master |-> m, slave |-> s]
                 /\ own' = [own EXCEPT ![m] = "master", ![s] = "slave"]
       \/ Goto("start", "ended") /\ UNCHANGED <<own, ptys>>
    /\ UNCHANGED <<childVars, hup>>

forkpty ==
    /\ \/ /\ Goto("opened", "parent")
          /\ child' = "child" /\ childOwn' = own /\ UNCHANGED own
       \/ /\ Goto("opened", "ended") /\ UNCHANGED <<child, childOwn>>
          /\ own' = [own EXCEPT ![ptys.master] = "none", ![ptys.slave] = "none"]
    /\ UNCHANGED <<ptys, leads, terminal, front, job, hup>>

\* Mutant: the parent keeps its slave.
forkpty_parent_keeps ==
    /\ Goto("parent", "pump")
    /\ UNCHANGED <<own, ptys, childVars, hup>>

forkpty_parent ==
    /\ Goto("parent", "pump") /\ own' = [own EXCEPT ![ptys.slave] = "none"]
    /\ UNCHANGED <<ptys, childVars, hup>>

Holds(t, what) == \E f \in Fds : t[f] = what
SlaveOpen == Holds(own, "slave") \/ Holds(childOwn, "slave") \/ job

\* on_shell_output reads end of file once nobody has the slave open.
on_shell_output == Goto("pump", "hangup") /\ ~SlaveOpen /\ UNCHANGED <<own, ptys, childVars, hup>>
window_closed == Goto("pump", "hangup") /\ UNCHANGED <<own, ptys, childVars, hup>>

main_end ==
    /\ \/ Goto("hangup", "wait") /\ hup' = TRUE /\ UNCHANGED <<own, child>>
       \/ Goto("wait", "close") /\ child = "zombie" /\ child' = "gone" /\ UNCHANGED <<own, hup>>
       \/ /\ Goto("close", "ended") /\ own' = [own EXCEPT ![ptys.master] = "none"]
          /\ UNCHANGED <<child, hup>>
    /\ UNCHANGED <<ptys, childOwn, leads, terminal, front, job>>

Emulator ==
    /\ openpty \/ forkpty \/ forkpty_parent \/ on_shell_output \/ main_end
    /\ UNCHANGED initVars

-----------------------------------------------------------------------------
(* The child of forkpty, until it is a shell                               *)

Then(from, to) == child = from /\ child' = to
dup2(from, to) == childOwn' = [childOwn EXCEPT ![to] = childOwn[from]]

\* Mutant: the slave is closed whatever its number.
close_slave_always ==
    /\ Then("dup3", "claim") /\ childOwn' = [childOwn EXCEPT ![ptys.slave] = "none"]
    /\ UNCHANGED <<leads, terminal, front>>

close_slave ==
    /\ Then("dup3", "claim")
    /\ childOwn' = IF ptys.slave > 2 THEN [childOwn EXCEPT ![ptys.slave] = "none"] ELSE childOwn
    /\ UNCHANGED <<leads, terminal, front>>

forkpty_child ==
    /\ \/ /\ Then("child", "session") /\ childOwn' = [childOwn EXCEPT ![ptys.master] = "none"]
          /\ UNCHANGED <<leads, terminal, front>>
       \/ /\ Then("session", "dup0") /\ leads' = TRUE /\ terminal' = "none"
          /\ UNCHANGED <<childOwn, front>>
       \/ /\ \/ Then("dup0", "dup1") /\ dup2(ptys.slave, 0)
             \/ Then("dup1", "dup2") /\ dup2(ptys.slave, 1)
             \/ Then("dup2", "dup3") /\ dup2(ptys.slave, 2)
          /\ UNCHANGED <<leads, terminal, front>>
       \/ close_slave
       \/ /\ Then("claim", "front")
          /\ terminal' = IF leads /\ childOwn[0] = "slave" THEN "pty" ELSE terminal
          /\ UNCHANGED <<childOwn, leads, front>>
       \/ /\ Then("front", "exec") /\ front' = (childOwn[0] = "slave")
          /\ UNCHANGED <<childOwn, leads, terminal>>
    /\ UNCHANGED <<job, emulator, own, ptys, hup>>

\* One of the two shells is there.
start_shell ==
    /\ Then("exec", "shell") /\ UNCHANGED <<childOwn, leads, terminal, front, job, emulator, own, ptys, hup>>

\* Neither is; or the shell exits; or SIGHUP, which no shell here catches.
ChildEnds ==
    /\ \/ child \in {"exec", "shell"}
       \/ hup /\ child \notin {"none", "zombie", "gone"}
    /\ child' = "zombie" /\ childOwn' = [f \in Fds |-> "none"]
    /\ UNCHANGED <<leads, terminal, front, job, emulator, own, ptys, hup>>
HungUp == hup /\ ChildEnds /\ UNCHANGED initVars

\* A job of the shell (external), which may outlive it.
Job ==
    /\ \/ child = "shell" /\ ~job /\ job' = TRUE
       \/ job /\ job' = FALSE
    /\ UNCHANGED <<child, childOwn, leads, terminal, front, emulator, own, ptys, hup>>

\* The two programs have nothing to do with each other.
InitNext ==
    /\ Pid1 \/ \E p \in Pids : Exits(p) \/ Orphaned(p)
    /\ UNCHANGED ptyVars
PtyNext ==
    /\ Emulator \/ window_closed \/ forkpty_child \/ start_shell \/ ChildEnds \/ Job
    /\ UNCHANGED initVars

-----------------------------------------------------------------------------
(* init.c: "It keeps a shell running": whenever its shell has exited, pid  *)
(* 1 starts another, unless fork failed the last time, after which it has  *)
(* no pid to recognise and never tries again.                              *)
Alive == shell \in Pids /\ brood[shell] = "running"
ShellComesBack == (init = "loop" /\ ~Alive) ~> (Alive \/ forkFailed)

(* "and it reaps the orphans that get reparented to it": every child that  *)
(* exits is waited for once the boot script is done, those that exited     *)
(* while it ran included.                                                  *)
OrphansReaped ==
    \A p \in Pids : (brood[p] = "zombie" /\ init \notin {"begin", "script"}) ~> (brood[p] = "gone")

(* Whatever descriptors the emulator was started with, the shell it starts *)
(* has the slave as 0, 1 and 2 and no other end of the pty, leads a        *)
(* session whose terminal the pty is, and is in front (forkpty).           *)
ShellOnPty ==
    child = "shell" =>
        /\ leads /\ terminal = "pty" /\ front
        /\ \A f \in 0..2 : childOwn[f] = "slave"
        /\ \A f \in Fds \ 0..2 : childOwn[f] \notin {"master", "slave"}

(* The emulator ends when its window is closed, and when the last process  *)
(* on its pty is gone: nothing of its own keeps the slave open, and it     *)
(* waits for nothing that does not end.                                    *)
EmulatorEnds ==
    (emulator = "hangup" \/ (emulator = "pump" /\ child = "zombie" /\ ~job)) ~> (emulator = "ended")
==============================================================================
