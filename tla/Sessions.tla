------------------------------ MODULE Sessions ------------------------------
(***************************************************************************)
(* Process groups, sessions and controlling terminals: set_process_group,  *)
(* start_session and Process::create of kernel/sched/process.cpp, and the  *)
(* TIOCSCTTY and TIOCSPGRP requests of kernel/dev/tty.cpp and pty.cpp.      *)
(*                                                                         *)
(* setpgid tests its target, scans the table under s_process_lock and only *)
(* then writes m_pgid, so another process may run between test and write.  *)
(* The other calls touch one process, their caller, and are one step.      *)
(***************************************************************************)
EXTENDS Naturals, TLC, TLAPS

CONSTANTS
    Pids,        \* the pids a run may hand out; they are never reused
    Pid1,        \* init
    Terminals,   \* the console and the pty slaves
    None         \* no pid, no terminal

ASSUME Pid1Assumption == Pid1 \in Pids
ASSUME NoneAssumption == None \notin Pids \cup Terminals

VARIABLES
    life,        \* "unused", "live", "exited" or "freed"
    parent,      \* m_parent_pid
    pgid, sid,   \* m_pgid, m_sid
    ctty,        \* m_controlling_terminal
    moving,      \* setpgid past its tests: the target and the group it will get
    foreground   \* the group that owns a terminal: m_foreground_group

vars == <<life, parent, pgid, sid, ctty, moving, foreground>>

NoMove == [target |-> None, group |-> None]

TypeOK ==
    /\ life \in [Pids -> {"unused", "live", "exited", "freed"}]
    /\ parent \in [Pids -> Pids \cup {None}]
    /\ pgid \in [Pids -> Pids \cup {None}]
    /\ sid \in [Pids -> Pids \cup {None}]
    /\ ctty \in [Pids -> Terminals \cup {None}]
    /\ moving \in [Pids -> [target : Pids, group : Pids] \cup {NoMove}]
    /\ foreground \in [Terminals -> Pids \cup {None}]

Table == {p \in Pids : life[p] \in {"live", "exited"}}

Init ==
    /\ life = [p \in Pids |-> IF p = Pid1 THEN "live" ELSE "unused"]
    /\ parent = [p \in Pids |-> None]
    /\ pgid = [p \in Pids |-> IF p = Pid1 THEN Pid1 ELSE None]
    /\ sid = [p \in Pids |-> IF p = Pid1 THEN Pid1 ELSE None]
    /\ ctty = [p \in Pids |-> None]
    /\ moving = [p \in Pids |-> NoMove]
    /\ foreground = [t \in Terminals |-> None]

\* Process p runs and is not inside setpgid
Calls(p) == life[p] = "live" /\ moving[p] = NoMove

-----------------------------------------------------------------------------
\* Mutant: a child is given the session named by its parent's pid
ForkOwnSession(p, c) ==
    /\ Calls(p) /\ life[c] = "unused"
    /\ life' = [life EXCEPT ![c] = "live"]
    /\ parent' = [parent EXCEPT ![c] = p]
    /\ pgid' = [pgid EXCEPT ![c] = pgid[p]]
    /\ sid' = [sid EXCEPT ![c] = p]
    /\ ctty' = [ctty EXCEPT ![c] = ctty[p]]
    /\ UNCHANGED <<moving, foreground>>

\* Process::create: group, session and terminal are the parent's
Fork(p, c) ==
    /\ Calls(p) /\ life[c] = "unused"
    /\ life' = [life EXCEPT ![c] = "live"]
    /\ parent' = [parent EXCEPT ![c] = p]
    /\ pgid' = [pgid EXCEPT ![c] = pgid[p]]
    /\ sid' = [sid EXCEPT ![c] = sid[p]]
    /\ ctty' = [ctty EXCEPT ![c] = ctty[p]]
    /\ UNCHANGED <<moving, foreground>>

\* mark_exited hands the children to init; init itself stays
Exit(p) ==
    /\ Calls(p) /\ p # Pid1
    /\ life' = [life EXCEPT ![p] = "exited"]
    /\ parent' = [c \in Pids |-> IF parent[c] = p THEN Pid1 ELSE parent[c]]
    /\ UNCHANGED <<pgid, sid, ctty, moving, foreground>>

\* reap_child; ~Process drops the terminal
Reap(p, c) ==
    /\ Calls(p) /\ life[c] = "exited" /\ parent[c] = p
    /\ life' = [life EXCEPT ![c] = "freed"]
    /\ ctty' = [ctty EXCEPT ![c] = None]
    /\ UNCHANGED <<parent, pgid, sid, moving, foreground>>

-----------------------------------------------------------------------------
\* The scan of set_process_group: exited processes count
GroupInSession(g, s) == \E q \in Table : pgid[q] = g /\ sid[q] = s

\* Mutant: a group nobody is in can be joined
SetpgidTestUnnamed(p, t, g) ==
    /\ Calls(p) /\ t \in Table
    /\ t = p \/ parent[t] = p
    /\ sid[t] = sid[p] /\ t # sid[t]
    /\ moving' = [moving EXCEPT ![p] = [target |-> t, group |-> g]]
    /\ UNCHANGED <<life, parent, pgid, sid, ctty, foreground>>

\* set_process_group up to the last test; g = t is also what pgid 0 means
SetpgidTest(p, t, g) ==
    /\ Calls(p) /\ t \in Table
    /\ t = p \/ parent[t] = p
    /\ sid[t] = sid[p]
    /\ t # sid[t]
    /\ g = t \/ GroupInSession(g, sid[p])
    /\ moving' = [moving EXCEPT ![p] = [target |-> t, group |-> g]]
    /\ UNCHANGED <<life, parent, pgid, sid, ctty, foreground>>

SetpgidWrite(p) ==
    /\ life[p] = "live" /\ moving[p] # NoMove
    /\ pgid' = [pgid EXCEPT ![moving[p].target] = moving[p].group]
    /\ moving' = [moving EXCEPT ![p] = NoMove]
    /\ UNCHANGED <<life, parent, sid, ctty, foreground>>

\* start_session
Setsid(p) ==
    /\ Calls(p) /\ p # pgid[p]
    /\ sid' = [sid EXCEPT ![p] = p]
    /\ pgid' = [pgid EXCEPT ![p] = p]
    /\ ctty' = [ctty EXCEPT ![p] = None]
    /\ UNCHANGED <<life, parent, moving, foreground>>

-----------------------------------------------------------------------------
Tiocsctty(p, t) ==
    /\ Calls(p) /\ p = sid[p]
    /\ ctty' = [ctty EXCEPT ![p] = t]
    /\ UNCHANGED <<life, parent, pgid, sid, moving, foreground>>

\* group_exists, which does not count exited processes
Tiocspgrp(p, t, g) ==
    /\ Calls(p)
    /\ \E q \in Pids : life[q] = "live" /\ pgid[q] = g
    /\ foreground' = [foreground EXCEPT ![t] = g]
    /\ UNCHANGED <<life, parent, pgid, sid, ctty, moving>>

Step(p) ==
    \/ Exit(p) \/ SetpgidWrite(p) \/ Setsid(p)
    \/ \E q \in Pids : Fork(p, q) \/ Reap(p, q)
    \/ \E q, g \in Pids : SetpgidTest(p, q, g)
    \/ \E t \in Terminals : Tiocsctty(p, t) \/ \E g \in Pids : Tiocspgrp(p, t, g)

Next == \E p \in Pids : Step(p)

Spec == Init /\ [][Next]_vars

\* Pid 1 is special, the other processes and the terminals are not, which TLC
\* uses.
Symmetry == Permutations(Pids \ {Pid1}) \cup Permutations(Terminals)

-----------------------------------------------------------------------------
\* A session is named by the process that started it: whatever is forked,
\* moved or started later, the sid of a process names a process that leads a
\* session, so getsid and TIOCSCTTY's test for the leader agree.
SessionFounded ==
    \A p \in Pids : life[p] # "unused" => sid[p] \in Pids /\ sid[sid[p]] = sid[p]

\* "Anything else would put a process in a group that nothing can name": the
\* id of a group is the pid of a process that has existed, so no process of
\* the future finds itself the leader of a group it did not create.
GroupNamed ==
    \A p \in Pids : life[p] # "unused" => pgid[p] \in Pids /\ life[pgid[p]] # "unused"

-----------------------------------------------------------------------------
(***************************************************************************)
(* SessionFounded and GroupNamed for any set of pids and terminals.  The   *)
(* strengthening says that a setpgid between its tests and its write holds *)
(* a target and a group that have existed (pids are not reused, so what    *)
(* the tests saw stays true of them whatever runs in between), and that a  *)
(* pid not handed out yet is in no session.                                *)
(***************************************************************************)
MovesNamed ==
    \A p \in Pids : moving[p] # NoMove =>
        life[moving[p].target] # "unused" /\ life[moving[p].group] # "unused"

UnusedBlank == \A p \in Pids : life[p] = "unused" => sid[p] = None

IInv == TypeOK /\ SessionFounded /\ GroupNamed /\ MovesNamed /\ UnusedBlank

USE Pid1Assumption, NoneAssumption

\* The first process leads its own group and session (Process::create
\* without a parent).
LEMMA InitInv == Init => IInv
<1> SUFFICES ASSUME Init PROVE IInv
  OBVIOUS
<1>1. TypeOK
  BY DEF Init, TypeOK, NoMove
<1>2. SessionFounded /\ GroupNamed /\ UnusedBlank
  BY DEF Init, SessionFounded, GroupNamed, UnusedBlank
<1>3. MovesNamed
  BY DEF Init, MovesNamed
<1> QED
  BY <1>1, <1>2, <1>3 DEF IInv

\* A process that has existed is never unused again: s_next_pid only grows.
LEMMA UsedStaysUsed ==
    ASSUME TypeOK, Next
    PROVE  \A p \in Pids : life[p] # "unused" => life'[p] # "unused"
BY DEF Next, Step, Fork, Exit, Reap, SetpgidTest, SetpgidWrite, Setsid,
       Tiocsctty, Tiocspgrp, Calls, Table, TypeOK

\* Every call keeps the types.
LEMMA NextType == ASSUME TypeOK, Next PROVE TypeOK'
<1>1. PICK p \in Pids : Step(p)
  BY DEF Next
<1>2. CASE Exit(p)
  BY <1>2 DEF Exit, TypeOK
<1>7. CASE Setsid(p)
  BY <1>7 DEF Setsid, TypeOK
<1>3. CASE SetpgidWrite(p)
  <2>1. moving[p].target \in Pids /\ moving[p].group \in Pids
    BY <1>3 DEF SetpgidWrite, TypeOK
  <2> QED
    BY <1>3, <2>1 DEF SetpgidWrite, TypeOK
<1>4. CASE \E q \in Pids : Fork(p, q) \/ Reap(p, q)
  BY <1>4 DEF Fork, Reap, TypeOK
<1>5. CASE \E q, g \in Pids : SetpgidTest(p, q, g)
  BY <1>5 DEF SetpgidTest, TypeOK, Table
<1>6. CASE \E t \in Terminals : Tiocsctty(p, t) \/ \E g \in Pids : Tiocspgrp(p, t, g)
  BY <1>6 DEF Tiocsctty, Tiocspgrp, TypeOK
<1> QED
  BY <1>1, <1>2, <1>3, <1>4, <1>5, <1>6, <1>7 DEF Step

\* Every call keeps the invariant.
LEMMA NextInv == ASSUME IInv, Next PROVE IInv'
<1> USE DEF IInv
<1>0. TypeOK' /\ \A p \in Pids : life[p] # "unused" => life'[p] # "unused"
  BY NextType, UsedStaysUsed
<1>1. PICK p \in Pids : Step(p)
  BY DEF Next
<1>2. CASE Exit(p)
  <2>1. UNCHANGED <<pgid, sid, moving>>
    BY <1>2 DEF Exit
  <2>2. \A q \in Pids : life'[q] # "unused" => life[q] # "unused"
    BY <1>2 DEF Exit, TypeOK, Calls
  <2> QED
    BY <1>0, <2>1, <2>2 DEF SessionFounded, GroupNamed, MovesNamed, UnusedBlank, TypeOK
<1>3. CASE SetpgidWrite(p)
  <2>1. /\ moving[p].target \in Pids /\ moving[p].group \in Pids
        /\ life[moving[p].group] # "unused"
        /\ UNCHANGED <<life, sid>>
    BY <1>3 DEF SetpgidWrite, TypeOK, MovesNamed
  <2>2. /\ pgid' = [pgid EXCEPT ![moving[p].target] = moving[p].group]
        /\ moving' = [moving EXCEPT ![p] = NoMove]
    BY <1>3 DEF SetpgidWrite
  <2>3. GroupNamed'
    BY <2>1, <2>2 DEF GroupNamed, TypeOK
  <2>4. MovesNamed'
    BY <2>1, <2>2 DEF MovesNamed, TypeOK
  <2> QED
    BY <1>0, <2>1, <2>3, <2>4 DEF SessionFounded, UnusedBlank
<1>4. CASE Setsid(p)
  BY <1>0, <1>4 DEF Setsid, Calls, SessionFounded, GroupNamed, MovesNamed, UnusedBlank, TypeOK
<1>5. ASSUME NEW q \in Pids, Fork(p, q) PROVE IInv'
  <2>1. /\ life[p] = "live" /\ life[q] = "unused" /\ p # q
        /\ life' = [life EXCEPT ![q] = "live"]
        /\ pgid' = [pgid EXCEPT ![q] = pgid[p]]
        /\ sid' = [sid EXCEPT ![q] = sid[p]]
        /\ moving' = moving
    BY <1>5 DEF Fork, Calls
  <2>2. SessionFounded'
    <3>1. sid[p] \in Pids /\ sid[sid[p]] = sid[p]
      BY <2>1 DEF SessionFounded
    <3>2. SUFFICES ASSUME NEW r \in Pids, life'[r] # "unused"
                   PROVE  sid'[r] \in Pids /\ sid'[sid'[r]] = sid'[r]
      BY DEF SessionFounded
    <3>3. CASE r = q
      BY <2>1, <3>1, <3>3 DEF TypeOK, UnusedBlank
    <3>4. CASE r # q
      BY <2>1, <3>1, <3>2, <3>4 DEF TypeOK, SessionFounded, UnusedBlank
    <3> QED
      BY <3>3, <3>4
  <2>3. GroupNamed'
    BY <1>0, <2>1 DEF GroupNamed, TypeOK
  <2>4. MovesNamed'
    BY <1>0, <2>1 DEF MovesNamed, TypeOK
  <2>5. UnusedBlank'
    BY <2>1 DEF UnusedBlank, TypeOK
  <2> QED
    BY <1>0, <2>2, <2>3, <2>4, <2>5
<1>6. ASSUME NEW q \in Pids, Reap(p, q) PROVE IInv'
  <2>1. UNCHANGED <<pgid, sid, moving>>
    BY <1>6 DEF Reap
  <2>2. \A r \in Pids : life'[r] # "unused" => life[r] # "unused"
    BY <1>6 DEF Reap, TypeOK
  <2> QED
    BY <1>0, <2>1, <2>2 DEF SessionFounded, GroupNamed, MovesNamed, UnusedBlank, TypeOK
<1>7. ASSUME NEW q \in Pids, NEW g \in Pids, SetpgidTest(p, q, g) PROVE IInv'
  <2>1. life[q] # "unused" /\ life[g] # "unused"
    BY <1>7 DEF SetpgidTest, GroupInSession, Table, GroupNamed
  <2>2. /\ UNCHANGED <<life, pgid, sid>>
        /\ moving' = [moving EXCEPT ![p] = [target |-> q, group |-> g]]
    BY <1>7 DEF SetpgidTest
  <2> QED
    BY <1>0, <2>1, <2>2 DEF SessionFounded, GroupNamed, MovesNamed, UnusedBlank, TypeOK
<1>8. CASE \E t \in Terminals : Tiocsctty(p, t) \/ \E g \in Pids : Tiocspgrp(p, t, g)
  <2>1. UNCHANGED <<life, pgid, sid, moving>>
    BY <1>8 DEF Tiocsctty, Tiocspgrp
  <2> QED
    BY <1>0, <2>1 DEF SessionFounded, GroupNamed, MovesNamed, UnusedBlank
<1> QED
  BY <1>1, <1>2, <1>3, <1>4, <1>5, <1>6, <1>7, <1>8 DEF Step

\* The invariant holds in every behaviour.
LEMMA InvHolds == Spec => []IInv
<1>1. IInv /\ UNCHANGED vars => IInv'
  BY DEF IInv, TypeOK, SessionFounded, GroupNamed, MovesNamed, UnusedBlank, vars
<1> QED
  BY InitInv, NextInv, <1>1, PTL DEF Spec

\* Type correctness, for any set of pids and terminals.
THEOREM SessionsTyped == Spec => []TypeOK
BY InvHolds, PTL DEF IInv

\* Whatever is forked, moved between groups or started as a session, the sid
\* of a process names a process that leads a session.
THEOREM SessionsFounded == Spec => []SessionFounded
BY InvHolds, PTL DEF IInv

\* Groups are named by processes that have existed, although setpgid tests the
\* group some time before it moves a process there.
THEOREM GroupsNamed == Spec => []GroupNamed
BY InvHolds, PTL DEF IInv
=============================================================================
