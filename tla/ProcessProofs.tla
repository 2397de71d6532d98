---------------------------- MODULE ProcessProofs ----------------------------
(***************************************************************************)
(* Families stay whole, reaping is the parent's alone and an exit is never *)
(* suspended, for every number of processes and whatever they wait for and *)
(* signal.                                                                 *)
(***************************************************************************)
EXTENDS Process, TLAPS

(***************************************************************************)
(* The inductive invariant.                                                *)
(***************************************************************************)

\* The critical section a position names has the arguments it needs.
Sits(x) ==
    /\ x.op \in {"fork", "find", "chld", "wake", "unblock", "raise", "set"} => x.of \in Procs
    /\ x.op \in {"chld", "wake", "finished", "changed"} => x.to \in Procs
    /\ x.op \in {"find", "chld", "wake"} => x.next # "none"
    /\ x.op \in {"raise", "set"} => x.sig # "none"
    /\ x.op \in {"scan", "link", "linked", "asleep"} => x.call \in WaitCalls

Placed == \A p \in Procs : Sits(at[p])

\* Between mark_exited and the end of exit_current.
Leaving(x) ==
    \/ x.op \in {"reparent", "exit"}
    \/ x.op \in {"find", "chld", "wake"} /\ x.next = "exit"

\* A process that has exited has no thread any more or is still leaving, and
\* one that was never made has none yet.
LivesRight ==
    /\ life[Pid1] = "live"
    /\ \A p \in Procs :
        /\ life[p] = "unused" => thread[p] = "none"
        /\ life[p] \in {"exited", "freed"} =>
              thread[p] = "Zombie" \/ (thread[p] = "Runnable" /\ Leaving(at[p]))

\* The child sys_fork is making is in the table, without a thread.
Forked == \A p \in Procs : at[p].op = "fork" =>
    life[at[p].of] = "live" /\ thread[at[p].of] = "none" /\ parent[at[p].of] = p

\* What a scan found is still so when it is used.
Found ==
    /\ FinishedIsMine
    /\ \A p \in Procs : at[p].op = "finished" => life[at[p].to] = "exited"

ParentKnown == \A c \in Table \ {Pid1} : parent[c] \in Procs

IInv ==
    /\ TypeOK /\ Placed /\ LivesRight /\ Forked /\ Found
    /\ ParentKnown /\ OrphansAdopted /\ WaiterHasChild

\* The variables of TypeOK but at.
Typed ==
    /\ life \in [Procs -> {"unused", "live", "exited", "freed"}]
    /\ parent \in [Procs -> Procs \cup {NoProc}]
    /\ thread \in [Procs -> {"none", "Runnable", "Blocked", "Stopped", "Zombie"}]
    /\ onQueue \in SUBSET Procs
    /\ pending \in [Procs -> SUBSET Signals]
    /\ isStopped \in [Procs -> BOOLEAN]
    /\ stopPending \in [Procs -> BOOLEAN]
    /\ continuePending \in [Procs -> BOOLEAN]
    /\ hung \in BOOLEAN

-----------------------------------------------------------------------------
\* The kernel starts with init alone.
LEMMA InitOK == Init => IInv
<1> SUFFICES ASSUME Init PROVE IInv
    OBVIOUS
<1> USE Pid1Assumption, NoProcAssumption
<1>1. User \in Positions
    BY DEF User, Positions, NoCall
<1>2. TypeOK
    BY <1>1, Zenon DEF Init, TypeOK
<1>3. Placed
    BY Zenon DEF Init, Placed, Sits, User
<1>4. LivesRight
    BY DEF Init, LivesRight
<1>5. Forked /\ Found /\ ParentKnown
    BY Zenon DEF Init, Forked, Found, FinishedIsMine, ParentKnown, Table, User
<1>6. OrphansAdopted
    BY DEF Init, OrphansAdopted, Table
<1>7. WaiterHasChild
    BY Zenon DEF Init, WaiterHasChild, User
<1> QED BY <1>2, <1>3, <1>4, <1>5, <1>6, <1>7 DEF IInv

\* A process that runs and is not on its way out is live.
LEMMA RunnerIsLive ==
    ASSUME IInv, NEW p \in Procs, thread[p] = "Runnable", ~Leaving(at[p])
    PROVE  life[p] = "live"
BY DEF IInv, TypeOK, LivesRight

\* What the invariant says of the position of process p.
LEMMA PositionFacts ==
    ASSUME IInv, NEW p \in Procs
    PROVE  at[p] \in Positions /\ Sits(at[p])
BY DEF IInv, TypeOK, Placed

\* Back in syscall_dispatch.
LEMMA DeliverFacts ==
    LET x == [User EXCEPT !.op = "deliver"]
    IN  x \in Positions /\ x.op = "deliver" /\ Sits(x)
BY DEF Positions, User, NoCall, Sits

\* restart_interrupted_syscall goes back to user mode or into waitpid again.
LEMMA RestartedFacts ==
    ASSUME IInv, NEW p \in Procs
    PROVE  /\ Restarted(p) \in Positions /\ Sits(Restarted(p))
           /\ Restarted(p).op \in {"user", "scan"}
<1>1. at[p].call \in WaitCalls \cup {NoCall}
    BY PositionFacts DEF Positions
<1>2. CASE at[p].call = NoCall
    BY <1>2 DEF Restarted, User, Positions, Sits
<1>3. CASE at[p].call # NoCall
  <2>1. Restarted(p) = [User EXCEPT !.op = "scan", !.call = at[p].call] /\ at[p].call \in WaitCalls
    BY <1>1, <1>3 DEF Restarted
  <2>2. /\ Restarted(p) \in Positions
        /\ Restarted(p).op = "scan" /\ Restarted(p).call \in WaitCalls
    BY <2>1, Zenon DEF User, NoCall, Positions
  <2> QED BY <2>2 DEF Sits
<1> QED BY <1>2, <1>3

\* Positions stay positions when a process moves on.
LEMMA MovedTyped ==
    ASSUME NEW x \in Positions, NEW q \in Procs \cup {NoProc}
    PROVE  /\ [x EXCEPT !.op = "fork", !.of = q] \in Positions
           /\ \A call \in WaitCalls : [x EXCEPT !.op = "scan", !.call = call] \in Positions
<1>1. [x EXCEPT !.op = "fork", !.of = q] \in Positions
    BY Zenon DEF Positions
<1>2. ASSUME NEW call \in WaitCalls PROVE [x EXCEPT !.op = "scan", !.call = call] \in Positions
    BY ZenonT(60) DEF Positions
<1> QED BY <1>1, <1>2, Zenon

\* notify_parent and reap_child: whose parent, and which child.
LEMMA NotifyTyped ==
    ASSUME NEW x \in Positions, NEW q \in Procs \cup {NoProc}
    PROVE  /\ \A next \in {"exit", "block", "unblock"} :
                [x EXCEPT !.op = "find", !.of = q, !.next = next] \in Positions
           /\ \A op \in {"chld", "finished", "changed"} :
                [x EXCEPT !.op = op, !.to = q] \in Positions
<1>1. [x EXCEPT !.op = "find", !.of = q, !.next = "exit"] \in Positions
    BY Zenon DEF Positions
<1>2. [x EXCEPT !.op = "find", !.of = q, !.next = "block"] \in Positions
    BY ZenonT(60) DEF Positions
<1>3. [x EXCEPT !.op = "find", !.of = q, !.next = "unblock"] \in Positions
    BY ZenonT(60) DEF Positions
<1>4. [x EXCEPT !.op = "chld", !.to = q] \in Positions
    BY ZenonT(60) DEF Positions
<1>5. [x EXCEPT !.op = "finished", !.to = q] \in Positions
    BY ZenonT(60) DEF Positions
<1>6. [x EXCEPT !.op = "changed", !.to = q] \in Positions
    BY ZenonT(60) DEF Positions
<1> QED BY <1>1, <1>2, <1>3, <1>4, <1>5, <1>6

\* On to the next critical section with the same arguments.
LEMMA NextOpTyped ==
    ASSUME NEW x \in Positions,
           NEW op \in {"wake", "exit", "block", "unblock", "set", "scan", "link", "linked",
                       "asleep", "deliver"}
    PROVE  [x EXCEPT !.op = op] \in Positions
BY DEF Positions

-----------------------------------------------------------------------------
(***************************************************************************)
(* Most steps move one process, wake others and leave the table and the    *)
(* parents alone.                                                          *)
(***************************************************************************)

\* Process p moves to x, and what it does to the threads.
Quiet(p, x) ==
    /\ thread[p] = "Runnable" /\ at[p].op # "reparent"
    /\ UNCHANGED <<life, parent>> /\ Typed'
    /\ x \in Positions /\ Sits(x) /\ at' = [at EXCEPT ![p] = x]
    /\ x.op \notin {"fork", "finished", "changed"}
    /\ x.op \in {"link", "linked", "asleep"} =>
           at[p].op \in {"link", "linked", "asleep"} /\ x.call = at[p].call
    /\ Leaving(at[p]) => thread'[p] = "Zombie" \/ (thread'[p] = "Runnable" /\ Leaving(x))
    /\ thread'[p] # "none"
    /\ \A q \in Procs \ {p} :
           \/ thread'[q] = thread[q]
           \/ thread[q] \in {"Blocked", "Stopped"} /\ thread'[q] = "Runnable"

\* Such a step keeps the invariant.
LEMMA QuietStep ==
    ASSUME IInv, NEW p \in Procs, NEW x, Quiet(p, x)
    PROVE  IInv'
<1> USE DEF Quiet
<1>1. (\A q \in Procs \ {p} : at'[q] = at[q]) /\ at'[p] = x
    BY DEF IInv, TypeOK
<1>2. TypeOK'
    BY DEF IInv, TypeOK, Typed
<1>3. Placed'
    BY <1>1, Zenon DEF IInv, Placed
<1>4. LivesRight'
    BY <1>1, RunnerIsLive, SMTT(60) DEF IInv, TypeOK, LivesRight
<1>5. Forked'
    BY <1>1, SMTT(60) DEF IInv, TypeOK, Forked, Placed, Sits
<1>6. Found'
    BY <1>1, SMTT(60) DEF IInv, Found, FinishedIsMine, Table
<1>7. ParentKnown'
    BY DEF IInv, ParentKnown, Table
<1>8. OrphansAdopted'
    BY <1>1 DEF IInv, ParentKnown, OrphansAdopted, Table
<1>9. WaiterHasChild'
    BY <1>1 DEF IInv, WaiterHasChild, Matching, Table
<1> QED BY <1>2, <1>3, <1>4, <1>5, <1>6, <1>7, <1>8, <1>9, Zenon DEF IInv

\* Any other system call ends in the delivery of signals.
LEMMA OtherCallKeeps ==
    ASSUME IInv, NEW p \in Procs, OtherCall(p)
    PROVE  IInv'
<1>1. /\ thread[p] = "Runnable" /\ at[p].op = "user"
      /\ UNCHANGED <<life, parent, thread, onQueue, pending, jobVars, hung>>
      /\ at' = [at EXCEPT ![p] = [User EXCEPT !.op = "deliver"]]
    BY DEF OtherCall, Runs, Return
<1>2. Typed'
    BY <1>1 DEF IInv, TypeOK, Typed, jobVars
<1>3. Quiet(p, [User EXCEPT !.op = "deliver"])
    BY <1>1, <1>2, DeliverFacts DEF Quiet, Leaving
<1> QED BY <1>3, QuietStep

\* The parent is looked up in the table.
LEMMA FindParentKeeps ==
    ASSUME IInv, NEW p \in Procs, FindParent(p)
    PROVE  IInv'
<1> DEFINE boss == parent[at[p].of]
<1>1. /\ thread[p] = "Runnable" /\ at[p].op = "find"
      /\ UNCHANGED <<life, parent, thread, onQueue, pending, jobVars, hung>>
    BY DEF FindParent, Runs
<1>2. at[p] \in Positions /\ Sits(at[p])
    BY PositionFacts
<1>3. Typed'
    BY <1>1 DEF IInv, TypeOK, Typed, jobVars
<1>4. CASE boss \in Table
  <2> DEFINE x == [at[p] EXCEPT !.op = "chld", !.to = boss]
  <2>1. boss \in Procs
    BY <1>4 DEF Table
  <2>2. x \in Positions
    BY <1>2, <2>1, NotifyTyped, Zenon
  <2>3. /\ x.op = "chld" /\ x.to = boss /\ x.of = at[p].of /\ x.next = at[p].next
        /\ at' = [at EXCEPT ![p] = x]
    BY <1>2, <1>4, ZenonT(60) DEF Positions, FindParent, IInv, TypeOK
  <2>4. Sits(x) /\ (Leaving(at[p]) => Leaving(x))
    BY <1>1, <1>2, <2>1, <2>3 DEF Sits, Leaving
  <2> HIDE DEF x
  <2>5. Quiet(p, x)
      BY <1>1, <1>3, <2>2, <2>3, <2>4 DEF Quiet, Leaving
  <2> QED BY <2>5, QuietStep
<1>5. CASE boss \notin Table
  <2> DEFINE x == [at[p] EXCEPT !.op = at[p].next]
  <2>1. at[p].next \in {"exit", "block", "unblock"} /\ at[p].of \in Procs
    BY <1>1, <1>2 DEF Sits, Positions
  <2>2. x \in Positions
    BY <1>2, <2>1, NextOpTyped, Zenon
  <2>3. x.op = at[p].next /\ x.of = at[p].of /\ at' = [at EXCEPT ![p] = x]
    BY <1>2, <1>5 DEF Positions, FindParent, IInv, TypeOK
  <2>4. Sits(x) /\ (Leaving(at[p]) => Leaving(x))
    BY <1>1, <2>1, <2>3 DEF Sits, Leaving
  <2> HIDE DEF x
  <2>5. Quiet(p, x)
      BY <1>1, <1>3, <2>1, <2>2, <2>3, <2>4, Zenon DEF Quiet, Leaving
  <2> QED BY <2>5, QuietStep
<1> QED BY <1>4, <1>5

\* raise_signal(SIGCHLD) on the parent.
LEMMA RaiseSigchldKeeps ==
    ASSUME IInv, NEW p \in Procs, RaiseSigchld(p)
    PROVE  IInv'
<1> DEFINE x == [at[p] EXCEPT !.op = "wake"]
<1>1. /\ thread[p] = "Runnable" /\ at[p].op = "chld"
      /\ UNCHANGED <<life, parent, onQueue, jobVars, hung>>
    BY DEF RaiseSigchld, Runs
<1>2. at[p] \in Positions /\ Sits(at[p]) /\ at[p].to \in Procs
    BY <1>1, PositionFacts DEF Sits
<1>3. x \in Positions
    BY <1>2, NextOpTyped, Zenon
<1>4. /\ x.op = "wake" /\ x.of = at[p].of /\ x.to = at[p].to /\ x.next = at[p].next
      /\ at' = [at EXCEPT ![p] = x]
    BY <1>2 DEF Positions, RaiseSigchld, IInv, TypeOK
<1>5. Sits(x) /\ (Leaving(at[p]) => Leaving(x))
    BY <1>1, <1>2, <1>4, Zenon DEF Sits, Leaving
<1>6. pending' \in [Procs -> SUBSET Signals]
    BY <1>2, Zenon DEF RaiseSigchld, IInv, TypeOK, Signals
<1>7. /\ thread' \in [Procs -> {"none", "Runnable", "Blocked", "Stopped", "Zombie"}]
      /\ thread'[p] = "Runnable"
      /\ \A q \in Procs : \/ thread'[q] = thread[q]
                          \/ thread[q] \in {"Blocked", "Stopped"} /\ thread'[q] = "Runnable"
    BY <1>1, <1>2, Zenon DEF RaiseSigchld, IInv, TypeOK, Unblocked
<1>8. Typed'
    BY <1>1, <1>6, <1>7, Zenon DEF IInv, TypeOK, Typed, jobVars
<1> HIDE DEF x
<1>9. Quiet(p, x)
    BY <1>1, <1>3, <1>4, <1>5, <1>7, <1>8, Zenon DEF Quiet
<1> QED BY <1>9, QuietStep

\* m_child_exit_queue.wake_all on the parent.
LEMMA WakeParentKeeps ==
    ASSUME IInv, NEW p \in Procs, WakeParent(p)
    PROVE  IInv'
<1> DEFINE x == [at[p] EXCEPT !.op = at[p].next]
<1>1. /\ thread[p] = "Runnable" /\ at[p].op = "wake"
      /\ UNCHANGED <<life, parent, pending, jobVars, hung>>
    BY DEF WakeParent, Runs
<1>2. /\ at[p] \in Positions /\ at[p].to \in Procs /\ at[p].of \in Procs
      /\ at[p].next \in {"exit", "block", "unblock"}
    BY <1>1, PositionFacts, Zenon DEF Sits, Positions
<1>3. x \in Positions
    BY <1>2, NextOpTyped, Zenon
<1>4. x.op = at[p].next /\ x.of = at[p].of /\ at' = [at EXCEPT ![p] = x]
    BY <1>2, Zenon DEF Positions, WakeParent, IInv, TypeOK
<1>5. Sits(x) /\ (Leaving(at[p]) => Leaving(x))
    BY <1>1, <1>2, <1>4, Zenon DEF Sits, Leaving
<1>6. onQueue' \in SUBSET Procs
    BY DEF WakeParent, IInv, TypeOK
<1>7. /\ thread' \in [Procs -> {"none", "Runnable", "Blocked", "Stopped", "Zombie"}]
      /\ thread'[p] = "Runnable"
      /\ \A q \in Procs : \/ thread'[q] = thread[q]
                          \/ thread[q] \in {"Blocked", "Stopped"} /\ thread'[q] = "Runnable"
    BY <1>1, <1>2, Zenon DEF WakeParent, IInv, TypeOK, Unblocked
<1>8. Typed'
    BY <1>1, <1>6, <1>7 DEF IInv, TypeOK, Typed, jobVars
<1> HIDE DEF x
<1>9. Quiet(p, x)
    BY <1>1, <1>2, <1>3, <1>4, <1>5, <1>7, <1>8, Zenon DEF Quiet
<1> QED BY <1>9, QuietStep

\* The end of exit_current.
LEMMA ExitThreadKeeps ==
    ASSUME IInv, NEW p \in Procs, ExitThread(p)
    PROVE  IInv'
<1>1. /\ thread[p] = "Runnable" /\ at[p].op = "exit"
      /\ UNCHANGED <<life, parent, onQueue, pending, jobVars, hung>>
      /\ thread' = [thread EXCEPT ![p] = "Zombie"] /\ at' = [at EXCEPT ![p] = User]
    BY DEF ExitThread, Runs
<1>2. User \in Positions /\ User.op = "user" /\ Sits(User)
    BY DEF Positions, User, NoCall, Sits
<1>3. Typed' /\ thread'[p] = "Zombie" /\ \A q \in Procs \ {p} : thread'[q] = thread[q]
    BY <1>1 DEF IInv, TypeOK, Typed, jobVars
<1>4. Quiet(p, User)
    BY <1>1, <1>2, <1>3 DEF Quiet
<1> QED BY <1>4, QuietStep

\* waitpid reports a stop or a continue.
LEMMA ReportChangeKeeps ==
    ASSUME IInv, NEW p \in Procs, ReportChange(p)
    PROVE  IInv'
<1>1. /\ thread[p] = "Runnable" /\ at[p].op = "changed"
      /\ UNCHANGED <<life, parent, thread, onQueue, pending, isStopped, hung>>
      /\ at' = [at EXCEPT ![p] = [User EXCEPT !.op = "deliver"]]
    BY DEF ReportChange, Runs, Return
<1>2. Typed'
    BY <1>1, ZenonT(60) DEF ReportChange, IInv, TypeOK, Typed
<1>3. Quiet(p, [User EXCEPT !.op = "deliver"])
    BY <1>1, <1>2, DeliverFacts DEF Quiet, Leaving
<1> QED BY <1>3, QuietStep

\* waitpid begins.
LEMMA WaitpidKeeps ==
    ASSUME IInv, NEW p \in Procs, NEW call \in WaitCalls, Waitpid(p, call)
    PROVE  IInv'
<1> DEFINE x == [at[p] EXCEPT !.op = "scan", !.call = call]
<1>1. /\ thread[p] = "Runnable" /\ at[p].op = "user" /\ at[p] \in Positions
      /\ UNCHANGED <<life, parent, thread, onQueue, pending, jobVars, hung>>
    BY PositionFacts DEF Waitpid, Runs
<1>2. x \in Positions
    BY <1>1, MovedTyped, Zenon
<1>3. x.op = "scan" /\ x.call = call /\ at' = [at EXCEPT ![p] = x]
    BY <1>1, ZenonT(60) DEF Positions, Waitpid, IInv, TypeOK
<1>4. Sits(x) /\ ~Leaving(at[p])
    BY <1>1, <1>3 DEF Sits, Leaving
<1>5. Typed'
    BY <1>1 DEF IInv, TypeOK, Typed, jobVars
<1> HIDE DEF x
<1>6. Quiet(p, x)
    BY <1>1, <1>2, <1>3, <1>4, <1>5, Zenon DEF Quiet
<1> QED BY <1>6, QuietStep

\* WaitQueue::wait, until the thread is on the list, and until it is blocked.
LEMMA WaitLinkKeeps ==
    ASSUME IInv, NEW p \in Procs, WaitLink(p)
    PROVE  IInv'
<1> DEFINE x == [at[p] EXCEPT !.op = "linked"]
<1>1. /\ thread[p] = "Runnable" /\ at[p].op = "link" /\ at[p] \in Positions /\ Sits(at[p])
      /\ UNCHANGED <<life, parent, thread, pending, jobVars, hung>>
    BY PositionFacts DEF WaitLink, Runs
<1>2. x \in Positions
    BY <1>1, NextOpTyped, Zenon
<1>3. x.op = "linked" /\ x.call = at[p].call /\ at' = [at EXCEPT ![p] = x]
    BY <1>1, Zenon DEF Positions, WaitLink, IInv, TypeOK
<1>4. Sits(x) /\ ~Leaving(at[p])
    BY <1>1, <1>3 DEF Sits, Leaving
<1>5. Typed'
    BY <1>1 DEF WaitLink, IInv, TypeOK, Typed, jobVars
<1> HIDE DEF x
<1>6. Quiet(p, x)
    BY <1>1, <1>2, <1>3, <1>4, <1>5, Zenon DEF Quiet
<1> QED BY <1>6, QuietStep

\* The thread blocks.
LEMMA WaitBlockKeeps ==
    ASSUME IInv, NEW p \in Procs, WaitBlock(p)
    PROVE  IInv'
<1> DEFINE x == [at[p] EXCEPT !.op = "asleep"]
<1>1. /\ thread[p] = "Runnable" /\ at[p].op = "linked" /\ at[p] \in Positions /\ Sits(at[p])
      /\ thread' = [thread EXCEPT ![p] = "Blocked"]
      /\ UNCHANGED <<life, parent, onQueue, pending, jobVars, hung>>
    BY PositionFacts DEF WaitBlock, Runs
<1>2. x \in Positions
    BY <1>1, NextOpTyped, Zenon
<1>3. x.op = "asleep" /\ x.call = at[p].call /\ at' = [at EXCEPT ![p] = x]
    BY <1>1 DEF Positions, WaitBlock, IInv, TypeOK
<1>4. Sits(x) /\ ~Leaving(at[p])
    BY <1>1, <1>3 DEF Sits, Leaving
<1>5. Typed' /\ thread'[p] = "Blocked" /\ \A q \in Procs \ {p} : thread'[q] = thread[q]
    BY <1>1, Zenon DEF IInv, TypeOK, Typed, jobVars
<1> HIDE DEF x
<1>6. Quiet(p, x)
    BY <1>1, <1>2, <1>3, <1>4, <1>5, Zenon DEF Quiet
<1> QED BY <1>6, QuietStep

\* Back from schedule, with or without a signal.
LEMMA WaitWokenKeeps ==
    ASSUME IInv, NEW p \in Procs, WaitWoken(p)
    PROVE  IInv'
<1> DEFINE op == IF pending[p] # {} THEN "deliver" ELSE "scan"
           x == [at[p] EXCEPT !.op = op]
<1>1. /\ thread[p] = "Runnable" /\ at[p].op = "asleep" /\ at[p] \in Positions /\ Sits(at[p])
      /\ UNCHANGED <<life, parent, thread, pending, jobVars, hung>>
    BY PositionFacts DEF WaitWoken, Runs
<1>2. x \in Positions
    BY <1>1, NextOpTyped, Zenon
<1>3. x.op = op /\ x.call = at[p].call /\ at' = [at EXCEPT ![p] = x]
    BY <1>1, Zenon DEF Positions, WaitWoken, IInv, TypeOK
<1>4. Sits(x) /\ ~Leaving(at[p])
    BY <1>1, <1>3 DEF Sits, Leaving
<1>5. Typed'
    BY <1>1 DEF WaitWoken, IInv, TypeOK, Typed, jobVars
<1> HIDE DEF x
<1>6. Quiet(p, x)
    BY <1>1, <1>2, <1>3, <1>4, <1>5, Zenon DEF Quiet
<1> QED BY <1>6, QuietStep

\* The end of stop.
LEMMA StopBlockKeeps ==
    ASSUME IInv, NEW p \in Procs, StopBlock(p)
    PROVE  IInv'
<1>1. /\ thread[p] = "Runnable" /\ at[p].op = "block"
      /\ thread' = [thread EXCEPT ![p] = "Stopped"] /\ at' = [at EXCEPT ![p] = Restarted(p)]
      /\ UNCHANGED <<life, parent, onQueue, pending, jobVars, hung>>
    BY DEF StopBlock, Runs
<1>2. Typed' /\ thread'[p] = "Stopped" /\ \A q \in Procs \ {p} : thread'[q] = thread[q]
    BY <1>1, Zenon DEF IInv, TypeOK, Typed, jobVars
<1>3. ~Leaving(at[p])
    BY <1>1 DEF Leaving
<1>4. Quiet(p, Restarted(p))
    BY <1>1, <1>2, <1>3, RestartedFacts, Zenon DEF Quiet
<1> QED BY <1>4, QuietStep

\* The end of resume.
LEMMA ResumeUnblockKeeps ==
    ASSUME IInv, NEW p \in Procs, ResumeUnblock(p)
    PROVE  IInv'
<1>1. /\ thread[p] = "Runnable" /\ at[p].op = "unblock" /\ thread' = Unblocked(at[p].of)
      /\ UNCHANGED <<life, parent, onQueue, pending, jobVars, hung>>
    BY Zenon DEF ResumeUnblock, Runs
<1> DEFINE x == IF at[p].sig = "none" THEN Restarted(p) ELSE [User EXCEPT !.op = "deliver"]
<1>2. at' = [at EXCEPT ![p] = x]
    BY DEF ResumeUnblock, Return
<1>3. x \in Positions /\ Sits(x) /\ x.op \in {"user", "scan", "deliver"}
    BY DeliverFacts, RestartedFacts
<1> HIDE DEF x
<1>4. /\ thread' \in [Procs -> {"none", "Runnable", "Blocked", "Stopped", "Zombie"}]
      /\ thread'[p] = "Runnable"
      /\ \A q \in Procs : \/ thread'[q] = thread[q]
                          \/ thread[q] \in {"Blocked", "Stopped"} /\ thread'[q] = "Runnable"
    BY <1>1, Zenon DEF IInv, TypeOK, Unblocked
<1>5. Typed'
    BY <1>1, <1>4, Zenon DEF IInv, TypeOK, Typed, jobVars
<1>6. ~Leaving(at[p])
    BY <1>1, Zenon DEF Leaving
<1>7. Quiet(p, x)
    BY <1>1, <1>2, <1>3, <1>4, <1>5, <1>6, Zenon DEF Quiet
<1> QED BY <1>7, QuietStep

\* sys_kill of one process.
LEMMA KillKeeps ==
    ASSUME IInv, NEW p \in Procs, NEW t \in Procs, NEW sig \in Signals, Kill(p, t, sig)
    PROVE  IInv'
<1> DEFINE x == [at[p] EXCEPT !.op = "raise", !.of = t, !.sig = sig]
<1>1. /\ thread[p] = "Runnable" /\ at[p].op = "user" /\ at[p] \in Positions
      /\ UNCHANGED <<life, parent, thread, onQueue, pending, jobVars, hung>>
    BY PositionFacts DEF Kill, Runs
<1>2. x \in Positions
    BY <1>1, Zenon DEF Positions
<1>3. x.op = "raise" /\ x.of = t /\ x.sig = sig /\ at' = [at EXCEPT ![p] = x]
    BY <1>1, ZenonT(60) DEF Positions, Kill, IInv, TypeOK
<1>4. Sits(x) /\ ~Leaving(at[p])
    BY <1>1, <1>3 DEF Sits, Leaving, Signals
<1>5. Typed'
    BY <1>1, Zenon DEF IInv, TypeOK, Typed, jobVars
<1> HIDE DEF x
<1>6. Quiet(p, x)
    BY <1>1, <1>2, <1>3, <1>4, <1>5, Zenon DEF Quiet
<1> QED BY <1>6, QuietStep

\* raise_signal cancels what the signal contradicts.
LEMMA RaiseCancelKeeps ==
    ASSUME IInv, NEW p \in Procs, RaiseCancel(p)
    PROVE  IInv'
<1> DEFINE x == [at[p] EXCEPT !.op = "set"]
<1>1. /\ thread[p] = "Runnable" /\ at[p].op = "raise" /\ at[p] \in Positions /\ Sits(at[p])
      /\ UNCHANGED <<life, parent, thread, onQueue, jobVars, hung>>
    BY PositionFacts, Zenon DEF RaiseCancel, Runs
<1>2. x \in Positions
    BY <1>1, NextOpTyped, Zenon
<1>3. x.op = "set" /\ x.of = at[p].of /\ x.sig = at[p].sig /\ at' = [at EXCEPT ![p] = x]
    BY <1>1, Zenon DEF Positions, RaiseCancel, IInv, TypeOK
<1>4. Sits(x) /\ ~Leaving(at[p])
    BY <1>1, <1>3 DEF Sits, Leaving
<1>5. pending' \in [Procs -> SUBSET Signals]
    BY Zenon DEF RaiseCancel, Cancelled, IInv, TypeOK
<1>6. Typed'
    BY <1>1, <1>5 DEF IInv, TypeOK, Typed, jobVars
<1> HIDE DEF x
<1>7. Quiet(p, x)
    BY <1>1, <1>2, <1>3, <1>4, <1>6, Zenon DEF Quiet
<1> QED BY <1>7, QuietStep

\* raise_signal sets the bit, resumes or unblocks.
LEMMA RaiseSetKeeps ==
    ASSUME IInv, NEW p \in Procs, RaiseSet(p)
    PROVE  IInv'
<1> DEFINE t == at[p].of
<1>1. /\ thread[p] = "Runnable" /\ at[p].op = "set" /\ at[p] \in Positions /\ Sits(at[p])
      /\ UNCHANGED <<life, parent, onQueue, hung>>
    BY PositionFacts, Zenon DEF RaiseSet, Runs
<1>2. t \in Procs /\ at[p].sig \in Signals /\ ~Leaving(at[p])
    BY <1>1, Zenon DEF Sits, Positions, Leaving
<1>3. pending' \in [Procs -> SUBSET Signals]
    BY <1>2, Zenon DEF RaiseSet, IInv, TypeOK
<1>4. CASE isStopped[t] /\ at[p].sig \in {"CONT", "KILL"}
  <2> DEFINE x == [at[p] EXCEPT !.op = "find", !.of = t, !.next = "unblock"]
  <2>1. MarkResumed(p, t) /\ UNCHANGED thread
    BY <1>4, Zenon DEF RaiseSet
  <2>2. x \in Positions
    BY <1>1, <1>2, NotifyTyped, Zenon
  <2>3. x.op = "find" /\ x.of = t /\ x.next = "unblock" /\ at' = [at EXCEPT ![p] = x]
    BY <1>1, <2>1, ZenonT(60) DEF Positions, MarkResumed, Notify, IInv, TypeOK
  <2>4. Sits(x)
    BY <1>2, <2>3 DEF Sits
  <2>5. Typed'
    BY <1>1, <1>2, <1>3, <2>1, Zenon DEF IInv, TypeOK, Typed, MarkResumed
  <2> HIDE DEF x
  <2>6. Quiet(p, x)
      BY <1>1, <1>2, <2>1, <2>2, <2>3, <2>4, <2>5, Zenon DEF Quiet
  <2> QED BY <2>6, QuietStep
<1>5. CASE ~(isStopped[t] /\ at[p].sig \in {"CONT", "KILL"})
  <2>1. /\ thread' = IF thread[t] = "Blocked" THEN Unblocked(t) ELSE thread
        /\ at' = [at EXCEPT ![p] = [User EXCEPT !.op = "deliver"]] /\ UNCHANGED jobVars
    BY <1>5, Zenon DEF RaiseSet, Return
  <2>2. /\ thread' \in [Procs -> {"none", "Runnable", "Blocked", "Stopped", "Zombie"}]
        /\ thread'[p] = "Runnable"
        /\ \A q \in Procs : \/ thread'[q] = thread[q]
                            \/ thread[q] \in {"Blocked", "Stopped"} /\ thread'[q] = "Runnable"
    BY <1>1, <2>1, Zenon DEF IInv, TypeOK, Unblocked
  <2>3. Typed'
    BY <1>1, <1>3, <2>1, <2>2, Zenon DEF IInv, TypeOK, Typed, jobVars
  <2>4. Quiet(p, [User EXCEPT !.op = "deliver"])
      BY <1>1, <1>2, <2>1, <2>2, <2>3, DeliverFacts, Zenon DEF Quiet
  <2> QED BY <2>4, QuietStep
<1> QED BY <1>4, <1>5, Zenon

\* sys_kill of every process.
LEMMA KillAllKeeps ==
    ASSUME IInv, NEW p \in Procs, NEW sig \in Signals, KillAll(p, sig)
    PROVE  IInv'
<1>1. /\ thread[p] = "Runnable" /\ at[p].op = "user" /\ at[p] \in Positions /\ Sits(at[p])
      /\ UNCHANGED <<life, parent, onQueue, jobVars>>
    BY PositionFacts, Zenon DEF KillAll, Runs
<1>2. ~Leaving(at[p])
    BY <1>1, Zenon DEF Leaving
<1>3. CASE hung' = TRUE /\ UNCHANGED <<pending, thread, at>>
  <2>1. Typed' /\ at' = [at EXCEPT ![p] = at[p]]
    BY <1>1, <1>3, Zenon DEF IInv, TypeOK, Typed, jobVars
  <2>2. Quiet(p, at[p])
      BY <1>1, <1>2, <1>3, <2>1, Zenon DEF Quiet
  <2> QED BY <2>2, QuietStep
<1>4. CASE ~(hung' = TRUE /\ UNCHANGED <<pending, thread, at>>)
  <2> DEFINE targets == {t \in Table : t \notin {p, Pid1}}
  <2>1. /\ pending' = [t \in Procs |-> IF t \in targets
                          THEN Cancelled(pending[t], sig) \cup {sig} ELSE pending[t]]
        /\ thread' = [t \in Procs |-> IF t \in targets /\ thread[t] = "Blocked"
                                      THEN "Runnable" ELSE thread[t]]
        /\ at' = [at EXCEPT ![p] = [User EXCEPT !.op = "deliver"]] /\ UNCHANGED hung
    BY <1>4 DEF KillAll, Return
  <2> HIDE DEF targets
  <2>2. pending' \in [Procs -> SUBSET Signals]
    BY <2>1 DEF Cancelled, IInv, TypeOK
  <2>3. /\ thread' \in [Procs -> {"none", "Runnable", "Blocked", "Stopped", "Zombie"}]
        /\ thread'[p] = "Runnable"
        /\ \A q \in Procs : \/ thread'[q] = thread[q]
                            \/ thread[q] \in {"Blocked", "Stopped"} /\ thread'[q] = "Runnable"
    BY <1>1, <2>1, Zenon DEF IInv, TypeOK
  <2>4. Typed'
    BY <1>1, <2>1, <2>2, <2>3, Zenon DEF IInv, TypeOK, Typed, jobVars
  <2>5. Quiet(p, [User EXCEPT !.op = "deliver"])
      BY <1>1, <1>2, <2>1, <2>3, <2>4, DeliverFacts, Zenon DEF Quiet
  <2> QED BY <2>5, QuietStep
<1> QED BY <1>3, <1>4, Zenon

\* deliver_pending_signal, with nothing to deliver.
LEMMA DeliverNoneKeeps ==
    ASSUME IInv, NEW p \in Procs, DeliverNone(p)
    PROVE  IInv'
<1>1. /\ thread[p] = "Runnable" /\ at[p].op = "deliver" /\ at' = [at EXCEPT ![p] = User]
      /\ UNCHANGED <<life, parent, thread, onQueue, pending, jobVars, hung>>
    BY DEF DeliverNone, Runs
<1>2. User \in Positions /\ User.op = "user" /\ Sits(User)
    BY Zenon DEF Positions, User, NoCall, Sits
<1>3. Typed' /\ ~Leaving(at[p])
    BY <1>1, Zenon DEF IInv, TypeOK, Typed, jobVars, Leaving
<1>4. Quiet(p, User)
    BY <1>1, <1>2, <1>3, Zenon DEF Quiet
<1> QED BY <1>4, QuietStep

\* Process::create
LEMMA ForkKeeps ==
    ASSUME IInv, NEW p \in Procs, NEW c \in Procs, Fork(p, c)
    PROVE  IInv'
<1> USE DEF Fork, Runs, jobVars
<1>1. /\ thread[p] = "Runnable" /\ life[p] = "live" /\ thread[c] = "none" /\ c # p
      /\ life[c] = "unused" /\ c # Pid1
    BY RunnerIsLive, Zenon DEF IInv, TypeOK, LivesRight, Leaving
<1>2. /\ life' = [life EXCEPT ![c] = "live"] /\ parent' = [parent EXCEPT ![c] = p]
      /\ at' = [at EXCEPT ![p] = [at[p] EXCEPT !.op = "fork", !.of = c]]
      /\ thread' = thread
    BY Zenon DEF IInv, TypeOK, Positions
<1>3. [at[p] EXCEPT !.op = "fork", !.of = c] \in Positions
    BY PositionFacts, MovedTyped, Zenon
<1>4. Table' = Table \cup {c} /\ c \notin Table
    BY <1>1, <1>2 DEF IInv, TypeOK, Table
<1>5. TypeOK'
    BY <1>2, <1>3 DEF IInv, TypeOK
<1>6. /\ \A q \in Procs \ {p} : at'[q] = at[q]
      /\ at'[p].op = "fork" /\ at'[p].of = c /\ at[p].op = "user"
    BY <1>2 DEF IInv, TypeOK, Positions
<1> HIDE DEF Fork, Runs
<1>7. Placed'
    BY <1>6, Zenon DEF IInv, Placed, Sits
<1>8. LivesRight'
    BY <1>1, <1>2, <1>6 DEF IInv, TypeOK, LivesRight, Leaving
<1>9. Forked'
    BY <1>1, <1>2, <1>6 DEF IInv, TypeOK, Forked, Placed, Sits
<1>10. Found'
    BY <1>1, <1>2, <1>4, <1>6 DEF IInv, TypeOK, Found, FinishedIsMine
<1>11. ParentKnown'
    BY <1>2, <1>4 DEF IInv, TypeOK, ParentKnown
<1>12. OrphansAdopted'
    BY <1>1, <1>2, <1>4, <1>6, NoProcAssumption DEF IInv, TypeOK, ParentKnown, OrphansAdopted
<1>13. WaiterHasChild'
    BY <1>2, <1>4, <1>6, SMTT(60) DEF IInv, TypeOK, WaiterHasChild, Matching
<1> QED BY <1>5, <1>7, <1>8, <1>9, <1>10, <1>11, <1>12, <1>13 DEF IInv

\* sys_fork makes the child's thread, or fails to.
LEMMA ForkReturnKeeps ==
    ASSUME IInv, NEW p \in Procs, ForkReturn(p)
    PROVE  IInv'
<1> USE DEF ForkReturn, Runs, jobVars, Return, User
<1> DEFINE c == at[p].of
<1>1. /\ thread[p] = "Runnable" /\ at[p].op = "fork" /\ c \in Procs /\ c # p
      /\ life[c] = "live" /\ thread[c] = "none" /\ parent[c] = p /\ ~Leaving(at[p])
    BY Zenon DEF IInv, Placed, Sits, Forked, Leaving
<1>2. /\ UNCHANGED <<life, parent>>
      /\ at' = [at EXCEPT ![p] = [User EXCEPT !.op = "deliver"]]
      /\ \A q \in Procs \ {c} : thread'[q] = thread[q]
      /\ thread'[c] \in {"none", "Runnable"}
    BY <1>1, Zenon DEF IInv, TypeOK
<1>3. [User EXCEPT !.op = "deliver"] \in Positions
    BY DEF Positions, NoCall
<1>4. TypeOK'
    BY <1>1, <1>2, <1>3, SMTT(60) DEF IInv, TypeOK
<1>5. (\A q \in Procs \ {p} : at'[q] = at[q]) /\ at'[p].op = "deliver"
    BY <1>2 DEF IInv, TypeOK
<1> HIDE DEF c, ForkReturn, Runs, Return, User
<1>6. Placed'
    BY <1>5, Zenon DEF IInv, Placed, Sits
<1>7. LivesRight'
    BY <1>1, <1>2, <1>5 DEF IInv, TypeOK, LivesRight, Leaving
<1>8. Forked'
    BY <1>1, <1>2, <1>5, SMTT(60) DEF IInv, TypeOK, Forked, Placed, Sits
<1>9. Found' /\ ParentKnown'
    BY <1>2, <1>5 DEF IInv, Found, FinishedIsMine, ParentKnown, Table
<1>10. OrphansAdopted'
    BY <1>1, <1>2, <1>5 DEF IInv, ParentKnown, OrphansAdopted, Table
<1>11. WaiterHasChild'
    BY <1>2, <1>5 DEF IInv, WaiterHasChild, Matching, Table
<1> QED BY <1>4, <1>6, <1>7, <1>8, <1>9, <1>10, <1>11 DEF IInv

\* mark_exited, from sys_exit or from a fatal signal.
LEMMA MarkExitedKeeps ==
    ASSUME IInv, NEW p \in Procs, thread[p] = "Runnable", at[p].op \in {"user", "deliver"},
           MarkExited(p), UNCHANGED <<parent, thread>>, TypeOK'
    PROVE  IInv'
<1>1. life[p] = "live" /\ p # Pid1
    BY RunnerIsLive DEF Leaving, MarkExited
<1>2. life' = [life EXCEPT ![p] = "exited"] /\ Table' = Table
    BY <1>1 DEF IInv, TypeOK, MarkExited, Table
<1>3. (\A q \in Procs \ {p} : at'[q] = at[q]) /\ at'[p].op = "reparent"
    BY DEF IInv, TypeOK, MarkExited, User
<1>4. Placed'
    BY <1>3, ZenonT(60) DEF IInv, Placed, Sits
<1>5. LivesRight'
    BY <1>1, <1>2, <1>3, SMTT(60) DEF IInv, TypeOK, LivesRight, Leaving
<1>6. Forked'
    BY <1>2, <1>3, SMTT(60) DEF IInv, TypeOK, Forked, Placed, Sits
<1>7. Found'
    BY <1>1, <1>2, <1>3, SMTT(60) DEF IInv, TypeOK, Found, FinishedIsMine, Placed, Sits
<1>8. ParentKnown'
    BY <1>2, Zenon DEF IInv, ParentKnown
<1>9. OrphansAdopted'
    BY <1>2, <1>3, SMTT(60) DEF IInv, TypeOK, ParentKnown, OrphansAdopted
<1>10. WaiterHasChild'
    BY <1>2, <1>3, Zenon DEF IInv, WaiterHasChild, Matching
<1> QED BY <1>4, <1>5, <1>6, <1>7, <1>8, <1>9, <1>10, Zenon DEF IInv

\* sys_exit.
LEMMA ExitKeeps ==
    ASSUME IInv, NEW p \in Procs, Exit(p)
    PROVE  IInv'
<1>1. thread[p] = "Runnable" /\ at[p].op = "user" /\ MarkExited(p) /\ UNCHANGED <<parent, thread>>
    BY DEF Exit, Runs
<1>2. [User EXCEPT !.op = "reparent"] \in Positions
    BY DEF Positions, User, NoCall
<1>3. TypeOK'
    BY <1>2 DEF IInv, TypeOK, Exit, MarkExited, jobVars
<1> QED BY <1>1, <1>3, MarkExitedKeeps

\* The children of a process that exits go to pid 1.
LEMMA ReparentKeeps ==
    ASSUME IInv, NEW p \in Procs, Reparent(p)
    PROVE  IInv'
<1> USE DEF Reparent, Runs, Notify, jobVars
<1>1. thread[p] = "Runnable" /\ at[p].op = "reparent" /\ UNCHANGED <<life, thread>>
    OBVIOUS
<1>2. at' = [at EXCEPT ![p] = [at[p] EXCEPT !.op = "find", !.of = p, !.next = "exit"]]
    BY Zenon DEF IInv, TypeOK, Positions
<1>3. [at[p] EXCEPT !.op = "find", !.of = p, !.next = "exit"] \in Positions
    BY PositionFacts, NotifyTyped, Zenon
<1>4. /\ \A q \in Procs \ {p} : at'[q] = at[q]
      /\ at'[p].op = "find" /\ at'[p].of = p /\ at'[p].next = "exit"
    BY <1>2 DEF IInv, TypeOK, Positions
<1>5. \A c \in Procs : parent'[c] = IF c \in Table /\ parent[c] = p THEN Pid1 ELSE parent[c]
    OBVIOUS
<1>6. TypeOK'
    BY <1>2, <1>3, Pid1Assumption DEF IInv, TypeOK
<1>7. Table' = Table
    BY DEF Table
<1> HIDE DEF Reparent, Runs, Notify
<1>8. Placed'
    BY <1>4, ZenonT(60) DEF IInv, Placed, Sits
<1>9. LivesRight'
    BY <1>1, <1>4, ZenonT(60) DEF IInv, TypeOK, LivesRight, Leaving
<1>10. Forked'
    BY <1>1, <1>4, <1>5, SMTT(60) DEF IInv, TypeOK, Forked, Placed, Sits
<1>11. Found'
    BY <1>1, <1>4, <1>5, <1>7, SMTT(60) DEF IInv, TypeOK, Found, FinishedIsMine, Placed, Sits
<1>12. ParentKnown'
    BY <1>5, <1>7, Pid1Assumption, Zenon DEF IInv, ParentKnown, Table
<1>13. OrphansAdopted'
    BY <1>1, <1>4, <1>5, <1>7, Pid1Assumption, SMTT(60) DEF IInv, ParentKnown, OrphansAdopted, LivesRight, Table
<1>14. WaiterHasChild'
    BY <1>1, <1>4, <1>5, <1>7, SMTT(60) DEF IInv, WaiterHasChild, Matching, Table
<1> QED BY <1>6, <1>8, <1>9, <1>10, <1>11, <1>12, <1>13, <1>14, Zenon DEF IInv

\* A scan finds a child of the caller, and one it calls finished has exited
LEMMA ScanKeeps ==
    ASSUME IInv, NEW p \in Procs, Scan(p)
    PROVE  IInv'
<1>1. /\ thread[p] = "Runnable" /\ at[p].op = "scan" /\ at[p].call \in WaitCalls
      /\ UNCHANGED <<life, parent, thread, onQueue, pending, jobVars, hung>>
    BY Zenon DEF IInv, Placed, Sits, Scan, Runs
<1>2. Table' = Table
    BY <1>1 DEF Table
<1>3. CASE \E c \in Matching(p, at[p].call) :
            \E op \in {"changed", "finished"} :
                /\ at' = [at EXCEPT ![p] = [at[p] EXCEPT !.op = op, !.to = c]]
                /\ op = "finished" => life[c] = "exited"
  <2> PICK c \in Matching(p, at[p].call), op \in {"changed", "finished"} :
            /\ at' = [at EXCEPT ![p] = [at[p] EXCEPT !.op = op, !.to = c]]
            /\ op = "finished" => life[c] = "exited"
    BY <1>3, Zenon
  <2>1. c \in Table /\ parent[c] = p /\ c \in Procs
    BY DEF Matching, Table
  <2>2. [at[p] EXCEPT !.op = op, !.to = c] \in Positions
    BY <2>1, PositionFacts, NotifyTyped, Zenon
  <2>3. TypeOK'
    BY <1>1, <2>2, Zenon DEF IInv, TypeOK, jobVars
  <2>4. /\ \A q \in Procs \ {p} : at'[q] = at[q]
        /\ at'[p].op = op /\ at'[p].to = c
    BY DEF IInv, TypeOK, Positions
  <2>5. Placed'
    BY <2>1, <2>4, SMTT(60) DEF IInv, Placed, Sits
  <2>6. LivesRight'
    BY <1>1, <2>4, ZenonT(60) DEF IInv, TypeOK, LivesRight, Leaving
  <2>7. Forked'
    BY <1>1, <2>4 DEF IInv, Forked
  <2>8. Found'
    BY <1>1, <1>2, <2>1, <2>4, SMTT(60) DEF IInv, Found, FinishedIsMine
  <2>9. ParentKnown'
    BY <1>1, <1>2 DEF IInv, ParentKnown
  <2>10. OrphansAdopted'
    BY <1>1, <1>2, <2>4 DEF IInv, ParentKnown, OrphansAdopted
  <2>11. WaiterHasChild'
    BY <1>1, <1>2, <2>4, ZenonT(60) DEF IInv, WaiterHasChild, Matching
  <2> QED BY <2>3, <2>5, <2>6, <2>7, <2>8, <2>9, <2>10, <2>11 DEF IInv
<1>4. CASE at' = [at EXCEPT ![p] = [User EXCEPT !.op = "deliver"]]
  <2>1. Typed'
    BY <1>1, Zenon DEF IInv, TypeOK, Typed, jobVars
  <2>2. Quiet(p, [User EXCEPT !.op = "deliver"])
    BY <1>1, <1>4, <2>1, DeliverFacts DEF Quiet, Leaving
  <2> QED BY <2>2, QuietStep
<1>5. CASE /\ at' = [at EXCEPT ![p] = [at[p] EXCEPT !.op = "link"]]
           /\ Matching(p, at[p].call) # {}
  <2>1. [at[p] EXCEPT !.op = "link"] \in Positions
    BY PositionFacts, NextOpTyped, Zenon
  <2>2. TypeOK'
    BY <1>1, <1>5, <2>1 DEF IInv, TypeOK, jobVars
  <2>3. /\ \A q \in Procs \ {p} : at'[q] = at[q]
        /\ at'[p].op = "link" /\ at'[p].call = at[p].call
    BY <1>5 DEF IInv, TypeOK, Positions
  <2>4. Placed'
    BY <1>1, <2>3, ZenonT(60) DEF IInv, Placed, Sits
  <2>5. LivesRight'
    BY <1>1, <2>3, ZenonT(60) DEF IInv, TypeOK, LivesRight, Leaving
  <2>6. Forked' /\ Found' /\ ParentKnown'
    BY <1>1, <1>2, <2>3, SMTT(60) DEF IInv, Forked, Found, FinishedIsMine, ParentKnown
  <2>7. OrphansAdopted'
    BY <1>1, <1>2, <2>3, Zenon DEF IInv, ParentKnown, OrphansAdopted
  <2>8. WaiterHasChild'
    BY <1>1, <1>2, <1>5, <2>3 DEF IInv, WaiterHasChild, Matching
  <2> QED BY <2>2, <2>4, <2>5, <2>6, <2>7, <2>8 DEF IInv
<1>6. \/ \E c \in Matching(p, at[p].call) :
            at' = [at EXCEPT ![p] = [at[p] EXCEPT !.op = "changed", !.to = c]]
      \/ \E c \in Matching(p, at[p].call) : life[c] = "exited" /\
            at' = [at EXCEPT ![p] = [at[p] EXCEPT !.op = "finished", !.to = c]]
      \/ at' = [at EXCEPT ![p] = [User EXCEPT !.op = "deliver"]]
      \/ /\ at' = [at EXCEPT ![p] = [at[p] EXCEPT !.op = "link"]]
         /\ Matching(p, at[p].call) # {}
    BY ZenonT(60) DEF Scan, Return, IInv, TypeOK, Positions
<1> QED BY <1>3, <1>4, <1>5, <1>6, Zenon

\* Only its parent takes a process off the table, once it has exited
LEMMA ReapKeeps ==
    ASSUME IInv, NEW p \in Procs, Reap(p)
    PROVE  IInv'
<1> DEFINE c == at[p].to
<1>1. /\ thread[p] = "Runnable" /\ at[p].op = "finished" /\ c \in Procs
      /\ life[c] = "exited" /\ parent[c] = p /\ c # Pid1 /\ life' = [life EXCEPT ![c] = "freed"]
      /\ UNCHANGED <<parent, thread, onQueue, pending, jobVars, hung>>
    BY Zenon DEF IInv, Placed, Sits, Found, FinishedIsMine, LivesRight, Reap, Runs
<1>2. [User EXCEPT !.op = "deliver"] \in Positions
    BY DEF Positions, User, NoCall
<1>3. at' = [at EXCEPT ![p] = [User EXCEPT !.op = "deliver"]]
    BY DEF Reap, Return
<1>4. TypeOK'
    BY <1>1, <1>2, <1>3, Zenon DEF IInv, TypeOK, jobVars
<1>5. (\A q \in Procs \ {p} : at'[q] = at[q]) /\ at'[p].op = "deliver"
    BY <1>3 DEF IInv, TypeOK, User
<1>6. Table' = Table \ {c}
    BY <1>1, Zenon DEF IInv, TypeOK, Table
<1> HIDE DEF c
<1>7. Placed'
    BY <1>5, Zenon DEF IInv, Placed, Sits
<1>8. LivesRight'
    BY <1>1, <1>5, SMTT(60) DEF IInv, TypeOK, LivesRight, Leaving
<1>9. Forked'
    BY <1>1, <1>5, SMTT(60) DEF IInv, TypeOK, Forked, Placed, Sits
<1>10. Found'
    BY <1>1, <1>5, <1>6, SMTT(60) DEF IInv, TypeOK, Found, FinishedIsMine, Placed, Sits
<1>11. ParentKnown'
    BY <1>1, <1>6, Zenon DEF IInv, ParentKnown
<1>12. OrphansAdopted'
    BY <1>1, <1>5, <1>6, SMTT(60) DEF IInv, TypeOK, ParentKnown, OrphansAdopted
<1>13. WaiterHasChild'
    BY <1>1, <1>5, <1>6, SMTT(60) DEF IInv, WaiterHasChild, Matching
<1> QED BY <1>4, <1>7, <1>8, <1>9, <1>10, <1>11, <1>12, <1>13, Zenon DEF IInv

\* deliver_pending_signal ends, stops or continues the process or returns to it.
LEMMA DeliverKeeps ==
    ASSUME IInv, NEW p \in Procs, Deliver(p)
    PROVE  IInv'
<1>1. /\ thread[p] = "Runnable" /\ at[p].op = "deliver"
      /\ UNCHANGED <<parent, thread, onQueue, hung>>
    BY Zenon DEF Deliver, Runs
<1>2. pending' \in [Procs -> SUBSET Signals]
    BY Zenon DEF Deliver, IInv, TypeOK
<1>3. CASE MarkExited(p) /\ UNCHANGED jobVars
  <2>1. [User EXCEPT !.op = "reparent"] \in Positions
    BY DEF Positions, User, NoCall
  <2>2. TypeOK'
    BY <1>1, <1>2, <1>3, <2>1 DEF IInv, TypeOK, MarkExited, jobVars
  <2> QED BY <1>1, <1>3, <2>2, MarkExitedKeeps, Zenon
<1>4. ASSUME NEW next \in {"block", "unblock"}, UNCHANGED life,
             at' = [at EXCEPT ![p] = [at[p] EXCEPT !.op = "find", !.of = p, !.next = next]],
             isStopped' \in [Procs -> BOOLEAN], stopPending' \in [Procs -> BOOLEAN],
             continuePending' \in [Procs -> BOOLEAN]
      PROVE  IInv'
  <2> DEFINE x == [at[p] EXCEPT !.op = "find", !.of = p, !.next = next]
  <2>1. x \in Positions
    BY PositionFacts, NotifyTyped, Zenon
  <2>2. x.op = "find" /\ x.of = p /\ x.next = next /\ at' = [at EXCEPT ![p] = x]
    BY <1>4, PositionFacts DEF Positions
  <2>3. Sits(x)
    BY <2>2 DEF Sits
  <2>4. Typed'
    BY <1>1, <1>2, <1>4 DEF IInv, TypeOK, Typed
  <2> HIDE DEF x
  <2>5. Quiet(p, x)
    BY <1>1, <1>4, <2>1, <2>2, <2>3, <2>4, Zenon DEF Quiet, Leaving
  <2> QED BY <2>5, QuietStep
<1>5. CASE at' = [at EXCEPT ![p] = Restarted(p)] /\ UNCHANGED <<life, jobVars>>
  <2>1. Typed'
    BY <1>1, <1>2, <1>5, Zenon DEF IInv, TypeOK, Typed, jobVars
  <2>2. Quiet(p, Restarted(p))
    BY <1>1, <1>5, <2>1, RestartedFacts, Zenon DEF Quiet, Leaving
  <2> QED BY <2>2, QuietStep
<1>6. ASSUME \/ MarkStopped(p) /\ UNCHANGED life
             \/ MarkResumed(p, p) /\ UNCHANGED life
      PROVE  IInv'
  <2>1. \E next \in {"block", "unblock"} :
            at' = [at EXCEPT ![p] = [at[p] EXCEPT !.op = "find", !.of = p, !.next = next]]
    BY <1>6, ZenonT(60) DEF MarkStopped, MarkResumed, Notify, IInv, TypeOK, Positions
  <2>2. /\ isStopped' \in [Procs -> BOOLEAN] /\ stopPending' \in [Procs -> BOOLEAN]
        /\ continuePending' \in [Procs -> BOOLEAN] /\ UNCHANGED life
    BY <1>6, Zenon DEF MarkStopped, MarkResumed, IInv, TypeOK
  <2> QED BY <1>4, <2>1, <2>2, Zenon
<1> QED BY <1>3, <1>5, <1>6, Zenon DEF Deliver

\* Every step of every process keeps the invariant.
LEMMA InductiveStep == IInv /\ [Next]_vars => IInv'
<1> SUFFICES ASSUME IInv, [Next]_vars PROVE IInv'
    OBVIOUS
<1>1. CASE UNCHANGED vars
  <2>1. TypeOK' /\ Placed'
    BY <1>1, Zenon DEF vars, IInv, TypeOK, Placed, Sits
  <2>2. LivesRight' /\ Forked'
    BY <1>1, Zenon DEF vars, IInv, LivesRight, Leaving, Forked
  <2>3. Table' = Table
    BY <1>1, Zenon DEF vars, Table
  <2>4. Found' /\ ParentKnown' /\ OrphansAdopted'
    BY <1>1, <2>3, Zenon DEF vars, IInv, Found, FinishedIsMine, ParentKnown, OrphansAdopted
  <2>5. WaiterHasChild'
    BY <1>1, <2>3, Zenon DEF vars, IInv, WaiterHasChild, Matching
  <2> QED BY <2>1, <2>2, <2>4, <2>5, Zenon DEF IInv
<1>2. ASSUME NEW p \in Procs, Step(p) PROVE IInv'
  <2>1. ASSUME \/ OtherCall(p) \/ \E c \in Procs : Fork(p, c)
               \/ ForkReturn(p) \/ FindParent(p) \/ RaiseSigchld(p) \/ WakeParent(p)
        PROVE  IInv'
    BY <2>1, OtherCallKeeps, ForkKeeps, ForkReturnKeeps, FindParentKeeps, RaiseSigchldKeeps,
       WakeParentKeeps, Zenon
  <2>2. ASSUME \/ Exit(p) \/ Reparent(p) \/ ExitThread(p)
               \/ \E call \in WaitCalls : Waitpid(p, call)
               \/ Scan(p) \/ ReportChange(p) \/ Reap(p)
        PROVE  IInv'
    BY <2>2, ExitKeeps, ReparentKeeps, ExitThreadKeeps, WaitpidKeeps, ScanKeeps,
       ReportChangeKeeps, ReapKeeps, Zenon
  <2>3. ASSUME \/ WaitLink(p) \/ WaitBlock(p) \/ WaitWoken(p)
               \/ StopBlock(p) \/ ResumeUnblock(p)
        PROVE  IInv'
    BY <2>3, WaitLinkKeeps, WaitBlockKeeps, WaitWokenKeeps, StopBlockKeeps, ResumeUnblockKeeps, Zenon
  <2>4. ASSUME NEW t \in Procs, NEW sig \in Killable, Kill(p, t, sig)
        PROVE  IInv'
    BY <2>4, KillKeeps, KillableAssumption
  <2>5. ASSUME NEW sig \in Broadcast, KillAll(p, sig)
        PROVE  IInv'
    BY <2>5, KillAllKeeps, BroadcastAssumption
  <2>6. ASSUME RaiseCancel(p) \/ RaiseSet(p) \/ DeliverNone(p) \/ Deliver(p)
        PROVE  IInv'
    BY <2>6, RaiseCancelKeeps, RaiseSetKeeps, DeliverNoneKeeps, DeliverKeeps, Zenon
  <2> QED BY <1>2, <2>1, <2>2, <2>3, <2>4, <2>5, <2>6, Zenon DEF Step
<1> QED BY <1>1, <1>2 DEF Next

\* The invariant holds in every reachable state.
THEOREM InvariantHolds == Spec => []IInv
BY InitOK, InductiveStep, PTL DEF Spec

\* "Orphans are reparented to pid 1", and waitpid sleeps only for a child
\* there is: reap_child, exit_current and sys_fork, however they interleave.
THEOREM FamilyIsSound == Spec => []FamilySound
<1>1. IInv => FamilySound
    BY DEF IInv, FamilySound
<1> QED BY <1>1, InvariantHolds, PTL

\* The child reap_child found under s_process_lock is still the caller's, and
\* in the table, when it is freed after the lock was released.
THEOREM ReapedIsMine == Spec => []FinishedIsMine
<1>1. IInv => FinishedIsMine
    BY DEF IInv, Found
<1> QED BY <1>1, InvariantHolds, PTL

\* From mark_exited to exit_current nothing suspends the thread: neither stop
\* nor a wait leaves an exited process's thread behind.
THEOREM ExitIsPrompt == Spec => []ExitNeverSleeps
<1>1. IInv => ExitNeverSleeps
    BY Zenon DEF IInv, LivesRight, ExitNeverSleeps
<1> QED BY <1>1, InvariantHolds, PTL
=============================================================================
