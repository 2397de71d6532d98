-------------------------------- MODULE Poll ---------------------------------
(***************************************************************************)
(* sys_poll, sys_nanosleep (kernel/sys/syscall.cpp) and the poll queue: a  *)
(* process looks at its descriptors one after the other while devices and  *)
(* other processes make them ready and unready, then sleeps until          *)
(* something happens, a deadline passes or a signal comes.                 *)
(*                                                                         *)
(* A device changes a descriptor first and calls wake_all afterwards.      *)
(* m_generation is only compared with the value read before, so it is      *)
(* modelled by `seen': unchanged since.  wait_since links the thread in    *)
(* one critical section and blocks it in another; a wake between the two   *)
(* takes it off the list and does not find it blocked, and it then blocks  *)
(* `adrift', on no list, until a signal comes (module WaitQueue).  Time is *)
(* counted in ticks of 4 ms.                                               *)
(***************************************************************************)
EXTENDS Integers, FiniteSets, TLAPS

CONSTANTS
    Fds,        \* descriptors asked about
    MaxTimeout  \* longest timeout, in ticks

VARIABLES
    ready,      \* fd -> "no", "yes", "hup" or "closed"
    announce,   \* fds whose wake_all is still to come
    at,         \* "out", "scan", "scanned", "linked", "unlinked", "sleeping", "adrift",
                \* "nap", "slept", "nano", "slice"
    timeout,    \* -1 none, 0 do not wait, > 0 ticks
    left,       \* ticks to the deadline
    seen,       \* the generation is the one read
    todo,       \* entries not yet looked at
    revents,    \* fd -> what poll_one reported
    signalled,  \* has_pending_signals()
    result      \* "none", "ready", "timeout" or "eintr"

pvars == <<ready, announce, at, timeout, left, seen, todo, revents, signalled, result>>

None == [f \in Fds |-> "no"]

PInit ==
    /\ ready \in [Fds -> {"no", "closed"}]
    /\ announce = {} /\ at = "out" /\ timeout = 0 /\ left = 0
    /\ seen = FALSE /\ todo = {} /\ revents = None
    /\ signalled = FALSE /\ result = "none"

\* A driver, a peer or a closing writer changes what a descriptor reports.
Change ==
    /\ \E f \in Fds, how \in {"no", "yes", "hup"} :
         /\ ready[f] \notin {"closed", "hup", how}
         /\ ready' = [ready EXCEPT ![f] = how]
         /\ announce' = IF how = "no" THEN announce ELSE announce \cup {f}
    /\ UNCHANGED <<at, timeout, left, seen, todo, revents, signalled, result>>

\* WaitQueue::wake_all, which ends with poll_queue().wake_all().
WakeAll ==
    /\ \E f \in announce : announce' = announce \ {f}
    /\ seen' = FALSE
    /\ at' = IF at = "sleeping" THEN "slept" ELSE IF at = "linked" THEN "unlinked" ELSE at
    /\ UNCHANGED <<ready, timeout, left, todo, revents, signalled, result>>

\* A slice of nanosleep ends.
Roused == IF at = "nano" THEN "slice" ELSE at

\* raise_signal unblocks a process that waits or sleeps.
RaiseSignal ==
    /\ ~signalled /\ signalled' = TRUE
    /\ at' = IF at \in {"sleeping", "adrift", "nap"} THEN "slept" ELSE Roused
    /\ UNCHANGED <<ready, announce, timeout, left, seen, todo, revents, result>>

\* A tick: the sleeper list lets a napping thread go.
Tick ==
    /\ left > 0 /\ left' = left - 1
    /\ at' = IF at = "nap" THEN "slept" ELSE Roused
    /\ UNCHANGED <<ready, announce, timeout, seen, todo, revents, signalled, result>>

-----------------------------------------------------------------------------

sys_poll ==
    /\ at = "out" /\ ~signalled
    /\ timeout' \in (-1)..MaxTimeout
    /\ left' = IF timeout' > 0 THEN timeout' ELSE 0
    /\ at' = "scan" /\ seen' = TRUE /\ todo' = Fds
    /\ revents' = None /\ result' = "none"
    /\ UNCHANGED <<ready, announce, signalled>>

poll_one(f) ==
    /\ at = "scan" /\ f \in todo
    /\ \A g \in todo : f <= g
    /\ revents' = [revents EXCEPT ![f] = ready[f]]
    /\ todo' = todo \ {f}
    /\ UNCHANGED <<ready, announce, at, timeout, left, seen, signalled, result>>

Return(what) == at' = "out" /\ result' = what /\ left' = 0 /\ seen' = FALSE

\* A bug: the generation is read after the descriptors.
DecideReadsLate ==
    /\ at = "scan" /\ todo = {}
    /\ IF revents # None THEN Return("ready")
       ELSE IF timeout >= 0 /\ left = 0 THEN Return("timeout")
       ELSE at' = "scanned" /\ seen' = TRUE /\ UNCHANGED <<result, left>>
    /\ UNCHANGED <<ready, announce, timeout, todo, revents, signalled>>

\* After the loop: ready, out of time, or asleep.
Decide ==
    /\ at = "scan" /\ todo = {}
    /\ IF revents # None THEN Return("ready")
       ELSE IF timeout >= 0 /\ left = 0 THEN Return("timeout")
       ELSE /\ at' = "scanned" /\ UNCHANGED <<result, left, seen>>
    /\ UNCHANGED <<ready, announce, timeout, todo, revents, signalled>>

\* sleep_ms(4), or wait_since(seen), which returns at once if anything happened.
Sleep ==
    /\ at = "scanned"
    /\ at' = IF timeout > 0 THEN "nap" ELSE IF seen THEN "linked" ELSE "slept"
    /\ UNCHANGED <<ready, announce, timeout, left, seen, todo, revents, signalled, result>>

\* block_current, whatever happened since the thread was linked.
Block ==
    /\ at \in {"linked", "unlinked"}
    /\ at' = IF at = "linked" THEN "sleeping" ELSE "adrift"
    /\ UNCHANGED <<ready, announce, timeout, left, seen, todo, revents, signalled, result>>

\* A bug: woken, it goes back to sleep without looking again.
AgainAsleep ==
    /\ at = "slept"
    /\ IF signalled
       THEN Return("eintr") /\ UNCHANGED <<todo, revents>>
       ELSE at' = "scanned" /\ UNCHANGED <<seen, todo, revents, result, left>>
    /\ UNCHANGED <<ready, announce, timeout, signalled>>

Again ==
    /\ at = "slept"
    /\ IF signalled
       THEN Return("eintr") /\ UNCHANGED <<todo, revents>>
       ELSE /\ at' = "scan" /\ seen' = TRUE /\ todo' = Fds /\ revents' = None
            /\ UNCHANGED <<result, left>>
    /\ UNCHANGED <<ready, announce, timeout, signalled>>

\* A nap with nothing left to wait for ends with the tick that is due.
NapEnds ==
    /\ at = "nap" /\ left = 0 /\ at' = "slept"
    /\ UNCHANGED <<ready, announce, timeout, left, seen, todo, revents, signalled, result>>

\* The signal is delivered on the way out.
Delivered ==
    /\ at = "out" /\ signalled /\ signalled' = FALSE
    /\ UNCHANGED <<ready, announce, at, timeout, left, seen, todo, revents, result>>

sys_nanosleep ==
    /\ at = "out" /\ ~signalled
    /\ left' \in 1..MaxTimeout
    /\ at' = "nano" /\ timeout' = left' /\ result' = "none" /\ revents' = None
    /\ UNCHANGED <<ready, announce, seen, todo, signalled>>

\* After each slice the signals first, then the deadline.
NanoSlice ==
    /\ at = "slice"
    /\ IF signalled THEN Return("eintr")
       ELSE IF left = 0 THEN Return("timeout")
       ELSE at' = "nano" /\ UNCHANGED <<result, left, seen>>
    /\ UNCHANGED <<ready, announce, timeout, todo, revents, signalled>>

PProcess ==
    \/ sys_poll \/ (\E f \in Fds : poll_one(f)) \/ Decide \/ Sleep \/ Block \/ Again
    \/ NapEnds \/ Delivered \/ sys_nanosleep \/ NanoSlice
PNext == Change \/ WakeAll \/ RaiseSignal \/ Tick \/ PProcess
PSpec == PInit /\ [][PNext]_pvars

-----------------------------------------------------------------------------

(* A process on the poll queue, blocked or about to, has missed nothing: no *)
(* descriptor it asked about is ready, unless the wake that goes with it    *)
(* has still to come (the comment above the read of the generation).        *)
NothingMissed ==
    at \in {"linked", "sleeping"} =>
        \A f \in Fds : ready[f] # "no" => f \in announce

(* poll returns once a descriptor hangs up, however the others change      *)
(* while it looks, unless a wake came between linking and blocking; a poll *)
(* or a sleep with a deadline returns anyway.                              *)
PollReturns ==
    (\/ at \notin {"out", "nano", "slice"} /\ \E f \in Fds : ready[f] = "hup"
     \/ at # "out" /\ timeout > 0) ~> (at = "out" \/ (at = "adrift" /\ timeout < 0))

(***************************************************************************)
(* The proof that poll misses nothing, for every set of descriptors.       *)
(*                                                                         *)
(* NothingMissed is about a process asleep; what makes it true is what     *)
(* holds on the way there.  While the generation is the one read before    *)
(* the first descriptor was looked at, a descriptor that was looked at and *)
(* found idle is idle still, or its announcement has not been made: an     *)
(* announcement made meanwhile would have changed the generation.          *)
(***************************************************************************)
\* The places of a process in sys_poll where it still relies on the generation.
Relies == {"scan", "scanned", "linked", "sleeping"}

LookedAtIdle ==
    \A f \in Fds : (f \notin todo /\ revents[f] = "no" /\ ready[f] # "no") => f \in announce

PollInv ==
    /\ ready \in [Fds -> {"no", "yes", "hup", "closed"}]
    /\ revents \in [Fds -> {"no", "yes", "hup", "closed"}]
    /\ at \in {"linked", "sleeping"} => seen
    /\ at \in {"scanned", "linked", "sleeping"} => todo = {} /\ revents = None
    /\ at \in Relies /\ seen => LookedAtIdle

\* The initial states.
LEMMA InitInv == PInit => PollInv
  BY DEF PInit, PollInv, Relies, None

\* No step of a device, a signal, the timer or the process breaks it.
LEMMA StepInv == PollInv /\ [PNext]_pvars => PollInv'
<1> SUFFICES ASSUME PollInv, [PNext]_pvars PROVE PollInv'
  OBVIOUS
<1> USE DEF PollInv, Relies, LookedAtIdle, None
<1>1. CASE Change
  BY <1>1 DEF Change
<1>2. CASE WakeAll
  BY <1>2 DEF WakeAll
<1>3. CASE RaiseSignal
  BY <1>3 DEF RaiseSignal, Roused
<1>4. CASE Tick
  BY <1>4 DEF Tick, Roused
<1>5. CASE sys_poll
  BY <1>5 DEF sys_poll
<1>6. ASSUME NEW f \in Fds, poll_one(f) PROVE PollInv'
  BY <1>6 DEF poll_one
<1>7. CASE Decide
  BY <1>7 DEF Decide, Return
<1>8. CASE Sleep
  BY <1>8 DEF Sleep
<1>9. CASE Again
  BY <1>9 DEF Again, Return
<1>10. CASE NapEnds
  BY <1>10 DEF NapEnds
<1>11. CASE Delivered
  BY <1>11 DEF Delivered
<1>12. CASE sys_nanosleep
  BY <1>12 DEF sys_nanosleep
<1>13. CASE NanoSlice
  BY <1>13 DEF NanoSlice, Return
<1>14. CASE Block
  BY <1>14 DEF Block
<1>15. CASE UNCHANGED pvars
  BY <1>15 DEF pvars
<1> QED
  BY <1>1, <1>2, <1>3, <1>4, <1>5, <1>6, <1>7, <1>8, <1>9, <1>10, <1>11, <1>12, <1>13, <1>14, <1>15
  DEF PNext, PProcess

(* A process on the poll queue has missed nothing: every descriptor it     *)
(* asked about that is ready has its wake_all still to come                *)
(* (sys_poll, kernel/sys/syscall.cpp).                                     *)
THEOREM PollMissesNothing == PSpec => []NothingMissed
<1>1. PollInv => NothingMissed
  BY DEF PollInv, NothingMissed, Relies, LookedAtIdle, None
<1> QED
  BY InitInv, StepInv, <1>1, PTL DEF PSpec
=============================================================================
