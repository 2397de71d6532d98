------------------------------- MODULE Screen --------------------------------
(***************************************************************************)
(* Who has the screen: /dev/fb0 (dev/fbdev.cpp), the count of its open     *)
(* descriptions (fs/devfs.cpp) and the console it suspends.  A process is  *)
(* one step per assignment, since it can be preempted between any two.     *)
(***************************************************************************)
EXTENDS Naturals

CONSTANTS
    Clients,      \* processes that open /dev/fb0
    Acquirers     \* those that take the screen

VARIABLES
    opened,       \* client -> open descriptions of its own
    count,        \* m_open_descriptions
    acquired,     \* s_acquired
    suspended,    \* the console's m_suspended
    client,       \* client -> where it is
    overlapped    \* a process has opened /dev/fb0 while another was closing it

wvars == <<opened, count, acquired, suspended, client, overlapped>>

WInit ==
    /\ opened = [c \in Clients |-> 0] /\ count = 0
    /\ acquired = FALSE /\ suspended = FALSE
    /\ client = [c \in Clients |-> "idle"] /\ overlapped = FALSE

Goto(c, from, to) == client[c] = from /\ client' = [client EXCEPT ![c] = to]

on_description_opened(c) ==
    /\ Goto(c, "idle", "idle") /\ opened[c] < 2
    /\ opened' = [opened EXCEPT ![c] = @ + 1] /\ count' = count + 1
    /\ overlapped' = (overlapped \/ \E d \in Clients : client[d] \in {"release", "resume"})
    /\ UNCHANGED <<acquired, suspended>>

\* A bug: every close gives the screen back.
close_releases(c) ==
    /\ opened[c] > 0 /\ opened' = [opened EXCEPT ![c] = @ - 1]
    /\ count' = count - 1
    /\ Goto(c, "idle", "release")
    /\ UNCHANGED <<acquired, suspended, overlapped>>

\* close, or the exit of the process.
on_description_closed(c) ==
    /\ opened[c] > 0 /\ opened' = [opened EXCEPT ![c] = @ - 1]
    /\ count' = count - 1
    /\ Goto(c, "idle", IF count = 1 THEN "release" ELSE "idle")
    /\ UNCHANGED <<acquired, suspended, overlapped>>

\* A bug: the flag is cleared and the console stays suspended.
release_only(c) ==
    /\ Goto(c, "release", "idle")
    /\ acquired' = FALSE
    /\ UNCHANGED <<opened, count, suspended, overlapped>>

\* framebuffer_device_release, and FBIO_ACQUIRE with 0.
release(c) ==
    /\ Goto(c, "release", IF acquired THEN "resume" ELSE "idle")
    /\ acquired' = FALSE
    /\ UNCHANGED <<opened, count, suspended, overlapped>>
resume(c) == /\ Goto(c, "resume", "idle") /\ suspended' = FALSE
             /\ UNCHANGED <<opened, count, acquired, overlapped>>

fb_ioctl_take(c) ==
    /\ opened[c] > 0 /\ Goto(c, "idle", "suspend") /\ acquired' = TRUE
    /\ UNCHANGED <<opened, count, suspended, overlapped>>
suspend(c) == /\ Goto(c, "suspend", "idle") /\ suspended' = TRUE
              /\ UNCHANGED <<opened, count, acquired, overlapped>>
fb_ioctl_release(c) ==
    /\ opened[c] > 0 /\ Goto(c, "idle", "release")
    /\ UNCHANGED <<opened, count, acquired, suspended, overlapped>>

WNext ==
    \/ \E c \in Clients : \/ on_description_opened(c) \/ on_description_closed(c)
                          \/ release(c) \/ resume(c)
    \/ \E c \in Acquirers : fb_ioctl_take(c) \/ suspend(c) \/ fb_ioctl_release(c)

-----------------------------------------------------------------------------

(* Whatever process closes /dev/fb0 last, and whoever exits without giving *)
(* the screen back, the console is not left suspended -- unless some       *)
(* process opened the device while another was still closing it, which the *)
(* two flags are not protected against.                                    *)
ScreenGivenBack ==
    (count = 0 /\ ~overlapped /\ \A c \in Clients : client[c] = "idle") => ~suspended

(* "A process that opens /dev/fb0 a second time and closes it again is not *)
(* done with the screen": no close takes the screen from a process that    *)
(* still has it open and has not given it back.                            *)
ScreenKept ==
    (suspended /\ ~suspended' /\ ~overlapped) =>
        \A c \in Clients : opened[c] = 0 \/ c \notin Acquirers \/ client[c] = "resume"
=============================================================================
