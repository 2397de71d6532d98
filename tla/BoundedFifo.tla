----------------------------- MODULE BoundedFifo -----------------------------
(***************************************************************************)
(* What a pipe with one reader and one writer promises: a queue of at most *)
(* Room bytes, which come out in the order in which they went in, each     *)
(* once.                                                                   *)
(***************************************************************************)
EXTENDS Naturals, Sequences

CONSTANTS Bytes, Room

VARIABLES
    queue,    \* sent and not yet received
    last      \* the byte received last: <<>> before the first

vars == <<queue, last>>

Init == queue = <<>> /\ last = <<>>

Send(b) ==
    /\ Len(queue) < Room
    /\ queue' = Append(queue, b)
    /\ UNCHANGED last

Receive ==
    /\ queue # <<>>
    /\ last' = <<Head(queue)>>
    /\ queue' = Tail(queue)

Next == Receive \/ \E b \in Bytes : Send(b)

Spec == Init /\ [][Next]_vars
=============================================================================
