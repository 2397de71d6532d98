------------------------------- MODULE Drivers -------------------------------
(***************************************************************************)
(* The input drivers modules/ps2kbd and modules/ps2mouse between their     *)
(* interrupts and the threads that read /dev/kbd0, /dev/kbdraw and         *)
(* /dev/mouse0, and modules/rtc reading the clock chip.  An interrupt      *)
(* handler runs whole, at any point of a reader; a reader is one step per  *)
(* access to a ring.  `down' and `buttons' are the truth about the         *)
(* hardware.                                                               *)
(***************************************************************************)
EXTENDS Naturals, Sequences, FiniteSets

CONSTANTS
    Capacity,   \* slots of a ring (BUFFER_SIZE, EVENT_CAPACITY)
    Keys,       \* keys of the keyboard: names, see Modifier
    MaxInput,   \* interrupts in a behaviour
    Missed,     \* bytes of the first mouse packet sent before the handler was there
    Radix,      \* values of a register
    Attempts,   \* second readings tried (10)
    MaxTicks    \* seconds that may pass during one call

VARIABLES
    ring,       \* "chars", "events", "mouse" -> [cells, head, tail]
    reader,     \* ring -> "out", "test", "wait", "asleep", "copy"
    accepted,   \* ring -> what was put in, in order
    taken,      \* ring -> what its reader took, in order
    held,       \* shift_held, control_held, alt_held, caps_lock as a set
    extended,   \* expecting_extended
    down,       \* keys that are down
    packet,     \* bytes of the mouse packet so far
    packetSize, \* packet_size: 3, or 4 with a wheel
    phase,      \* bytes of its packet the mouse has sent
    buttons,    \* mouse buttons that are down
    inputs,     \* interrupts so far
    now,        \* seconds the chip has counted
    updating,   \* the chip is rewriting its registers
    ticks,      \* seconds since the call began
    call        \* [at, attempt, first, second, began, result]

dvars == <<ring, reader, accepted, taken, held, extended, down, packet,
           packetSize, phase, buttons, inputs>>

Rings == {"chars", "events", "mouse"}
EmptyRing == [cells |-> [i \in 0..(Capacity - 1) |-> <<>>], head |-> 0, tail |-> 0]
Empty(r) == ring[r].head = ring[r].tail
Full(r) == (ring[r].head + 1) % Capacity = ring[r].tail

KInit ==
    /\ ring = [r \in Rings |-> EmptyRing]
    /\ reader = [r \in Rings |-> "out"]
    /\ accepted = [r \in Rings |-> <<>>] /\ taken = [r \in Rings |-> <<>>]
    /\ held = {} /\ extended = FALSE /\ down = {}
    /\ packet = <<>> /\ packetSize \in {3, 4} /\ phase \in Missed
    /\ buttons = {} /\ inputs = 0

\* A bug: a full ring is written over.
PutOver(rg, r, item) ==
    [rg EXCEPT ![r] = [@ EXCEPT !.cells[@.head] = item, !.head = (@ + 1) % Capacity]]

\* buffer_push and push_event: the newest is dropped when the ring is full.
Put(rg, r, item) ==
    IF (rg[r].head + 1) % Capacity = rg[r].tail THEN rg
    ELSE [rg EXCEPT ![r] = [@ EXCEPT !.cells[@.head] = item,
                                     !.head = (@ + 1) % Capacity]]
Note(acc, r, item) == IF Full(r) THEN acc ELSE [acc EXCEPT ![r] = Append(@, item)]
Wake(rd, r) == [rd EXCEPT ![r] = IF @ = "asleep" THEN "test" ELSE @]

\* What a key does to the modifiers: right control and right alt come with
\* the extended prefix, the shift keys without.
Modifier(k) ==
    CASE k \in {"lshift", "rshift"} -> "shift"
      [] k \in {"lctrl", "rctrl"} -> "control"
      [] k \in {"lalt", "ralt"} -> "alt"
      [] k = "caps" -> "caps"
      [] OTHER -> "none"
IsExtended(k) == k \in {"rctrl", "ralt", "arrow"}

\* A bug: the break code of an extended key is not looked at.
HeldExtended(k, released) ==
    CASE Modifier(k) \in {"none", "caps"} -> held
      [] OTHER -> IF ~released THEN held \cup {Modifier(k)}
                  ELSE IF extended THEN held ELSE held \ {Modifier(k)}

Held(k, released) ==
    CASE Modifier(k) = "none" -> held
      [] Modifier(k) = "caps" ->
           IF released THEN held
           ELSE IF "caps" \in held THEN held \ {"caps"} ELSE held \cup {"caps"}
      [] OTHER -> IF released THEN held \ {Modifier(k)} ELSE held \cup {Modifier(k)}

\* translate: case is shift xor caps lock for a letter, then control.
translate(h) ==
    IF "control" \in h THEN "^A"
    ELSE IF ("shift" \in h) # ("caps" \in h) THEN "A" ELSE "a"

Typed(k, released) == k = "letter" /\ ~released

\* keyboard_irq with the make or break code of a key; an event carries the
\* modifiers after the key, a character goes to the other ring as well.
Scancode(k, released) ==
    LET h == Held(k, released)
        event == <<k, ~released, h>>
        c == <<translate(h)>>
        put == Put(ring, "events", event)
        woken == IF Full("events") THEN reader ELSE Wake(reader, "events")
    IN  /\ held' = h
        /\ ring' = IF Typed(k, released) THEN Put(put, "chars", c) ELSE put
        /\ accepted' = LET a == Note(accepted, "events", event)
                       IN  IF Typed(k, released) THEN Note(a, "chars", c) ELSE a
        /\ reader' = IF Typed(k, released) THEN Wake(woken, "chars") ELSE woken
        /\ down' = IF released THEN down \ {k} ELSE down \cup {k}

keyboard_irq ==
    /\ inputs < MaxInput /\ inputs' = inputs + 1
    /\ \/ /\ ~extended
          /\ \E k \in Keys : IsExtended(k)
          /\ extended' = TRUE
          /\ UNCHANGED <<ring, reader, accepted, held, down>>
       \/ /\ \E k \in Keys, released \in BOOLEAN :
               /\ released => k \in down
               /\ IsExtended(k) = extended
               /\ Scancode(k, released)
          /\ extended' = FALSE
    /\ UNCHANGED <<taken, packet, packetSize, phase, buttons>>

-----------------------------------------------------------------------------

\* The mouse sends the bytes of a packet one at a time: first the buttons and
\* whether it moved, with bit 3 set, then the rest, in which bit 3 may be set
\* or not.  Bytes may have been lost before the interrupt was hooked up, and
\* then the driver's packet and the mouse's do not start together.
Fresh == {[first |-> TRUE, always |-> TRUE, b |-> b, moved |-> m] :
             b \in SUBSET {"left"}, m \in BOOLEAN}
Rest == {[first |-> FALSE, always |-> a, b |-> {}, moved |-> FALSE] : a \in BOOLEAN}

Event(p) == <<p[1].b, p[1].moved>>
\* What is worth an event.
Reported(p) == p[1].moved \/ p[1].b # {} \/ ~Empty("mouse")

\* A bug: a later byte of a packet has to have bit 3 set as well.
OutOfStepAnywhere(byte) == ~byte.always

\* Only the first byte of a packet always has bit 3 set.
OutOfStep(byte) == packet = <<>> /\ ~byte.always

mouse_irq ==
    /\ inputs < MaxInput /\ inputs' = inputs + 1
    /\ phase' = (phase + 1) % packetSize
    /\ \E byte \in IF phase = 0 THEN Fresh ELSE Rest :
         /\ buttons' = IF byte.first THEN byte.b ELSE buttons
         /\ IF OutOfStep(byte)
            THEN UNCHANGED <<packet, ring, accepted, reader>>
            ELSE LET p == Append(packet, byte) IN
                 IF Len(p) < packetSize
                 THEN packet' = p /\ UNCHANGED <<ring, accepted, reader>>
                 ELSE /\ packet' = <<>>
                      /\ IF Reported(p)
                         THEN /\ ring' = Put(ring, "mouse", Event(p))
                              /\ accepted' = Note(accepted, "mouse", Event(p))
                              /\ reader' = Wake(reader, "mouse")
                         ELSE UNCHANGED <<ring, accepted, reader>>
    /\ UNCHANGED <<taken, held, extended, down, packetSize>>

-----------------------------------------------------------------------------

At(r, from, to) ==
    /\ reader[r] = from /\ reader' = [reader EXCEPT ![r] = to]
    /\ UNCHANGED <<held, extended, down, packet, packetSize, phase, buttons, inputs, accepted>>

\* keyboard_read, event_read and mouse_read have the same shape.
read(r) == At(r, "out", "test") /\ UNCHANGED <<ring, taken>>
test_empty(r) == Empty(r) /\ At(r, "test", "wait") /\ UNCHANGED <<ring, taken>>
test_some(r) == ~Empty(r) /\ At(r, "test", "copy") /\ UNCHANGED <<ring, taken>>
waitqueue_wait(r) == At(r, "wait", "asleep") /\ UNCHANGED <<ring, taken>>
pop(r) ==
    /\ ~Empty(r) /\ At(r, "copy", "copy")
    /\ taken' = [taken EXCEPT ![r] = Append(@, ring[r].cells[ring[r].tail])]
    /\ ring' = [ring EXCEPT ![r].tail = (@ + 1) % Capacity]
return(r) == At(r, "copy", "out") /\ UNCHANGED <<ring, taken>>

Reads(r) ==
    \/ read(r) \/ test_empty(r) \/ test_some(r) \/ waitqueue_wait(r) \/ pop(r) \/ return(r)

KeyNext == keyboard_irq \/ Reads("chars") \/ Reads("events")
MouseNext == mouse_irq \/ Reads("mouse")

-----------------------------------------------------------------------------

(* rtc_read_epoch of modules/rtc: the clock chip counts while its registers *)
(* are read one by one, so the driver reads them all twice and wants the   *)
(* same answer.  The clock of the model has three registers that carry     *)
(* into each other, like the chip's six; what the numbers mean is module   *)
(* Calendar's.                                                             *)

rvars == <<now, updating, ticks, call>>

Registers(t) == <<t % Radix, (t \div Radix) % Radix, (t \div (Radix * Radix)) % Radix>>
Idle == [at |-> "idle", attempt |-> 0, first |-> <<>>, second |-> <<>>, began |-> 0, result |-> <<>>]

RInit == now \in 0..(Radix * Radix * Radix - 1) /\ updating = FALSE /\ ticks = 0 /\ call = Idle

\* The chip raises its flag, then rewrites all registers, then lowers it.
Updating == /\ ~updating /\ ticks < MaxTicks /\ updating' = TRUE /\ UNCHANGED <<now, ticks, call>>
Tick ==
    /\ updating /\ updating' = FALSE
    /\ now' = (now + 1) % (Radix * Radix * Radix)
    /\ ticks' = IF call.at = "idle" THEN 0 ELSE ticks + 1
    /\ UNCHANGED call

rtc_read_epoch ==
    /\ call.at = "idle"
    /\ call' = [Idle EXCEPT !.at = "flag", !.began = now]
    /\ ticks' = 0 /\ UNCHANGED <<now, updating>>

\* read_raw: the flag, then one register after the other into `second'
\* (the first reading moves to `first' when it is complete).
read_flag ==
    /\ call.at = "flag" /\ ~updating
    /\ call' = [call EXCEPT !.at = "regs", !.second = <<>>]
    /\ UNCHANGED <<now, updating, ticks>>
\* UPDATE_TIMEOUT_ITERATIONS spins and the flag never went.
read_gives_up ==
    /\ call.at = "flag" /\ updating
    /\ call' = Idle
    /\ ticks' = 0 /\ UNCHANGED <<now, updating>>
cmos_read ==
    /\ call.at = "regs" /\ Len(call.second) < 3
    /\ call' = [call EXCEPT !.second = Append(@, Registers(now)[Len(@) + 1])]
    /\ UNCHANGED <<now, updating, ticks>>

\* A bug: only the seconds are compared.
AgreedSeconds == call.first[1] = call.second[1]

\* Stops when the two readings agree, or after the last attempt.
Agreed == call.first = call.second
same_time ==
    /\ call.at = "regs" /\ Len(call.second) = 3
    /\ call' = IF call.first # <<>> /\ (Agreed \/ call.attempt = Attempts)
               THEN [call EXCEPT !.at = "done", !.result = call.second]
               ELSE [call EXCEPT !.at = "flag", !.first = call.second, !.attempt = @ + 1]
    /\ UNCHANGED <<now, updating, ticks>>
rtc_return ==
    /\ call.at = "done" /\ call' = Idle
    /\ ticks' = 0 /\ UNCHANGED <<now, updating>>

RNext ==
    \/ Updating \/ Tick \/ rtc_read_epoch \/ read_flag \/ read_gives_up \/ cmos_read
    \/ same_time \/ rtc_return

-----------------------------------------------------------------------------

Unread(r) ==
    [i \in 1..((ring[r].head + Capacity - ring[r].tail) % Capacity) |->
        ring[r].cells[(ring[r].tail + i - 1) % Capacity]]

(* "Single-producer (the IRQ) single-consumer (a reading thread) ring": a  *)
(* reader interrupted anywhere gets what the interrupt put in, in order    *)
(* and once, and a full ring loses only what comes last.                   *)
InputInOrder == \A r \in Rings : taken[r] \o Unread(r) = accepted[r]

(* A modifier the driver thinks is held is held by some key, so letting go *)
(* of everything always ends it, whichever of two shift keys went down     *)
(* first.                                                                  *)
NoStuckModifier ==
    \A m \in held \ {"caps"} : \E k \in down : Modifier(k) = m

(* A byte that cannot start a packet is dropped only while the driver is   *)
(* waiting for a packet to start, so a driver in step with the mouse stays *)
(* in step: "Dropping it is how we get back in step".                      *)
StaysInStep == Len(packet) = phase => Len(packet') = phase'

(* "a reading taken across a second boundary can be a whole minute or hour *)
(* wrong": the answer is a time the clock showed during the call, whenever *)
(* within the readings the seconds turn over.                              *)
ReadingTrue ==
    call.at = "done" =>
        \E t \in 0..ticks : call.result = Registers((call.began + t) % (Radix * Radix * Radix))
=============================================================================
