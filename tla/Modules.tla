------------------------------- MODULE Modules -------------------------------
(***************************************************************************)
(* What a loadable driver hands to the kernel and takes back: its memory   *)
(* (module/loader.cpp), interrupt handlers (arch idt.cpp, pic.cpp), nodes  *)
(* of /dev (fs/devfs.cpp), the time source (sys/clock.cpp) and wait queues *)
(* (module/kernel_api.cpp), used by the init and fini functions of ps2kbd, *)
(* ps2mouse and rtc.  Any call of an init function may fail; an interrupt  *)
(* may arrive between two calls; nodes may be open when their driver goes. *)
(***************************************************************************)
EXTENDS Naturals, Sequences, FiniteSets

CONSTANTS
    Drivers,    \* drivers on the disk: a subset of {"kbd", "mouse", "rtc"}
    Slots,      \* MAX_HANDLERS_PER_IRQ
    Occupied,   \* lines whose slots are all taken by other handlers
    MaxOpen     \* bound: nodes open at a time

VARIABLES
    state,      \* driver -> "absent", "init", "undo", "loaded", "unloading"
    pc,         \* driver -> calls its init (or fini) function has made
    memory,     \* drivers whose image is mapped
    handlers,   \* line -> sequence of Slots drivers or "none"
    masked,     \* lines the interrupt controller holds back
    nodes,      \* children of /dev: a set of nodes [name, owner, ops]
    open,       \* nodes some process has open
    source,     \* the driver behind the time source, or "none"
    queues,     \* wait queues in use: <<driver, name>>
    keyboardOn  \* the 8042 passes the keyboard's bytes on

mvars == <<state, pc, memory, handlers, masked, nodes, open, source, queues, keyboardOn>>

Lines == {1, 12}
Node(d, name) == [name |-> name, owner |-> d, ops |-> TRUE]

\* The calls of each init function in order: what the call takes, and what
\* the function gives back, in order, if the call fails.
Call(kind, name, undo) == [kind |-> kind, name |-> name, undo |-> undo]
Undo(kind, name) == <<kind, name>>

KeyboardInit == <<
    Call("queue", "readers", <<>>),
    Call("queue", "event_readers", <<Undo("queue", "readers")>>),
    Call("irq", 1, <<Undo("queue", "readers")>>),
    Call("device", "kbd0", <<Undo("irq", 1), Undo("queue", "event_readers"),
                             Undo("queue", "readers")>>),
    Call("device", "kbdraw", <<Undo("device", "kbd0"), Undo("irq", 1),
                               Undo("queue", "event_readers"), Undo("queue", "readers")>>)>>
\* A bug: no queue for the readers, and the keyboard stays off.
MouseInitForgets == <<
    Call("keyboard_off", 0, <<>>),
    Call("setup", 0, <<Undo("keyboard_on", 0)>>),
    Call("queue", "readers", <<>>),
    Call("irq", 12, <<Undo("queue", "readers"), Undo("keyboard_on", 0)>>),
    Call("setup", 0, <<Undo("irq", 12), Undo("queue", "readers"), Undo("keyboard_on", 0)>>),
    Call("keyboard_on", 0, <<>>),
    Call("device", "mouse0", <<Undo("irq", 12), Undo("queue", "readers")>>)>>

MouseInit == <<
    Call("keyboard_off", 0, <<>>),
    Call("setup", 0, <<Undo("keyboard_on", 0)>>),
    Call("queue", "readers", <<Undo("keyboard_on", 0)>>),
    Call("irq", 12, <<Undo("queue", "readers"), Undo("keyboard_on", 0)>>),
    Call("setup", 0, <<Undo("irq", 12), Undo("queue", "readers"), Undo("keyboard_on", 0)>>),
    Call("keyboard_on", 0, <<>>),
    Call("device", "mouse0", <<Undo("irq", 12), Undo("queue", "readers")>>)>>
RtcInit == <<
    Call("setup", 0, <<>>),
    Call("source", 0, <<>>),
    Call("device", "rtc0", <<Undo("source", 0)>>)>>

module_init(d) == IF d = "kbd" THEN KeyboardInit ELSE IF d = "mouse" THEN MouseInit ELSE RtcInit

KeyboardFini == <<Undo("device", "kbdraw"), Undo("device", "kbd0"), Undo("irq", 1),
                  Undo("queue", "event_readers"), Undo("queue", "readers")>>
MouseFini == <<Undo("device", "mouse0"), Undo("irq", 12), Undo("queue", "readers")>>
RtcFini == <<Undo("device", "rtc0"), Undo("source", 0)>>
module_fini(d) == IF d = "kbd" THEN KeyboardFini ELSE IF d = "mouse" THEN MouseFini ELSE RtcFini

LInit ==
    /\ state = [d \in Drivers |-> "absent"] /\ pc = [d \in Drivers |-> 0]
    /\ memory = {}
    /\ handlers = [l \in Lines |-> [s \in 1..Slots |-> IF l \in Occupied THEN "other" ELSE "none"]]
    /\ masked = Lines \ Occupied
    /\ nodes = {} /\ open = {} /\ source = "none" /\ queues = {} /\ keyboardOn = TRUE

-----------------------------------------------------------------------------

\* register_irq_handler: the first free slot, and the line is let through.
register_irq_handler(d, line) ==
    \E s \in 1..Slots :
        /\ handlers[line][s] = "none"
        /\ \A t \in 1..(s - 1) : handlers[line][t] # "none"
        /\ handlers' = [handlers EXCEPT ![line][s] = d]
        /\ masked' = masked \ {line}

\* A bug: the line is let through after its last handler went.
unregister_irq_unmasked(d, line) ==
    /\ handlers' = [handlers EXCEPT ![line] =
           [s \in 1..Slots |-> IF handlers[line][s] = d THEN "none" ELSE handlers[line][s]]]
    /\ UNCHANGED masked

\* unregister_irq_handler: every slot of this driver, and the line is held
\* back once no handler is left on it.
unregister_irq_handler(d, line) ==
    LET left == [s \in 1..Slots |-> IF handlers[line][s] = d THEN "none" ELSE handlers[line][s]]
    IN  /\ handlers' = [handlers EXCEPT ![line] = left]
        /\ masked' = IF \A s \in 1..Slots : left[s] = "none" THEN masked \cup {line} ELSE masked

\* register_memory_device: names are unique.
register_device(d, name) ==
    /\ \A n \in nodes : n.name # name
    /\ nodes' = nodes \cup {Node(d, name)}

\* A bug: a node that is open keeps its operations.
unregister_device_listed(name) ==
    nodes' = {n \in nodes : n.name # name} /\ UNCHANGED open

\* unregister_device: out of the directory and, for whoever has it open,
\* without its operations.
unregister_device(name) ==
    LET gone == {n \in nodes : n.name = name} IN
    /\ nodes' = nodes \ gone
    /\ open' = {IF n \in gone THEN [n EXCEPT !.ops = FALSE] ELSE n : n \in open}

clock_register_source(d) == source = "none" /\ source' = d
clock_unregister_source(d) == source' = IF source = d THEN "none" ELSE source

\* One call of driver d that takes something.
Take(d, kind, name) ==
    \/ kind = "queue" /\ queues' = queues \cup {<<d, name>>}
       /\ UNCHANGED <<handlers, masked, nodes, open, source, keyboardOn>>
    \/ kind = "irq" /\ register_irq_handler(d, name)
       /\ UNCHANGED <<queues, nodes, open, source, keyboardOn>>
    \/ kind = "device" /\ register_device(d, name)
       /\ UNCHANGED <<queues, handlers, masked, open, source, keyboardOn>>
    \/ kind = "source" /\ clock_register_source(d)
       /\ UNCHANGED <<queues, handlers, masked, nodes, open, keyboardOn>>
    \/ kind \in {"keyboard_off", "keyboard_on"} /\ keyboardOn' = (kind = "keyboard_on")
       /\ UNCHANGED <<queues, handlers, masked, nodes, open, source>>
    \/ kind = "setup" /\ UNCHANGED <<queues, handlers, masked, nodes, open, source, keyboardOn>>

\* One call of driver d that gives something back.
GiveBack(d, kind, name) ==
    \/ kind = "queue" /\ queues' = queues \ {<<d, name>>}
       /\ UNCHANGED <<handlers, masked, nodes, open, source, keyboardOn>>
    \/ kind = "irq" /\ unregister_irq_handler(d, name)
       /\ UNCHANGED <<queues, nodes, open, source, keyboardOn>>
    \/ kind = "device" /\ unregister_device(name)
       /\ UNCHANGED <<queues, handlers, masked, source, keyboardOn>>
    \/ kind = "source" /\ clock_unregister_source(d)
       /\ UNCHANGED <<queues, handlers, masked, nodes, open, keyboardOn>>
    \/ kind = "keyboard_on" /\ keyboardOn' = TRUE
       /\ UNCHANGED <<queues, handlers, masked, nodes, open, source>>

-----------------------------------------------------------------------------

\* load, up to the call of init: the image is laid out, relocated, protected.
load(d) ==
    /\ state[d] = "absent" /\ \A o \in Drivers : state[o] # "init"
    /\ state' = [state EXCEPT ![d] = "init"] /\ pc' = [pc EXCEPT ![d] = 1]
    /\ memory' = memory \cup {d}
    /\ UNCHANGED <<handlers, masked, nodes, open, source, queues, keyboardOn>>

InitCall(d) ==
    /\ state[d] = "init" /\ pc[d] <= Len(module_init(d))
    /\ LET c == module_init(d)[pc[d]] IN Take(d, c.kind, c.name)
    /\ pc' = [pc EXCEPT ![d] = @ + 1]
    /\ UNCHANGED <<state, memory>>

\* A call fails: what init still holds is given back, one call at a time.
InitFails(d) ==
    /\ state[d] = "init" /\ pc[d] <= Len(module_init(d))
    /\ module_init(d)[pc[d]].kind # "keyboard_on"
    /\ state' = [state EXCEPT ![d] = "undo"]
    /\ pc' = [pc EXCEPT ![d] = <<@, 1>>]
    /\ UNCHANGED <<memory, handlers, masked, nodes, open, source, queues, keyboardOn>>

UndoCall(d) ==
    /\ state[d] = "undo"
    /\ LET undo == module_init(d)[pc[d][1]].undo
       IN  /\ pc[d][2] <= Len(undo)
           /\ GiveBack(d, undo[pc[d][2]][1], undo[pc[d][2]][2])
    /\ pc' = [pc EXCEPT ![d][2] = @ + 1]
    /\ UNCHANGED <<state, memory>>

\* load after init: an error unmaps the image, success records the module.
load_failed(d) ==
    /\ state[d] = "undo" /\ pc[d][2] > Len(module_init(d)[pc[d][1]].undo)
    /\ state' = [state EXCEPT ![d] = "absent"] /\ pc' = [pc EXCEPT ![d] = 0]
    /\ memory' = memory \ {d}
    /\ UNCHANGED <<handlers, masked, nodes, open, source, queues, keyboardOn>>
load_done(d) ==
    /\ state[d] = "init" /\ pc[d] > Len(module_init(d))
    /\ state' = [state EXCEPT ![d] = "loaded"] /\ pc' = [pc EXCEPT ![d] = 0]
    /\ UNCHANGED <<memory, handlers, masked, nodes, open, source, queues, keyboardOn>>

unload(d) ==
    /\ state[d] = "loaded"
    /\ state' = [state EXCEPT ![d] = "unloading"] /\ pc' = [pc EXCEPT ![d] = 1]
    /\ UNCHANGED <<memory, handlers, masked, nodes, open, source, queues, keyboardOn>>
FiniCall(d) ==
    /\ state[d] = "unloading" /\ pc[d] <= Len(module_fini(d))
    /\ GiveBack(d, module_fini(d)[pc[d]][1], module_fini(d)[pc[d]][2])
    /\ pc' = [pc EXCEPT ![d] = @ + 1]
    /\ UNCHANGED <<state, memory>>
unload_done(d) ==
    /\ state[d] = "unloading" /\ pc[d] > Len(module_fini(d))
    /\ state' = [state EXCEPT ![d] = "absent"] /\ pc' = [pc EXCEPT ![d] = 0]
    /\ memory' = memory \ {d}
    /\ UNCHANGED <<handlers, masked, nodes, open, source, queues, keyboardOn>>

\* interrupt_dispatch: an interrupt no handler claims has its line masked.
interrupt_dispatch(line) ==
    /\ line \notin masked
    /\ \A s \in 1..Slots : handlers[line][s] # "other"
    /\ masked' = masked \cup {line}
    /\ UNCHANGED <<state, pc, memory, handlers, nodes, open, source, queues, keyboardOn>>

lookup == \E n \in nodes :
    /\ n \notin open /\ Cardinality(open) < MaxOpen /\ open' = open \cup {n}
    /\ UNCHANGED <<state, pc, memory, handlers, masked, nodes, source, queues, keyboardOn>>
close == \E n \in open :
    /\ open' = open \ {n}
    /\ UNCHANGED <<state, pc, memory, handlers, masked, nodes, source, queues, keyboardOn>>

LNext ==
    \/ \E d \in Drivers : \/ load(d) \/ InitCall(d) \/ InitFails(d) \/ UndoCall(d)
                          \/ load_failed(d) \/ load_done(d)
                          \/ unload(d) \/ FiniCall(d) \/ unload_done(d)
    \/ \E line \in Lines : interrupt_dispatch(line)
    \/ lookup \/ close

-----------------------------------------------------------------------------

(* Whatever call of an init function fails, and whenever a module goes:    *)
(* the interrupt table, /dev, the nodes processes have open and the clock  *)
(* never lead into the memory of a module that is not mapped.              *)
NoDangling ==
    /\ \A l \in Lines, s \in 1..Slots : handlers[l][s] \in memory \cup {"none", "other"}
    /\ \A n \in nodes \cup open : n.ops => n.owner \in memory
    /\ source \in memory \cup {"none"}

(* A line with no handler behind it "will keep firing": it is held back    *)
(* from the moment its last handler goes.                                  *)
QuietLines ==
    \A l \in Lines : (\A s \in 1..Slots : handlers[l][s] = "none") => l \in masked

(* The mouse driver leaves the keyboard switched on "including on every    *)
(* failure path, because leaving it off would cost the machine its         *)
(* console".                                                               *)
KeyboardComesBack ==
    keyboardOn \/ ("mouse" \in Drivers /\ state["mouse"] \in {"init", "undo"})
=============================================================================
