--------------------------- MODULE SchedulerProofs ---------------------------
(***************************************************************************)
(* The scheduler's safety invariants hold for every set of threads, every  *)
(* quantum and every bound on sleeps.                                      *)
(***************************************************************************)
EXTENDS Scheduler, TLAPS

(***************************************************************************)
(* kernel/lib/intrusive_list.h as the model uses it: a list is a sequence  *)
(* in which an item occurs at most once, append adds an item at the end,   *)
(* take_first removes the head, remove takes an item from anywhere.        *)
(***************************************************************************)
Injective(s) == \A i, j \in DOMAIN s : s[i] = s[j] => i = j

\* The items of a list are items.
LEMMA ItemsFacts ==
    ASSUME NEW S, NEW s \in Seq(S)
    PROVE  /\ Range(s) \subseteq S
           /\ s = <<>> <=> Range(s) = {}
<1>1. Len(s) \in Nat /\ DOMAIN s = 1..Len(s) /\ \A i \in 1..Len(s) : s[i] \in S
    OBVIOUS
<1>2. Range(s) \subseteq S
    BY <1>1 DEF Range
<1>3. s = <<>> => Range(s) = {}
    BY <1>1 DEF Range
<1>4. ASSUME s # <<>> PROVE Range(s) # {}
    <2>1. 1 \in DOMAIN s
        BY <1>1, <1>4
    <2> QED BY <2>1 DEF Range
<1> QED BY <1>2, <1>3, <1>4

\* IntrusiveList::append of an item that is not linked adds that item.
LEMMA AppendFacts ==
    ASSUME NEW S, NEW s \in Seq(S), NEW e \in S, Injective(s), e \notin Range(s)
    PROVE  /\ Append(s, e) \in Seq(S)
           /\ Range(Append(s, e)) = Range(s) \cup {e}
           /\ Injective(Append(s, e))
<1> DEFINE r == Append(s, e)
<1>1. /\ r \in Seq(S) /\ Len(r) = Len(s) + 1 /\ DOMAIN r = 1..(Len(s) + 1)
      /\ DOMAIN s = 1..Len(s) /\ Len(s) \in Nat
      /\ \A i \in 1..Len(s) : r[i] = s[i]
      /\ r[Len(s) + 1] = e
    OBVIOUS
<1> HIDE DEF r
<1>2. Range(r) = Range(s) \cup {e}
    <2>1. ASSUME NEW x \in Range(r) PROVE x \in Range(s) \cup {e}
        <3>1. PICK i \in 1..(Len(s) + 1) : x = r[i]
            BY <1>1, <2>1 DEF Range
        <3>2. CASE i = Len(s) + 1
            BY <1>1, <3>1, <3>2
        <3>3. CASE i \in 1..Len(s)
            BY <1>1, <3>1, <3>3, Zenon DEF Range
        <3> QED BY <1>1, <3>1, <3>2, <3>3
    <2>2. ASSUME NEW x \in Range(s) PROVE x \in Range(r)
        <3>1. PICK i \in 1..Len(s) : x = s[i]
            BY <1>1, <2>2 DEF Range
        <3>2. i \in DOMAIN r /\ r[i] = x
            BY <1>1, <3>1
        <3> QED BY <3>2 DEF Range
    <2>3. e \in Range(r)
        <3>1. Len(s) + 1 \in DOMAIN r
            BY <1>1
        <3> QED BY <1>1, <3>1 DEF Range
    <2> QED BY <2>1, <2>2, <2>3
<1>3. Injective(r)
    <2> SUFFICES ASSUME NEW i \in 1..(Len(s) + 1), NEW j \in 1..(Len(s) + 1), r[i] = r[j]
                 PROVE  i = j
        BY <1>1 DEF Injective
    <2>1. \A k \in 1..Len(s) : s[k] # e
        BY <1>1 DEF Range
    <2> QED BY <1>1, <2>1 DEF Injective
<1> QED BY <1>1, <1>2, <1>3 DEF r

\* take_first removes the head and nothing else.
LEMMA TailFacts ==
    ASSUME NEW S, NEW s \in Seq(S), s # <<>>, Injective(s)
    PROVE  /\ Head(s) \in Range(s) /\ Head(s) \in S
           /\ Tail(s) \in Seq(S)
           /\ Range(Tail(s)) = Range(s) \ {Head(s)}
           /\ Injective(Tail(s))
<1> DEFINE r == Tail(s)
<1>1. /\ r \in Seq(S) /\ Len(s) \in Nat /\ Len(s) > 0
      /\ DOMAIN s = 1..Len(s) /\ DOMAIN r = 1..(Len(s) - 1)
      /\ \A i \in 1..(Len(s) - 1) : r[i] = s[i + 1]
      /\ Head(s) = s[1] /\ Head(s) \in S
    OBVIOUS
<1> HIDE DEF r
<1>2. Head(s) \in Range(s)
    <2>1. 1 \in DOMAIN s
        BY <1>1
    <2> QED BY <1>1, <2>1 DEF Range
<1>3. ASSUME NEW x \in Range(r) PROVE x \in Range(s) /\ x # Head(s)
    <2>1. PICK i \in 1..(Len(s) - 1) : x = r[i]
        BY <1>1, <1>3 DEF Range
    <2>2. i + 1 \in 1..Len(s) /\ x = s[i + 1] /\ 1 \in 1..Len(s) /\ i + 1 # 1
        BY <1>1, <2>1
    <2> QED BY <1>1, <2>2, Zenon DEF Range, Injective
<1>4. ASSUME NEW x \in Range(s), x # Head(s) PROVE x \in Range(r)
    <2>1. PICK i \in 1..Len(s) : x = s[i]
        BY <1>1, <1>4 DEF Range
    <2>2. i - 1 \in 1..(Len(s) - 1) /\ r[i - 1] = x
        BY <1>1, <1>4, <2>1
    <2> QED BY <1>1, <2>2, Zenon DEF Range
<1>5. Injective(r)
    <2> SUFFICES ASSUME NEW i \in 1..(Len(s) - 1), NEW j \in 1..(Len(s) - 1), r[i] = r[j]
                 PROVE  i = j
        BY <1>1, Zenon DEF Injective
    <2>1. i + 1 \in 1..Len(s) /\ j + 1 \in 1..Len(s) /\ s[i + 1] = s[j + 1]
        BY <1>1
    <2>2. i + 1 = j + 1
        BY <1>1, <2>1, Zenon DEF Injective
    <2> QED BY <2>2
<1> QED BY <1>1, <1>2, <1>3, <1>4, <1>5 DEF r

\* remove of an item that is on the list takes that item and nothing else.
LEMMA UnlinkedFacts ==
    ASSUME NEW S, NEW s \in Seq(S), NEW k \in DOMAIN s, Injective(s)
    PROVE  /\ Unlinked(s, k) \in Seq(S)
           /\ Range(Unlinked(s, k)) = Range(s) \ {s[k]}
           /\ Injective(Unlinked(s, k))
<1> DEFINE r == Unlinked(s, k)
<1>0. Len(s) \in Nat /\ DOMAIN s = 1..Len(s) /\ k \in 1..Len(s)
    OBVIOUS
<1>1. /\ r \in Seq(S)
      /\ DOMAIN r = 1..(Len(s) - 1)
      /\ \A i \in 1..(Len(s) - 1) : r[i] = IF i < k THEN s[i] ELSE s[i + 1]
    <2> DEFINE a == SubSeq(s, 1, k - 1)
               b == SubSeq(s, k + 1, Len(s))
    <2>1. a \in Seq(S) /\ Len(a) = k - 1 /\ \A i \in 1..(k - 1) : a[i] = s[i]
        BY <1>0
    <2>2. b \in Seq(S) /\ Len(b) = Len(s) - k /\ \A i \in 1..(Len(s) - k) : b[i] = s[k + i]
        BY <1>0, SMTT(60)
    <2>3. r = a \o b
        BY DEF Unlinked
    <2> HIDE DEF a, b, r
    <2>4. r \in Seq(S) /\ Len(r) = Len(s) - 1
        <3>1. a \in Seq(S) /\ b \in Seq(S)
            BY <2>1, <2>2
        <3>2. a \o b \in Seq(S) /\ Len(a \o b) = Len(a) + Len(b)
            BY <3>1
        <3> QED BY <1>0, <2>1, <2>2, <2>3, <3>2, SMTT(60)
    <2>5. DOMAIN r = 1..(Len(s) - 1)
        BY <2>4
    <2>6. ASSUME NEW i \in 1..(Len(s) - 1)
          PROVE  r[i] = IF i < k THEN s[i] ELSE s[i + 1]
        <3>1. CASE i < k
            <4>1. r[i] = a[i]
                BY <1>0, <2>1, <2>2, <2>3, <3>1, SMTT(60)
            <4> QED BY <1>0, <2>1, <3>1, <4>1
        <3>2. CASE i >= k
            <4>1. r[i] = b[i - (k - 1)]
                BY <1>0, <2>1, <2>2, <2>3, <3>2, SMTT(60)
            <4>2. i - (k - 1) \in 1..(Len(s) - k) /\ k + (i - (k - 1)) = i + 1
                BY <1>0, <3>2
            <4> QED BY <1>0, <2>2, <3>2, <4>1, <4>2, SMTT(60)
        <3> QED BY <1>0, <3>1, <3>2
    <2> QED BY <2>4, <2>5, <2>6
<1> HIDE DEF r
<1>2. ASSUME NEW x \in Range(r) PROVE x \in Range(s) /\ x # s[k]
    <2>1. PICK i \in 1..(Len(s) - 1) : x = r[i]
        BY <1>1, <1>2 DEF Range
    <2>2. PICK j \in 1..Len(s) : x = s[j] /\ j # k
        <3>1. CASE i < k
            BY <1>0, <1>1, <2>1, <3>1
        <3>2. CASE i >= k
            <4>1. i + 1 \in 1..Len(s) /\ i + 1 # k /\ x = s[i + 1]
                BY <1>0, <1>1, <2>1, <3>2
            <4> QED BY <4>1
        <3> QED BY <1>0, <3>1, <3>2
    <2> QED BY <1>0, <2>2 DEF Range, Injective
<1>3. ASSUME NEW x \in Range(s), x # s[k] PROVE x \in Range(r)
    <2>1. PICK j \in 1..Len(s) : x = s[j] /\ j # k
        BY <1>0, <1>3 DEF Range
    <2>2. PICK i \in 1..(Len(s) - 1) : r[i] = x
        <3>1. CASE j < k
            BY <1>0, <1>1, <2>1, <3>1
        <3>2. CASE j > k
            <4>1. j - 1 \in 1..(Len(s) - 1) /\ ~(j - 1 < k) /\ (j - 1) + 1 = j
                BY <1>0, <2>1, <3>2
            <4>2. r[j - 1] = x
                BY <1>1, <2>1, <4>1
            <4> QED BY <4>1, <4>2
        <3> QED BY <1>0, <2>1, <3>1, <3>2
    <2> QED BY <1>1, <2>2, Zenon DEF Range
<1>4. Injective(r)
    <2> SUFFICES ASSUME NEW i \in 1..(Len(s) - 1), NEW j \in 1..(Len(s) - 1), r[i] = r[j]
                 PROVE  i = j
        BY <1>1, Zenon DEF Injective
    <2> DEFINE f(n) == IF n < k THEN n ELSE n + 1
    <2>1. f(i) \in 1..Len(s) /\ f(j) \in 1..Len(s) /\ s[f(i)] = s[f(j)]
        BY <1>0, <1>1
    <2>2. f(i) = f(j)
        BY <1>0, <2>1, Zenon DEF Injective
    <2> QED BY <1>0, <2>2
<1> QED BY <1>1, <1>2, <1>3, <1>4 DEF r

(***************************************************************************)
(* The inductive invariant                                                 *)
(***************************************************************************)

\* Thread t has called exit_current
Exiting(t) == pc[t] \in {"exit", "dead"}

\* ... and its object still exists: it is on s_zombies or in the hands of the
\* idle loop, and nowhere else
ThreadInv(t) ==
    /\ t \in Range(sleepers) <=> state[t] = "Sleeping"
    /\ t \in Range(sleepers) => t \notin waitLinked /\ ~Exiting(t)
    /\ t \in Range(zombies) \/ t = reaping <=> Exiting(t) /\ state[t] # "Absent"
    /\ t \in Range(zombies) \/ t = reaping =>
         /\ t \notin waitLinked /\ t \notin Range(runQueue)
         /\ state[t] \in {"Zombie", "Ready"}
    /\ t \in waitLinked => state[t] # "Absent"
    /\ state[t] = "Absent" => t # current
    /\ state[t] = "Zombie" => Exiting(t)
    /\ state[t] = "Ready" /\ ~Exiting(t) => t \in Range(runQueue)
    /\ pc[t] = "dead" => t # current

ListsInv ==
    /\ Injective(runQueue) /\ Injective(zombies) /\ Injective(sleepers)
    /\ reaping # NoThread => reaping # current /\ reaping \notin Range(zombies)

CpuInv ==
    /\ \A t \in Range(runQueue) : state[t] = "Ready"
    /\ \A t \in AllThreads : state[t] = "Running" => t = current
    /\ state[Idle] = IF current = Idle THEN "Running" ELSE "Ready"
    /\ current # Idle /\ pc[current] = "run" => state[current] = "Running"

\* The strengthening of the invariants that is inductive.  The lists hold each
\* thread once, and a list's membership determines the state of its threads;
\* a thread with the CPU that is outside the scheduler is Running, so no list
\* holds it when it blocks, sleeps or exits.
IInv ==
    /\ TypeOK
    /\ ListsInv
    /\ CpuInv
    /\ \A t \in Threads : ThreadInv(t)

-----------------------------------------------------------------------------
\* Scheduler::initialize leaves every list empty and the idle thread on the CPU.
LEMMA InitInv == Init => IInv
<1> SUFFICES ASSUME Init PROVE IInv
    OBVIOUS
<1> USE IdleAssumption, NoThreadAssumption, QuantumAssumption, MaxSleepAssumption
<1>1. TypeOK
    BY DEF Init, TypeOK, AllThreads, ThreadState, PcValues
<1>2. /\ Range(runQueue) = {} /\ Range(zombies) = {} /\ Range(sleepers) = {}
      /\ Injective(runQueue) /\ Injective(zombies) /\ Injective(sleepers)
    BY DEF Init, Range, Injective
<1> QED BY <1>1, <1>2, Zenon DEF Init, IInv, ListsInv, CpuInv, ThreadInv, Exiting, AllThreads

\* What switch_to_next does to the run queue: the current thread goes in if it
\* was Running, the thread that gets the CPU comes out.
LEMMA SwitchFacts ==
    ASSUME IInv, SwitchToNext
    PROVE  LET added == IF state[current] = "Running" /\ current # Idle
                        THEN {current} ELSE {}
           IN  /\ runQueue' \in Seq(Threads)
               /\ Injective(runQueue')
               /\ Range(runQueue') = (Range(runQueue) \cup added) \ {current'}
               /\ current' = Idle \/ current' \in Range(runQueue) \cup added
               /\ current' = Idle => Range(runQueue) \cup added = {}
<1> DEFINE added == IF state[current] = "Running" /\ current # Idle THEN {current} ELSE {}
<1> USE IdleAssumption
<1>1. /\ Requeued \in Seq(Threads) /\ Injective(Requeued)
      /\ Range(Requeued) = Range(runQueue) \cup added
    <2>1. CASE state[current] = "Running" /\ current # Idle
        <3>1. current \in Threads /\ ~RunNodeLinked(current)
            BY <2>1, Zenon DEF IInv, CpuInv, ThreadInv, TypeOK, AllThreads, RunNodeLinked
        <3>2. Requeued = Append(runQueue, current)
            BY <2>1, <3>1 DEF Requeued, AppendNode
        <3>3. runQueue \in Seq(Threads) /\ Injective(runQueue) /\ current \notin Range(runQueue)
            BY <3>1 DEF IInv, ListsInv, TypeOK, RunNodeLinked
        <3> QED BY <2>1, <3>1, <3>2, <3>3, AppendFacts
    <2>2. CASE ~(state[current] = "Running" /\ current # Idle)
        BY <2>2 DEF Requeued, IInv, ListsInv, TypeOK
    <2> QED BY <2>1, <2>2
<1>2. CASE Requeued = <<>>
    <2>1. Range(Requeued) = {} /\ runQueue' = <<>> /\ current' = Idle
        BY <1>2 DEF SwitchToNext, Range
    <2>2. <<>> \in Seq(Threads) /\ Injective(<<>>) /\ Range(<<>>) = {}
        BY DEF Injective, Range
    <2> QED BY <1>1, <2>1, <2>2, Zenon
<1>3. CASE Requeued # <<>>
    <2>1. runQueue' = Tail(Requeued) /\ current' = Head(Requeued)
        BY <1>3 DEF SwitchToNext
    <2>2. /\ Head(Requeued) \in Range(Requeued) /\ Head(Requeued) \in Threads
          /\ Tail(Requeued) \in Seq(Threads) /\ Injective(Tail(Requeued))
          /\ Range(Tail(Requeued)) = Range(Requeued) \ {Head(Requeued)}
        BY <1>1, <1>3, TailFacts
    <2> QED BY <1>1, <2>1, <2>2
<1> QED BY <1>2, <1>3

\* switch_to_next preserves the invariant, up to the program counter of the
\* thread that gives up the CPU.
LEMMA SwitchInv ==
    ASSUME IInv, SwitchToNext,
           UNCHANGED <<zombies, sleepers, waitLinked, remaining, reaping>>,
           irq' \in {"none", "tick", "device"},
           pc' \in [AllThreads -> PcValues],
           \A t \in AllThreads : t # current => pc'[t] = pc[t],
           pc[current] \in {"exit", "dead"} <=> pc'[current] \in {"exit", "dead"}
    PROVE  IInv'
<1> USE IdleAssumption, NoThreadAssumption
<1> DEFINE added == IF state[current] = "Running" /\ current # Idle THEN {current} ELSE {}
<1>1. /\ runQueue' \in Seq(Threads)
      /\ Injective(runQueue')
      /\ Range(runQueue') = (Range(runQueue) \cup added) \ {current'}
      /\ current' = Idle \/ current' \in Range(runQueue) \cup added
      /\ current' = Idle => Range(runQueue) \cup added = {}
    BY SwitchFacts
<1>2. /\ state' = [state EXCEPT ![current] = IF @ = "Running" THEN "Ready" ELSE @,
                                ![current'] = "Running"]
      /\ quantum' = Quantum
    BY DEF SwitchToNext
<1>3. current' \in AllThreads /\ (current' # Idle => current' \in Threads)
    <2>1. Range(runQueue) \subseteq Threads
        BY ItemsFacts DEF IInv, TypeOK
    <2> QED BY <1>1, <2>1 DEF IInv, TypeOK, AllThreads
<1>4. TypeOK'
    <2>1. state' \in [AllThreads -> ThreadState \cup {"Absent"}]
        BY <1>2, <1>3, Zenon DEF IInv, TypeOK, ThreadState
    <2>2. quantum' \in 0..Quantum
        BY <1>2, QuantumAssumption
    <2> QED BY <1>1, <1>3, <2>1, <2>2, Zenon DEF IInv, TypeOK
<1>5. \A t \in AllThreads : state'[t] = IF t = current' THEN "Running"
                                        ELSE IF t = current /\ state[t] = "Running" THEN "Ready"
                                        ELSE state[t]
    BY <1>2, <1>3 DEF IInv, TypeOK
<1>6. Range(runQueue) \subseteq Threads
    BY ItemsFacts DEF IInv, TypeOK
<1>7. Range(zombies') = Range(zombies) /\ Range(sleepers') = Range(sleepers)
    OBVIOUS
<1>8. \A t \in Threads : Exiting(t)' <=> Exiting(t)
    BY Zenon DEF IInv, TypeOK, Exiting, AllThreads
<1>9. current' # Idle => ~Exiting(current') /\ current' # reaping /\ current' \notin Range(sleepers) \cup Range(zombies)
    BY <1>1, <1>3, <1>6, Zenon DEF IInv, CpuInv, ThreadInv
<1>10. ListsInv'
    BY <1>1, <1>3, <1>7, <1>9, Zenon DEF IInv, ListsInv, TypeOK
<1>11. CpuInv'
    <2>1. \A t \in Range(runQueue') : state'[t] = "Ready"
        <3> SUFFICES ASSUME NEW t \in Range(runQueue') PROVE state'[t] = "Ready"
            OBVIOUS
        <3>1. t \in AllThreads /\ t # current'
            BY <1>1, <1>6 DEF AllThreads, IInv, TypeOK
        <3> QED BY <1>1, <1>5, <3>1, Zenon DEF IInv, CpuInv
    <2>2. \A t \in AllThreads : state'[t] = "Running" => t = current'
        BY <1>5 DEF IInv, CpuInv
    <2>3. state'[Idle] = IF current' = Idle THEN "Running" ELSE "Ready"
        BY <1>5, Zenon DEF IInv, CpuInv, AllThreads
    <2>4. state'[current'] = "Running"
        BY <1>3, <1>5, Zenon
    <2> QED BY <2>1, <2>2, <2>3, <2>4, Zenon DEF CpuInv
<1>12. ASSUME NEW t \in Threads PROVE ThreadInv(t)'
    BY <1>1, <1>3, <1>5, <1>6, <1>7, <1>8, <1>9, SMTT(60) DEF IInv, CpuInv, ThreadInv, AllThreads, Exiting
<1> QED BY <1>4, <1>10, <1>11, <1>12 DEF IInv

\* IntrusiveList::append, with the node's linked flag
LEMMA AppendNodeFacts ==
    ASSUME NEW list \in Seq(Threads), Injective(list), NEW t \in Threads,
           NEW linked \in BOOLEAN, t \in Range(list) => linked
    PROVE  /\ AppendNode(list, t, linked) \in Seq(Threads)
           /\ Injective(AppendNode(list, t, linked))
           /\ Range(AppendNode(list, t, linked)) = Range(list) \cup (IF linked THEN {} ELSE {t})
<1>1. CASE linked
    BY <1>1 DEF AppendNode
<1>2. CASE ~linked
    <2>1. t \notin Range(list) /\ AppendNode(list, t, linked) = Append(list, t)
        BY <1>2 DEF AppendNode
    <2> QED BY <1>2, <2>1, AppendFacts
<1> QED BY <1>1, <1>2

\* IntrusiveList::remove of an item that is on the list
LEMMA RemoveNodeFacts ==
    ASSUME NEW list \in Seq(Threads), Injective(list), NEW t \in Range(list)
    PROVE  /\ RemoveNode(list, t) \in Seq(Threads)
           /\ Injective(RemoveNode(list, t))
           /\ Range(RemoveNode(list, t)) = Range(list) \ {t}
<1> DEFINE k == CHOOSE i \in DOMAIN list : list[i] = t
<1>1. k \in DOMAIN list /\ list[k] = t
    BY DEF Range
<1>2. RemoveNode(list, t) = Unlinked(list, k)
    BY DEF RemoveNode
<1> HIDE DEF k
<1> QED BY <1>1, <1>2, UnlinkedFacts

\* Every step of the scheduler and of its callers preserves the invariant.
LEMMA NextInv == IInv /\ [Next]_vars => IInv'
<1> SUFFICES ASSUME IInv, [Next]_vars PROVE IInv'
    OBVIOUS
<1> USE IdleAssumption, NoThreadAssumption, QuantumAssumption, MaxSleepAssumption
<1>0. /\ TypeOK /\ ListsInv /\ CpuInv /\ \A t \in Threads : ThreadInv(t)
      /\ Range(runQueue) \subseteq Threads
      /\ Range(zombies) \subseteq Threads
      /\ Range(sleepers) \subseteq Threads
    BY ItemsFacts, Zenon DEF IInv, TypeOK
<1>1. CASE UNCHANGED vars
    <2>1. TypeOK'
        BY <1>0, <1>1, Zenon DEF TypeOK, vars
    <2>2. ListsInv' /\ CpuInv' /\ \A t \in Threads : ThreadInv(t)'
        BY <1>0, <1>1, ZenonT(60) DEF ListsInv, CpuInv, ThreadInv, Exiting, vars
    <2> QED BY <2>1, <2>2 DEF IInv
<1>2. ASSUME NEW t \in Threads, Yield(t) PROVE IInv'
    <2>1. pc' = [pc EXCEPT ![t] = IF pc[t] \in {"exit", "dead"} THEN "dead" ELSE "run"] /\ t = current
        BY <1>2 DEF Yield, RunningCode
    <2>2. /\ pc' \in [AllThreads -> PcValues]
          /\ \A u \in AllThreads : u # current => pc'[u] = pc[u]
          /\ pc[current] \in {"exit", "dead"} <=> pc'[current] \in {"exit", "dead"}
        BY <1>0, <2>1 DEF TypeOK, AllThreads, PcValues
    <2>3. /\ SwitchToNext
          /\ UNCHANGED <<zombies, sleepers, waitLinked, remaining, reaping, irq>>
        BY <1>2 DEF Yield
    <2>4. irq' \in {"none", "tick", "device"}
        BY <1>0, <2>3 DEF TypeOK
    <2> QED BY <2>2, <2>3, <2>4, SwitchInv
<1>3. CASE TickBegin
    <2>1. TypeOK'
        <3>1. remaining' \in [Threads -> 0..MaxSleep]
            BY <1>0, <1>3 DEF TypeOK, TickBegin
        <3> QED BY <1>0, <1>3, <3>1, Zenon DEF TypeOK, TickBegin
    <2>2. ListsInv' /\ CpuInv' /\ \A t \in Threads : ThreadInv(t)'
        BY <1>0, <1>3, ZenonT(60) DEF ListsInv, CpuInv, ThreadInv, Exiting, TickBegin
    <2> QED BY <2>1, <2>2 DEF IInv
<1>4. CASE TickWake
    <2>1. PICK i \in DOMAIN sleepers :
            /\ sleepers' = Unlinked(sleepers, i)
            /\ state' = [state EXCEPT ![sleepers[i]] = "Ready"]
            /\ runQueue' = AppendNode(runQueue, sleepers[i], RunNodeLinked(sleepers[i]))
        BY <1>4, Zenon DEF TickWake
    <2> DEFINE u == sleepers[i]
    <2>2. u \in Threads /\ u \in Range(sleepers) /\ state[u] = "Sleeping" /\ ~RunNodeLinked(u)
        <3>1. u \in Range(sleepers) /\ u \in Threads
            BY <1>0 DEF Range
        <3>2. state[u] = "Sleeping"
            BY <1>0, <3>1, Zenon DEF ThreadInv
        <3> QED BY <1>0, <3>1, <3>2, Zenon DEF ThreadInv, CpuInv, RunNodeLinked
    <2>3. /\ sleepers' \in Seq(Threads) /\ Injective(sleepers')
          /\ Range(sleepers') = Range(sleepers) \ {u}
        BY <1>0, <2>1, UnlinkedFacts, Zenon DEF TypeOK, ListsInv
    <2>4. /\ runQueue' \in Seq(Threads) /\ Injective(runQueue')
          /\ Range(runQueue') = Range(runQueue) \cup {u}
        <3>1. runQueue \in Seq(Threads) /\ Injective(runQueue) /\ RunNodeLinked(u) \in BOOLEAN
              /\ (u \in Range(runQueue) => RunNodeLinked(u))
            BY <1>0 DEF TypeOK, ListsInv, RunNodeLinked
        <3> QED BY <2>1, <2>2, <3>1, AppendNodeFacts, ZenonT(60)
    <2> HIDE DEF u
    <2>5. /\ state' = [state EXCEPT ![u] = "Ready"]
          /\ UNCHANGED <<current, zombies, waitLinked, remaining, quantum, pc, reaping, irq>>
        BY <1>4, <2>1, Zenon DEF TickWake, u
    <2>6. /\ state' \in [AllThreads -> ThreadState \cup {"Absent"}]
          /\ \A t \in AllThreads : state'[t] = IF t = u THEN "Ready" ELSE state[t]
        BY <1>0, <2>2, <2>5, Zenon DEF TypeOK, AllThreads, ThreadState
    <2>7. TypeOK'
        BY <1>0, <2>3, <2>4, <2>5, <2>6, Zenon DEF TypeOK
    <2>8. ListsInv'
        BY <1>0, <2>3, <2>4, <2>5 DEF ListsInv
    <2>9. CpuInv'
        BY <1>0, <2>2, <2>4, <2>5, <2>6, Zenon DEF CpuInv, AllThreads, TypeOK
    <2>10. ASSUME NEW t \in Threads PROVE ThreadInv(t)'
        BY <1>0, <2>2, <2>3, <2>4, <2>5, <2>6, Zenon DEF ThreadInv, Exiting, AllThreads, RunNodeLinked
    <2> QED BY <2>7, <2>8, <2>9, <2>10 DEF IInv
<1>5. CASE TickEnd
    <2>1. /\ UNCHANGED <<zombies, sleepers, waitLinked, remaining, pc, reaping>>
          /\ irq' \in {"none", "tick", "device"}
        BY <1>5, Zenon DEF TickEnd
    <2>2. CASE SwitchToNext
        <3>1. /\ pc' \in [AllThreads -> PcValues]
              /\ \A t \in AllThreads : t # current => pc'[t] = pc[t]
              /\ pc[current] \in {"exit", "dead"} <=> pc'[current] \in {"exit", "dead"}
            BY <1>0, <2>1 DEF TypeOK
        <3> QED BY <2>1, <2>2, <3>1, SwitchInv
    <2>3. CASE UNCHANGED <<state, current, runQueue>> /\ quantum' \in 0..Quantum
        <3>1. TypeOK'
            BY <1>0, <2>1, <2>3, Zenon DEF TypeOK
        <3>2. ListsInv' /\ CpuInv' /\ \A t \in Threads : ThreadInv(t)'
            BY <1>0, <2>1, <2>3, ZenonT(60) DEF ListsInv, CpuInv, ThreadInv, Exiting
        <3> QED BY <3>1, <3>2 DEF IInv
    <2>4. quantum \in 0..Quantum
        BY <1>0 DEF TypeOK
    <2> QED BY <1>5, <2>2, <2>3, <2>4, SMTT(60) DEF TickEnd
<1>6. ASSUME NEW t \in Threads, Enqueue(t) PROVE IInv'
    <2>1. ~RunNodeLinked(t) /\ state[t] = "Absent" /\ t # current
        BY <1>0, <1>6, Zenon DEF Enqueue, ThreadInv, CpuInv, RunNodeLinked
    <2>2. /\ runQueue' \in Seq(Threads) /\ Injective(runQueue')
          /\ Range(runQueue') = Range(runQueue) \cup {t}
        <3>1. runQueue \in Seq(Threads) /\ Injective(runQueue) /\ RunNodeLinked(t) \in BOOLEAN
              /\ (t \in Range(runQueue) => RunNodeLinked(t))
            BY <1>0 DEF TypeOK, ListsInv, RunNodeLinked
        <3>2. runQueue' = AppendNode(runQueue, t, RunNodeLinked(t))
            BY <1>6, Zenon DEF Enqueue
        <3> QED BY <2>1, <3>1, <3>2, AppendNodeFacts, ZenonT(60)
    <2>3. /\ state' \in [AllThreads -> ThreadState \cup {"Absent"}]
          /\ \A u \in AllThreads : state'[u] = IF u = t THEN "Ready" ELSE state[u]
          /\ pc' \in [AllThreads -> PcValues]
          /\ \A u \in AllThreads : pc'[u] = IF u = t THEN "run" ELSE pc[u]
          /\ UNCHANGED <<current, zombies, sleepers, waitLinked, remaining, quantum,
                         reaping, irq>>
        BY <1>0, <1>6, Zenon DEF Enqueue, TypeOK, AllThreads, ThreadState, PcValues
    <2>4. TypeOK'
        BY <1>0, <2>2, <2>3, Zenon DEF TypeOK
    <2>5. ListsInv'
        BY <1>0, <2>2, <2>3, Zenon DEF ListsInv
    <2>6. CpuInv'
        BY <1>0, <2>1, <2>2, <2>3, SMTT(60) DEF CpuInv, AllThreads, TypeOK
    <2>7. ASSUME NEW u \in Threads PROVE ThreadInv(u)'
        BY <1>0, <2>1, <2>2, <2>3, ZenonT(60) DEF ThreadInv, Exiting, AllThreads
    <2> QED BY <2>4, <2>5, <2>6, <2>7 DEF IInv
<1>7. ASSUME NEW t \in Threads, NEW reason \in {"Blocked", "Stopped"}, BlockCurrent(t, reason)
      PROVE  IInv'
    <2>1. t = current /\ t # Idle /\ state[t] = "Running" /\ pc[t] = "run"
        BY <1>0, <1>7, Zenon DEF BlockCurrent, RunningCode, CpuInv
    <2>2. /\ state' \in [AllThreads -> ThreadState \cup {"Absent"}]
          /\ \A u \in AllThreads : state'[u] = IF u = t THEN reason ELSE state[u]
          /\ pc' \in [AllThreads -> PcValues]
          /\ \A u \in AllThreads : pc'[u] = IF u = t THEN "yield" ELSE pc[u]
          /\ UNCHANGED <<current, runQueue, zombies, sleepers, waitLinked, remaining,
                         quantum, reaping, irq>>
        BY <1>0, <1>7, Zenon DEF BlockCurrent, TypeOK, AllThreads, ThreadState, PcValues
    <2>3. TypeOK'
        BY <1>0, <2>2, Zenon DEF TypeOK
    <2>4. ListsInv'
        BY <1>0, <2>2, Zenon DEF ListsInv
    <2>5. CpuInv'
        BY <1>0, <2>1, <2>2, SMTT(60) DEF CpuInv, AllThreads, TypeOK
    <2>6. ASSUME NEW u \in Threads PROVE ThreadInv(u)'
        BY <1>0, <2>1, <2>2, ZenonT(60) DEF ThreadInv, Exiting, AllThreads
    <2> QED BY <2>3, <2>4, <2>5, <2>6 DEF IInv
<1>8. ASSUME NEW t \in Threads, NEW ticks \in 0..MaxSleep, Sleep(t, ticks) PROVE IInv'
    <2>1. t = current /\ t # Idle /\ state[t] = "Running" /\ pc[t] = "run" /\ t \notin waitLinked
        BY <1>0, <1>8, Zenon DEF Sleep, RunningCode, CpuInv
    <2>2. /\ sleepers' \in Seq(Threads) /\ Injective(sleepers')
          /\ Range(sleepers') = Range(sleepers) \cup {t}
        <3>1. /\ sleepers \in Seq(Threads) /\ Injective(sleepers)
              /\ WaitNodeLinked(t) \in BOOLEAN /\ ~WaitNodeLinked(t) /\ t \notin Range(sleepers)
            BY <1>0, <2>1, SMTT(60) DEF TypeOK, ListsInv, WaitNodeLinked, ThreadInv
        <3>2. sleepers' = AppendNode(sleepers, t, WaitNodeLinked(t))
            BY <1>8 DEF Sleep
        <3> QED BY <3>1, <3>2, AppendNodeFacts
    <2>3. /\ state' \in [AllThreads -> ThreadState \cup {"Absent"}]
          /\ \A u \in AllThreads : state'[u] = IF u = t THEN "Sleeping" ELSE state[u]
          /\ pc' \in [AllThreads -> PcValues]
          /\ \A u \in AllThreads : pc'[u] = IF u = t THEN "yield" ELSE pc[u]
          /\ remaining' \in [Threads -> 0..MaxSleep]
          /\ UNCHANGED <<current, runQueue, zombies, waitLinked, quantum, reaping, irq>>
        BY <1>0, <1>8, Zenon DEF Sleep, TypeOK, AllThreads, ThreadState, PcValues
    <2>4. TypeOK'
        BY <1>0, <2>2, <2>3, Zenon DEF TypeOK
    <2>5. ListsInv'
        BY <1>0, <2>2, <2>3, Zenon DEF ListsInv
    <2>6. CpuInv'
        BY <1>0, <2>1, <2>3, Zenon DEF CpuInv, AllThreads, TypeOK
    <2>7. ASSUME NEW u \in Threads PROVE ThreadInv(u)'
        BY <1>0, <2>1, <2>2, <2>3, ZenonT(60) DEF ThreadInv, Exiting, AllThreads
    <2> QED BY <2>4, <2>5, <2>6, <2>7 DEF IInv
<1>9. ASSUME NEW t \in Threads, ExitCurrent(t) PROVE IInv'
    <2>1. t = current /\ t # Idle /\ state[t] = "Running" /\ pc[t] = "run" /\ t \notin waitLinked
        BY <1>0, <1>9, Zenon DEF ExitCurrent, RunningCode, CpuInv
    <2>2. /\ zombies' \in Seq(Threads) /\ Injective(zombies')
          /\ Range(zombies') = Range(zombies) \cup {t}
        <3>1. /\ zombies \in Seq(Threads) /\ Injective(zombies)
              /\ RunNodeLinked(t) \in BOOLEAN /\ ~RunNodeLinked(t) /\ t \notin Range(zombies)
            BY <1>0, <2>1, SMTT(60) DEF TypeOK, ListsInv, CpuInv, RunNodeLinked, ThreadInv
        <3>2. zombies' = AppendNode(zombies, t, RunNodeLinked(t))
            BY <1>9 DEF ExitCurrent
        <3> QED BY <3>1, <3>2, AppendNodeFacts
    <2>3. /\ state' \in [AllThreads -> ThreadState \cup {"Absent"}]
          /\ \A u \in AllThreads : state'[u] = IF u = t THEN "Zombie" ELSE state[u]
          /\ pc' \in [AllThreads -> PcValues]
          /\ \A u \in AllThreads : pc'[u] = IF u = t THEN "exit" ELSE pc[u]
          /\ UNCHANGED <<current, runQueue, sleepers, waitLinked, remaining, quantum,
                         reaping, irq>>
        BY <1>0, <1>9, Zenon DEF ExitCurrent, TypeOK, AllThreads, ThreadState, PcValues
    <2>4. TypeOK'
        BY <1>0, <2>2, <2>3, Zenon DEF TypeOK
    <2>5. ListsInv'
        BY <1>0, <2>1, <2>2, <2>3, Zenon DEF ListsInv
    <2>6. CpuInv'
        BY <1>0, <2>1, <2>3, Zenon DEF CpuInv, AllThreads, TypeOK
    <2>7. ASSUME NEW u \in Threads PROVE ThreadInv(u)'
        BY <1>0, <2>1, <2>2, <2>3, SMTT(60) DEF ThreadInv, CpuInv, Exiting, AllThreads
    <2> QED BY <2>4, <2>5, <2>6, <2>7 DEF IInv
<1>10. ASSUME NEW t \in Threads, Unblock(t) PROVE IInv'
    <2>1. /\ state[t] \notin {"Absent", "Running", "Ready"} /\ t # reaping
          /\ t \notin Range(runQueue)
        BY <1>0, <1>10, Zenon DEF Unblock, CpuInv
    <2>2. /\ runQueue' \in Seq(Threads) /\ Injective(runQueue')
          /\ Range(runQueue') = Range(runQueue) \cup (IF t \in Range(zombies) THEN {} ELSE {t})
        <3>1. /\ runQueue \in Seq(Threads) /\ Injective(runQueue)
              /\ RunNodeLinked(t) \in BOOLEAN
              /\ (RunNodeLinked(t) <=> t \in Range(zombies))
            BY <1>0, <2>1 DEF TypeOK, ListsInv, RunNodeLinked
        <3>2. runQueue' = AppendNode(runQueue, t, RunNodeLinked(t))
            BY <1>10 DEF Unblock
        <3> QED BY <2>1, <3>1, <3>2, AppendNodeFacts
    <2>3. /\ sleepers' \in Seq(Threads) /\ Injective(sleepers')
          /\ Range(sleepers') = Range(sleepers) \ {t}
        <3>1. CASE state[t] = "Sleeping"
            <4>1. t \in Range(sleepers)
                BY <1>0, <3>1, Zenon DEF ThreadInv
            <4>2. sleepers' = RemoveNode(sleepers, t)
                BY <1>10, <3>1, <4>1, Zenon DEF Unblock, WaitNodeLinked
            <4> QED BY <1>0, <4>1, <4>2, RemoveNodeFacts, Zenon DEF TypeOK, ListsInv
        <3>2. CASE state[t] # "Sleeping"
            <4>1. t \notin Range(sleepers) /\ sleepers' = sleepers
                BY <1>0, <1>10, <3>2, Zenon DEF ThreadInv, Unblock
            <4> QED BY <1>0, <4>1, SMTT(60) DEF TypeOK, ListsInv
        <3> QED BY <3>1, <3>2, Zenon
    <2>4. /\ state' \in [AllThreads -> ThreadState \cup {"Absent"}]
          /\ \A u \in AllThreads : state'[u] = IF u = t THEN "Ready" ELSE state[u]
          /\ UNCHANGED <<current, zombies, waitLinked, remaining, quantum, pc, reaping, irq>>
        BY <1>0, <1>10, Zenon DEF Unblock, TypeOK, AllThreads, ThreadState
    <2>5. TypeOK'
        BY <1>0, <2>2, <2>3, <2>4, Zenon DEF TypeOK
    <2>6. ListsInv'
        BY <1>0, <2>2, <2>3, <2>4, Zenon DEF ListsInv
    <2>7. CpuInv'
        BY <1>0, <2>1, <2>2, <2>4, Zenon DEF CpuInv, AllThreads, TypeOK
    <2>8. ASSUME NEW u \in Threads PROVE ThreadInv(u)'
        BY <1>0, <2>1, <2>2, <2>3, <2>4, ZenonT(60) DEF ThreadInv, Exiting, AllThreads
    <2> QED BY <2>5, <2>6, <2>7, <2>8 DEF IInv
<1>11. ASSUME NEW t \in Threads, LinkWaiter(t) PROVE IInv'
    <2>1. t = current /\ state[t] = "Running"
        BY <1>0, <1>11, Zenon DEF LinkWaiter, RunningCode, CpuInv
    <2>2. /\ waitLinked' = waitLinked \cup {t}
          /\ UNCHANGED <<state, current, runQueue, zombies, sleepers, remaining, quantum,
                         pc, reaping, irq>>
        BY <1>11, SMTT(60) DEF LinkWaiter
    <2>3. TypeOK' /\ ListsInv' /\ CpuInv'
        BY <1>0, <2>2, Zenon DEF TypeOK, ListsInv, CpuInv
    <2>4. ASSUME NEW u \in Threads PROVE ThreadInv(u)'
        BY <1>0, <2>1, <2>2, Zenon DEF ThreadInv, Exiting
    <2> QED BY <2>3, <2>4 DEF IInv
<1>12. ASSUME NEW t \in Threads, UnlinkWaiter(t) PROVE IInv'
    <2>1. /\ waitLinked' = waitLinked \ {t}
          /\ UNCHANGED <<state, current, runQueue, zombies, sleepers, remaining, quantum,
                         pc, reaping, irq>>
        BY <1>12 DEF UnlinkWaiter
    <2>2. TypeOK' /\ ListsInv' /\ CpuInv'
        BY <1>0, <2>1, Zenon DEF TypeOK, ListsInv, CpuInv
    <2>3. ASSUME NEW u \in Threads PROVE ThreadInv(u)'
        BY <1>0, <2>1, Zenon DEF ThreadInv, Exiting
    <2> QED BY <2>2, <2>3 DEF IInv
<1>13. CASE DeviceBegin \/ DeviceEnd
    <2>1. /\ irq' \in {"none", "device"}
          /\ UNCHANGED <<state, current, runQueue, zombies, sleepers, waitLinked,
                         remaining, quantum, pc, reaping>>
        BY <1>13 DEF DeviceBegin, DeviceEnd
    <2>2. TypeOK'
        BY <1>0, <2>1, Zenon DEF TypeOK
    <2>3. ListsInv' /\ CpuInv' /\ \A t \in Threads : ThreadInv(t)'
        BY <1>0, <2>1, ZenonT(60) DEF ListsInv, CpuInv, ThreadInv, Exiting
    <2> QED BY <2>2, <2>3 DEF IInv
<1>14. CASE ReapTake
    <2>1. /\ current = Idle /\ reaping = NoThread /\ zombies # <<>>
          /\ reaping' = Head(zombies) /\ zombies' = Tail(zombies)
          /\ UNCHANGED <<state, current, runQueue, sleepers, waitLinked, remaining,
                         quantum, pc, irq>>
        BY <1>14 DEF ReapTake, RunningCode
    <2>2. /\ reaping' \in Range(zombies) /\ reaping' \in Threads
          /\ zombies' \in Seq(Threads) /\ Injective(zombies')
          /\ Range(zombies') = Range(zombies) \ {reaping'}
        BY <1>0, <2>1, TailFacts, Zenon DEF TypeOK, ListsInv
    <2>3. TypeOK'
        BY <1>0, <2>1, <2>2, Zenon DEF TypeOK
    <2>4. ListsInv' /\ CpuInv'
        BY <1>0, <2>1, <2>2, Zenon DEF ListsInv, CpuInv
    <2>5. ASSUME NEW u \in Threads PROVE ThreadInv(u)'
        BY <1>0, <2>1, <2>2, Zenon DEF ThreadInv, Exiting
    <2> QED BY <2>3, <2>4, <2>5 DEF IInv
<1>15. CASE ReapFree
    <2>1. /\ current = Idle /\ reaping # NoThread /\ reaping \in Threads /\ reaping' = NoThread
          /\ UNCHANGED <<current, runQueue, zombies, sleepers, waitLinked, remaining,
                         quantum, pc, irq>>
        BY <1>0, <1>15, Zenon DEF ReapFree, RunningCode, TypeOK
    <2>2. /\ state' \in [AllThreads -> ThreadState \cup {"Absent"}]
          /\ \A u \in AllThreads : state'[u] = IF u = reaping THEN "Absent" ELSE state[u]
        BY <1>0, <1>15, <2>1, Zenon DEF ReapFree, TypeOK, AllThreads
    <2>3. TypeOK'
        BY <1>0, <2>1, <2>2, Zenon DEF TypeOK
    <2>4. ListsInv' /\ CpuInv'
        BY <1>0, <2>1, <2>2, Zenon DEF ListsInv, CpuInv, ThreadInv, AllThreads
    <2>5. ASSUME NEW u \in Threads PROVE ThreadInv(u)'
        BY <1>0, <2>1, <2>2, ZenonT(60) DEF ThreadInv, ListsInv, CpuInv, Exiting, AllThreads
    <2> QED BY <2>3, <2>4, <2>5 DEF IInv
<1> QED
    BY <1>1, <1>2, <1>3, <1>4, <1>5, <1>6, <1>7, <1>8, <1>9, <1>10, <1>11, <1>12,
       <1>13, <1>14, <1>15 DEF Next, ThreadStep, Timer

\* The invariant holds in every state.
LEMMA InvHolds == Spec => []IInv
<1> QED BY InitInv, NextInv, PTL DEF Spec

-----------------------------------------------------------------------------
\* Type correctness.
THEOREM TypeCorrect == Spec => []TypeOK
<1>1. IInv => TypeOK
    BY DEF IInv
<1> QED BY <1>1, InvHolds, PTL

\* No runnable thread is ever lost by the scheduler.
THEOREM RunnableNeverLost == Spec => []RunnableIsQueued
<1>1. IInv => RunnableIsQueued
    BY Zenon DEF IInv, ThreadInv, Exiting, RunnableIsQueued
<1> QED BY <1>1, InvHolds, PTL

\* The run queue holds Ready threads, each once, and only the current thread
\* is Running.
THEOREM RunQueueCorrect == Spec => []RunQueueSound
<1>1. ASSUME IInv PROVE RunQueueSound
    <2>1. \A i \in DOMAIN runQueue : runQueue[i] \in Range(runQueue)
        BY DEF Range
    <2> QED BY <1>1, <2>1, Zenon DEF IInv, CpuInv, ListsInv, Injective, RunQueueSound
<1> QED BY <1>1, InvHolds, PTL

\* A Sleeping thread is on s_sleepers and on no other list of that node.
THEOREM SleepersCorrect == Spec => []SleeperIsListed
<1>1. IInv => SleeperIsListed
    BY Zenon DEF IInv, ThreadInv, SleeperIsListed
<1> QED BY <1>1, InvHolds, PTL

\* Every thread is on the lists its state calls for and on no others, for any
\* number of threads.
THEOREM ListsCorrect == Spec => []ListsSound
BY RunnableNeverLost, RunQueueCorrect, SleepersCorrect, PTL DEF ListsSound

\* The panic of exit_current is unreachable.
THEOREM ExitIsFinal == Spec => []ZombieNeverScheduled
<1>1. IInv => ZombieNeverScheduled
    BY Zenon DEF IInv, ThreadInv, ZombieNeverScheduled
<1> QED BY <1>1, InvHolds, PTL

\* A Thread that has been freed, or is being freed, is on no list and has not
\* the CPU.
THEOREM FreedNeverReached == Spec => []FreedIsUnreachable
<1>1. ASSUME IInv, NEW t \in Threads, state[t] = "Absent" \/ t = reaping
      PROVE  /\ t # current
             /\ t \notin Range(runQueue) \cup Range(zombies) \cup Range(sleepers) \cup waitLinked
    BY <1>1, NoThreadAssumption, Zenon DEF IInv, ThreadInv, CpuInv, ListsInv
<1>2. IInv => FreedIsUnreachable
    BY <1>1 DEF FreedIsUnreachable
<1> QED BY <1>2, InvHolds, PTL

\* A thread that exited never has the CPU again, and its memory is freed only
\* when nothing refers to it.
THEOREM ExitCorrect == Spec => []ExitSound
BY ExitIsFinal, FreedNeverReached, PTL DEF ExitSound
=============================================================================
