-------------------------------- MODULE Shell --------------------------------
(***************************************************************************)
(* The shell, user/bin/sh.c: pipelines, process groups and the terminal    *)
(* they are given, waiting for a job, the job table, and how a line is     *)
(* split into arguments.                                                   *)
(*                                                                         *)
(* The kernel's side (fork, setpgid, TIOCSPGRP, waitpid, signals of the    *)
(* terminal) is used as the shell relies on it.  A program run by a stage  *)
(* exits when it likes if it is the first, and at end of file of its input *)
(* otherwise.  One step is one system call of the shell or a child, the    *)
(* closes of one branch together.                                          *)
(***************************************************************************)
EXTENDS Integers, Sequences, FiniteSets

CONSTANTS
    Lines,          \* what is typed: a sequence of [stages, background]
    MaxStages,
    MaxJobs,        \* MAX_JOBS
    MaxSignals,     \* bound on ^Z and ^C
    Words,          \* arguments the tokenizer is checked on
    MaxWords

VARIABLES
    pc,             \* where the shell is; "words" while only the tokenizer is tried
    line,           \* the line being run
    stage,          \* i of run_pipeline
    inputFd,        \* the pipe whose read end is kept for the next stage, or 0
    group,          \* pgid of run_pipeline and wait_for_job
    kid,            \* pid -> [at, group, fds, stopped, told]
    held,           \* the pipe ends open in the shell
    foreground,     \* the terminal's foreground group
    jobs,           \* s_jobs: slot -> [group, stopped], NoJob when unused
    signals,        \* ^Z and ^C typed
    late,           \* a job was left stopped before all of it had started
    words           \* arguments quoted onto a line

shvars == <<pc, line, stage, inputFd, group, kid, held, foreground, jobs, signals, late, words>>

Sh == 0                       \* the shell's group
Pids == 1..(Len(Lines) * MaxStages)
Pid(n, i) == (n - 1) * MaxStages + i
NoJob == [group |-> 0, stopped |-> FALSE]
Unborn == [at |-> "unborn", group |-> Sh, fds |-> {}, stopped |-> FALSE, told |-> FALSE]
Alive(p) == kid[p].at \notin {"unborn", "zombie", "reaped"}
Members(g) == {p \in Pids : kid[p].at \notin {"unborn", "reaped"} /\ kid[p].group = g}
Stages == Lines[line].stages
Background == Lines[line].background
rest == <<line, kid, held, jobs, signals, late, words>>

(***************************************************************************)
(* run_pipeline                                                            *)
(***************************************************************************)
\* pipe() before every stage but the last, then fork: the child has the
\* shell's descriptors and its group.
Fork ==
    LET p == Pid(line, stage)
        mine == IF stage < Stages THEN held \cup {<<p, "r">>, <<p, "w">>} ELSE held
    IN
    /\ pc = "fork"
    /\ held' = mine
    /\ kid' = [kid EXCEPT ![p] = [Unborn EXCEPT !.at = "new", !.fds = mine]]
    /\ pc' = "adopt"
    /\ UNCHANGED <<line, stage, inputFd, group, foreground, jobs, signals, late, words>>

\* setpgid(child, pgid) in the parent; the group is the first child's pid.
Adopt ==
    LET p == Pid(line, stage)  g == IF group = 0 THEN p ELSE group IN
    /\ pc = "adopt"
    /\ group' = g
    /\ kid' = [kid EXCEPT ![p].group = g]
    /\ pc' = "close"
    /\ UNCHANGED <<line, stage, inputFd, held, foreground, jobs, signals, late, words>>

\* A bug: the shell keeps the write end of the new pipe.
CloseInput ==
    /\ pc = "close"
    /\ held' = held \ {<<inputFd, "r">>}
    /\ inputFd' = IF stage < Stages THEN Pid(line, stage) ELSE inputFd
    /\ IF stage < Stages THEN stage' = stage + 1 /\ pc' = "fork"
       ELSE stage' = stage /\ pc' = IF Background THEN "record" ELSE "hand"
    /\ UNCHANGED <<line, group, kid, foreground, jobs, signals, late, words>>

\* The shell's copies: the old input, and the write end of the new pipe.
Close ==
    LET p == Pid(line, stage) IN
    /\ pc = "close"
    /\ held' = held \ {<<inputFd, "r">>, <<p, "w">>}
    /\ inputFd' = IF stage < Stages THEN p ELSE inputFd
    /\ IF stage < Stages THEN stage' = stage + 1 /\ pc' = "fork"
       ELSE stage' = stage /\ pc' = IF Background THEN "record" ELSE "hand"
    /\ UNCHANGED <<line, group, kid, foreground, jobs, signals, late, words>>

\* tcsetpgrp: refused when no process of the group is running.
SetForeground(g) ==
    foreground' = IF g = Sh \/ \E p \in Members(g) : Alive(p) THEN g ELSE foreground

Hand ==
    /\ pc = "hand"
    /\ SetForeground(group)
    /\ pc' = "wait"
    /\ UNCHANGED <<stage, inputFd, group, rest>>

(***************************************************************************)
(* The job table                                                           *)
(***************************************************************************)
find_job(g) == {s \in 1..MaxJobs : jobs[s] # NoJob /\ jobs[s].group = g}

add_job(g, stopped) ==
    LET free == {s \in 1..MaxJobs : jobs[s] = NoJob}
        slots == IF find_job(g) # {} THEN find_job(g) ELSE free
    IN IF slots = {} THEN jobs
       ELSE [jobs EXCEPT ![CHOOSE s \in slots : \A t \in slots : s <= t] =
                [group |-> g, stopped |-> stopped]]

remove_job(g) == [s \in 1..MaxJobs |-> IF s \in find_job(g) THEN NoJob ELSE jobs[s]]

Record ==
    /\ pc = "record"
    /\ jobs' = add_job(group, FALSE)
    /\ pc' = "reap"
    /\ UNCHANGED <<line, stage, inputFd, group, kid, held, foreground, signals, late, words>>

(***************************************************************************)
(* wait_for_job: waitpid(-pgid, WUNTRACED) until the group is empty or one *)
(* of it has stopped, then reclaim_terminal                                *)
(***************************************************************************)
WaitReaps ==
    /\ pc = "wait"
    /\ \E p \in Members(group) :
        /\ kid[p].at = "zombie"
        /\ kid' = [kid EXCEPT ![p].at = "reaped"]
    /\ UNCHANGED <<pc, line, stage, inputFd, group, held, foreground, jobs, signals, late, words>>

WaitStops ==
    /\ pc = "wait"
    /\ \E p \in Members(group) :
        /\ Alive(p) /\ kid[p].stopped /\ ~kid[p].told
        /\ kid' = [kid EXCEPT ![p].told = TRUE]
    /\ jobs' = add_job(group, TRUE)
    /\ late' = (late \/ \E p \in Members(group) : kid[p].at \in {"new", "default", "grouped"})
    /\ foreground' = Sh
    /\ pc' = "reap"
    /\ UNCHANGED <<line, stage, inputFd, group, held, signals, words>>

\* A bug: the terminal is not reclaimed.
WaitEndsKeeps ==
    /\ pc = "wait"
    /\ Members(group) = {}
    /\ jobs' = remove_job(group)
    /\ pc' = "reap"
    /\ UNCHANGED <<line, stage, inputFd, group, kid, held, foreground, signals, late, words>>

WaitEnds ==
    /\ pc = "wait"
    /\ Members(group) = {}
    /\ jobs' = remove_job(group)
    /\ foreground' = Sh
    /\ pc' = "reap"
    /\ UNCHANGED <<line, stage, inputFd, group, kid, held, signals, late, words>>

\* reap_background_jobs: waitpid(-1, WNOHANG | WUNTRACED) until it has nothing.
\* getpgid of a reaped child fails, and the child's own pid is looked up instead.
Reap ==
    /\ pc = "reap"
    /\ \/ \E p \in Pids :
            /\ kid[p].at = "zombie"
            /\ kid' = [kid EXCEPT ![p].at = "reaped"]
            /\ jobs' = remove_job(p)
            /\ UNCHANGED pc
       \/ \E p \in Pids :
            /\ Alive(p) /\ kid[p].stopped /\ ~kid[p].told
            /\ kid' = [kid EXCEPT ![p].told = TRUE]
            /\ jobs' = [s \in 1..MaxJobs |-> IF s \in find_job(kid[p].group)
                                             THEN [jobs[s] EXCEPT !.stopped = TRUE] ELSE jobs[s]]
            /\ UNCHANGED pc
       \/ /\ \A p \in Pids : kid[p].at # "zombie" /\ ~(Alive(p) /\ kid[p].stopped /\ ~kid[p].told)
          /\ pc' = "prompt"
          /\ UNCHANGED <<kid, jobs>>
    /\ UNCHANGED <<line, stage, inputFd, group, held, foreground, signals, late, words>>

(***************************************************************************)
(* What is typed: a pipeline, fg, or bg                                    *)
(***************************************************************************)
Type ==
    /\ pc = "prompt" /\ line < Len(Lines)
    /\ line' = line + 1
    /\ stage' = 1 /\ inputFd' = 0 /\ group' = 0
    /\ pc' = "fork"
    /\ UNCHANGED <<kid, held, foreground, jobs, signals, late, words>>

current_job ==
    LET used == {s \in 1..MaxJobs : jobs[s] # NoJob}
    IN IF used = {} THEN 0 ELSE CHOOSE s \in used : \A t \in used : t <= s

Continue(g) == [p \in Pids |-> IF p \in Members(g) /\ Alive(p)
                               THEN [kid[p] EXCEPT !.stopped = FALSE, !.told = FALSE] ELSE kid[p]]

fg ==
    /\ pc = "prompt" /\ current_job # 0
    /\ group' = jobs[current_job].group
    /\ jobs' = [jobs EXCEPT ![current_job].stopped = FALSE]
    /\ SetForeground(jobs[current_job].group)
    /\ kid' = Continue(jobs[current_job].group)
    /\ pc' = "wait"
    /\ UNCHANGED <<line, stage, inputFd, held, signals, late, words>>

bg ==
    /\ pc = "prompt" /\ current_job # 0 /\ jobs[current_job].stopped
    /\ jobs' = [jobs EXCEPT ![current_job].stopped = FALSE]
    /\ kid' = Continue(jobs[current_job].group)
    /\ pc' = "reap"
    /\ UNCHANGED <<line, stage, inputFd, group, held, foreground, signals, late, words>>

(***************************************************************************)
(* A child between fork and execvp, and the program it becomes             *)
(***************************************************************************)
LineOf(p) == ((p - 1) \div MaxStages) + 1
StageOf(p) == ((p - 1) % MaxStages) + 1
IsLast(p) == StageOf(p) = Lines[LineOf(p)].stages

Runs(p, from) == kid[p].at = from /\ ~kid[p].stopped
others == <<pc, line, stage, inputFd, group, held, jobs, signals, late, words>>

\* signal(..., SIG_DFL): until then the shell's SIG_IGN is inherited.
ChildSignals(p) ==
    /\ Runs(p, "new")
    /\ kid' = [kid EXCEPT ![p].at = "default"]
    /\ UNCHANGED <<others, foreground>>

\* setpgid(0, group) in the child: pgid as it was at fork, or its own pid.
ChildGroup(p) ==
    /\ Runs(p, "default")
    /\ kid' = [kid EXCEPT ![p].at = "grouped", ![p].group = Pid(LineOf(p), 1)]
    /\ UNCHANGED <<others, foreground>>

ChildTakes(p) ==
    /\ Runs(p, "grouped")
    /\ IF Lines[LineOf(p)].background THEN UNCHANGED foreground
       ELSE foreground' = kid[p].group
    /\ kid' = [kid EXCEPT ![p].at = "owner"]
    /\ UNCHANGED others

\* A bug: the read end of its own output pipe stays open.
ChildWiresOpen(p) ==
    /\ Runs(p, "owner")
    /\ kid' = [kid EXCEPT ![p].at = "run", ![p].fds = @ \ {<<p - 2, "r">>}]
    /\ UNCHANGED <<others, foreground>>

\* dup2 and close: standard input and output are the only pipe ends left.
ChildWires(p) ==
    LET in == IF StageOf(p) > 1 THEN {<<p - 1, "r">>} ELSE {}
        out == IF IsLast(p) THEN {} ELSE {<<p, "w">>}
    IN
    /\ Runs(p, "owner")
    /\ kid' = [kid EXCEPT ![p].at = "run",
                          ![p].fds = (@ \ {<<p - 1, "r">>, <<p, "r">>, <<p, "w">>}) \cup in \cup out]
    /\ UNCHANGED <<others, foreground>>

\* The program: the first stage exits when it likes, the others at end of file.
EndOfFile(p) ==
    /\ <<p - 1, "w">> \notin held
    /\ \A q \in Pids : Alive(q) => <<p - 1, "w">> \notin kid[q].fds

Exit(p) ==
    /\ Runs(p, "run")
    /\ StageOf(p) > 1 => EndOfFile(p)
    /\ kid' = [kid EXCEPT ![p].at = "zombie", ![p].fds = {}]
    /\ UNCHANGED <<others, foreground>>

Child(p) == ChildSignals(p) \/ ChildGroup(p) \/ ChildTakes(p) \/ ChildWires(p) \/ Exit(p)

\* ^Z and ^C reach every process of the foreground group whose reaction is the
\* default one.
Hears(p) == Alive(p) /\ kid[p].at # "new" /\ kid[p].group = foreground

Suspend ==
    /\ signals < MaxSignals
    /\ \E p \in Pids : Hears(p) /\ ~kid[p].stopped
    /\ signals' = signals + 1
    /\ kid' = [p \in Pids |-> IF Hears(p) THEN [kid[p] EXCEPT !.stopped = TRUE] ELSE kid[p]]
    /\ UNCHANGED <<pc, line, stage, inputFd, group, held, foreground, jobs, late, words>>

Interrupt ==
    /\ signals < MaxSignals
    /\ \E p \in Pids : Hears(p)
    /\ signals' = signals + 1
    /\ kid' = [p \in Pids |-> IF Hears(p) THEN [kid[p] EXCEPT !.at = "zombie", !.fds = {}] ELSE kid[p]]
    /\ UNCHANGED <<pc, line, stage, inputFd, group, held, foreground, jobs, late, words>>

(***************************************************************************)
(* tokenize: split at blanks, a quote at the start of a token groups, an   *)
(* unquoted # ends the line.  A line is a sequence of characters.          *)
(***************************************************************************)
Blanks == {" ", "tab"}
Inked(text) == {text[i] : i \in 1..Len(text)} \ Blanks
Find(text, from, stops) ==
    LET hits == {i \in from..Len(text) : text[i] \in stops}
    IN IF hits = {} THEN Len(text) + 1 ELSE CHOOSE i \in hits : \A j \in hits : i <= j

\* A bug: a hash sign ends the line inside a word too.
tokenize_hash(text) ==
    LET cut == SubSeq(text, 1, Find(text, 1, {"#"}) - 1)
        From[i \in 1..(Len(cut) + 2)] ==
        LET start == Find(cut, i, Inked(cut)) IN
        IF start > Len(cut) THEN <<>>
        ELSE LET end == Find(cut, start, Blanks)
             IN <<SubSeq(cut, start, end - 1)>>
                    \o (IF end >= Len(cut) THEN <<>> ELSE From[end + 1])
    IN From[1]

tokenize(text) ==
    LET From[i \in 1..(Len(text) + 2)] ==
        LET start == Find(text, i, Inked(text)) IN
        IF start > Len(text) THEN <<>>
        ELSE IF text[start] = "#" THEN <<>>
        ELSE LET quoted == text[start] \in {"'", "dquote"}
                 first == IF quoted THEN start + 1 ELSE start
                 end == Find(text, first, IF quoted THEN {text[start]} ELSE Blanks)
             IN <<SubSeq(text, first, end - 1)>>
                    \o (IF end >= Len(text) THEN <<>> ELSE From[end + 1])
    IN From[1]

AddWord(w) ==
    /\ pc = "words" /\ Len(words) < MaxWords
    /\ words' = Append(words, w)
    /\ UNCHANGED <<pc, line, stage, inputFd, group, kid, held, foreground, jobs, signals, late>>

\* A word as one would type it: bare when it may be, quoted otherwise.
Typed(w) ==
    LET special == \E i \in 1..Len(w) : w[i] \in Blanks \/ w[i] \in {"'", "#"}
    IN IF w = <<>> THEN <<"'", "'">>
       ELSE IF ~special THEN w
       ELSE IF \E i \in 1..Len(w) : w[i] = "'" THEN <<"dquote">> \o w \o <<"dquote">>
       ELSE <<"'">> \o w \o <<"'">>

TypedLine(ws) ==
    LET Join[n \in 0..Len(ws)] == IF n = 0 THEN <<>> ELSE Join[n - 1] \o <<" ">> \o Typed(ws[n])
    IN Join[Len(ws)]

(***************************************************************************)
(* The specification, from the point where job control is on               *)
(***************************************************************************)
ShInit ==
    /\ pc \in {"reap", "words"} /\ line = 0 /\ stage = 0 /\ inputFd = 0 /\ group = 0
    /\ kid = [p \in Pids |-> Unborn]
    /\ held = {}
    /\ foreground = Sh
    /\ jobs = [s \in 1..MaxJobs |-> NoJob]
    /\ signals = 0 /\ late = FALSE
    /\ words = <<>>

ShellStep ==
    \/ Fork \/ Adopt \/ Close \/ Hand \/ Record
    \/ WaitReaps \/ WaitStops \/ WaitEnds \/ Reap

ShNext ==
    \/ ShellStep \/ Type \/ fg \/ bg \/ Suspend \/ Interrupt
    \/ \E p \in Pids : Child(p)
    \/ \E w \in Words : AddWord(w)

(***************************************************************************)
(* Properties                                                              *)
(***************************************************************************)
\* At the prompt the terminal belongs to the shell, whichever of the shell and
\* its children handed it to the job last, unless a job was left stopped while
\* one of its processes had yet to take the terminal.
PromptOwnsTerminal == (pc = "prompt" /\ ~late) => foreground = Sh

\* A process that runs a program is in its pipeline's group, never the shell's,
\* although both the shell and the process itself put it there; and it holds no
\* pipe end but its own standard input and output.
WiredAndGrouped ==
    \A p \in Pids : kid[p].at = "run" =>
        /\ kid[p].group = Pid(LineOf(p), 1)
        /\ kid[p].fds \subseteq {<<p - 1, "r">>, <<p, "w">>}

\* A foreground pipeline ends: every stage sees end of file once the one before
\* it is gone, because nobody else keeps a write end, and the shell is back at
\* its prompt.
PromptReturns == (pc = "wait") ~> (pc = "prompt")

\* Arguments survive being typed, quoted where they hold blanks, a quote or a
\* hash sign: tokenize gives back the words, the empty one included.
TokensReturn == tokenize(TypedLine(words)) = words
=============================================================================
