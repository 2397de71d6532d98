------------------------------ MODULE MCFiles ------------------------------
(* Instances of Files for TLC.                                              *)
EXTENDS Files

CONSTANTS a, b

ShortPaths == {<<a>>, <<b>>, <<a, b>>, <<"..">>, <<"..", a>>}

(* Three kinds of history: trees of up to three inodes, with one process    *)
(* and one descriptor, on anything; one inode, with two descriptors on it;   *)
(* and one inode with all four, from processes that stay in the root.        *)
Created == Cardinality(Live) - 3
Used(p) == Cardinality({f \in Fds : fds[p][f].to # Null})
Bounded ==
    \/ Used(InitProc) <= 1 /\ \A p \in Procs \ {InitProc} : proc[p] = "none"
    \/ /\ Created <= 1
       /\ Cardinality({pf \in Procs \X Fds : fds[pf[1]][pf[2]].to # Null}) <= 2
       /\ \A d \in IsOpen : open[d].inode \notin {Root, Tmp}
    \/ /\ Created <= 1
       /\ \A d \in IsOpen : open[d].inode \notin {Root, Tmp}
       /\ \A p \in Procs : cwd[p] \in {Root, Null} /\ proc[p] # "stuck"

BoundedSpec == Init /\ [][Next /\ Bounded']_vars

Symmetry == Permutations(Inodes \ {Root, Covered, Tmp})
=============================================================================
