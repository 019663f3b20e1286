---------------------------- MODULE LibraryMirror ----------------------------
(***************************************************************************)
(* What the sync promises of each library, with no job, lease, stage or    *)
(* worker in sight: the workspace sees the library exactly as it was at    *)
(* one version of its history, and only ever moves on to a later one.      *)
(***************************************************************************)
EXTENDS Naturals, Sequences

CONSTANTS Libraries,  \* the libraries
          Contents,   \* what a library can hold
          Empty       \* what it holds before its first version

VARIABLES past,   \* the contents of each library, version by version
          shown,  \* the version the workspace shows
          view    \* what it shows

vars == <<past, shown, view>>

Init == /\ past = [l \in Libraries |-> <<Empty>>]
        /\ shown = [l \in Libraries |-> 1]
        /\ view = [l \in Libraries |-> Empty]

Edit(l) == /\ \E c \in Contents : past' = [past EXCEPT ![l] = Append(@, c)]
           /\ UNCHANGED <<shown, view>>

Show(l) == /\ \E v \in shown[l]..Len(past[l]) :
                /\ shown' = [shown EXCEPT ![l] = v]
                /\ view' = [view EXCEPT ![l] = past[l][v]]
           /\ UNCHANGED past

Next == \E l \in Libraries : Show(l) \/ Edit(l)

Spec == Init /\ [][Next]_vars
=============================================================================
