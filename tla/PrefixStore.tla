---------------------------- MODULE PrefixStore ----------------------------
(***************************************************************************)
(* What the logic store promises its readers.  It holds a run of samples    *)
(* that grows at its end, may be forgotten from its start and is cleared by *)
(* a new acquisition.  A walk looks at a part of it as it was when the walk *)
(* began, and reports every place where the level changes and no other,     *)
(* save next to samples that were never delivered.                          *)
(***************************************************************************)
EXTENDS Integers, FiniteSets

CONSTANT Lost   \* the value of a sample that was not delivered

VARIABLES
    data,    \* the samples held: a function on an interval of sample numbers
    snap,    \* the part a walk in progress looks at, Nothing when there is none
    answer   \* the edges it reported

\* No samples.
Nothing == [s \in {} |-> Lost]

\* The part of f whose sample numbers are in S.
Part(f, S) == [s \in DOMAIN f \cap S |-> f[s]]

\* Where the level changes between two delivered samples of f.
EdgesOf(f) == {s \in DOMAIN f : /\ s - 1 \in DOMAIN f
                                /\ f[s] # Lost /\ f[s - 1] # Lost
                                /\ f[s] # f[s - 1]}

\* The samples of f at which nothing is promised.
Unclear(f) == {s \in DOMAIN f : /\ s - 1 \in DOMAIN f
                                /\ f[s] = Lost \/ f[s - 1] = Lost}

Init == /\ data = Nothing /\ snap = Nothing /\ answer = {}

Grow   == /\ DOMAIN data \subseteq DOMAIN data'
          /\ Part(data', DOMAIN data) = data
          /\ UNCHANGED << snap, answer >>

Forget == /\ data' = Part(data, DOMAIN data')
          /\ \A s \in DOMAIN data', t \in DOMAIN data : t > s => t \in DOMAIN data'
          /\ UNCHANGED << snap, answer >>

Begin  == /\ snap' = Part(data, DOMAIN snap')
          /\ DOMAIN snap' # {}
          /\ UNCHANGED << data, answer >>

Report == /\ answer = {}
          /\ EdgesOf(snap) \subseteq answer'
          /\ answer' \subseteq EdgesOf(snap) \cup Unclear(snap)
          /\ UNCHANGED << data, snap >>

End    == /\ snap' = Nothing /\ answer' = {}
          /\ UNCHANGED data

Next == Grow \/ Forget \/ Begin \/ Report \/ End

Spec == Init /\ [][Next]_<< data, snap, answer >>
=============================================================================
