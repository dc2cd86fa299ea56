--------------------------- MODULE AnnotationStore ---------------------------
(***************************************************************************)
(* The annotations of a buffer (client/src/stores.h, stores.cpp,            *)
(* AnnotationStore): rows sorted by start, searched by the render thread    *)
(* for what is visible, trimmed by the RX thread as the rolling window      *)
(* moves.  Every operation holds the mutex, so each is one step.            *)
(*                                                                         *)
(* Decoders are external: the annotations of a row may come in any order    *)
(* and overlap in any way.                                                  *)
(***************************************************************************)
EXTENDS Naturals, Sequences, FiniteSets, SequencesExt

CONSTANTS
    RowKeys,  \* (stack_id, row_id)
    Times,    \* samples, an interval from 0
    MaxAdds,  \* bound: annotations added
    Amortise  \* dead annotations worth an erase, 1024

ASSUME AnnotationAssumption ==
    Times \subseteq Nat /\ MaxAdds \in Nat /\ Amortise \in Nat

VARIABLES
    rows,     \* rows_
    total,    \* total_
    adds,     \* ghost: annotations added so far, which number them
    trimmed,  \* ghost: the furthest trim_before() since the reset
    added     \* ghost: what was added to each row since then

annVars == << rows, total, adds, trimmed, added >>

AnnInit == /\ rows = [k \in RowKeys |-> << >>] /\ total = 0
           /\ adds = 0 /\ trimmed = 0 /\ added = [k \in RowKeys |-> {}]

\* lower_bound() and the loops: the first element of which T holds, or the end.
FirstIn(v, T(_)) == Min({i \in DOMAIN v : T(v[i])} \cup {Len(v) + 1})

\* add(): at the end, or before the first that does not start earlier.
Placed(v, a) ==
    IF v = << >> \/ a.start >= Last(v).start THEN Append(v, a)
    ELSE InsertAt(v, FirstIn(v, LAMBDA x : x.start >= a.start), a)

Add(k, start, end) ==
    /\ adds < MaxAdds
    /\ LET a == [start |-> start, end |-> end, id |-> adds]
       IN  /\ rows' = [rows EXCEPT ![k] = Placed(@, a)]
           /\ added' = [added EXCEPT ![k] = @ \cup {a}]
    /\ total' = total + 1 /\ adds' = adds + 1
    /\ UNCHANGED trimmed

\* The annotations at the front of a row that end before `sample'.
DeadPrefix(v, sample) == FirstIn(v, LAMBDA x : x.end >= sample) - 1

\* A row is erased from only if that is worth it.
Erased(v, sample) ==
    LET dead == DeadPrefix(v, sample)
    IN  IF dead >= Amortise \/ dead = Len(v) THEN dead ELSE 0

TrimBefore(sample) ==
    /\ trimmed' = IF sample > trimmed THEN sample ELSE trimmed
    /\ rows' = [k \in RowKeys |->
                  SubSeq(rows[k], Erased(rows[k], sample) + 1, Len(rows[k]))]
    /\ total' = total - FoldSet(LAMBDA k, n : n + Erased(rows[k], sample), 0, RowKeys)
    /\ UNCHANGED << adds, added >>

Reset ==
    /\ rows' = [k \in RowKeys |-> << >>] /\ total' = 0
    /\ trimmed' = 0 /\ added' = [k \in RowKeys |-> {}]
    /\ UNCHANGED adds

AnnNext == \/ \E k \in RowKeys, s, e \in Times : s <= e /\ Add(k, s, e)
           \/ \E t \in Times : TrimBefore(t)
           \/ Reset

AnnSpec == AnnInit /\ [][AnnNext]_annVars

-----------------------------------------------------------------------------
(* visit(), what the canvas draws of a row between lo and hi.              *)

\* A mutant: from the first that starts in the window.
FromNoBackup(v, lo) == FirstIn(v, LAMBDA x : x.start >= lo)

\* lower_bound, then back over those that reach into the window.
From(v, lo) ==
    LET at == FirstIn(v, LAMBDA x : x.start >= lo)
    IN  Min({j \in 1 .. at : \A i \in j .. at - 1 : v[i].end >= lo})

Visit(k, lo, hi) ==
    LET rest == SubSeq(rows[k], From(rows[k], lo), Len(rows[k]))
    IN  SubSeq(rest, 1, FirstIn(rest, LAMBDA x : x.start > hi) - 1)

Overlapping(k, lo, hi) == {a \in added[k] : a.start <= hi /\ a.end >= lo}

-----------------------------------------------------------------------------
(* Properties.                                                             *)

\* No annotation of the row contains another.
Unnested(k) == \A a, b \in added[k] : a.start <= b.start => a.end <= b.end

\* In a row whose annotations do not contain one another, the canvas draws
\* exactly the annotations that reach into the view, each once and in start
\* order, for every view inside the rolling window: over late arrivals, trims
\* that take a part of the dead and trims that leave them.
VisitExact ==
    \A k \in RowKeys : Unnested(k) =>
        \A lo, hi \in Times : trimmed <= lo /\ lo <= hi =>
            LET v == Visit(k, lo, hi)
            IN  /\ ToSet(v) = Overlapping(k, lo, hi)
                /\ Len(v) = Cardinality(ToSet(v))
                /\ \A i \in 1 .. Len(v) - 1 : v[i].start <= v[i + 1].start

\* Visit annotations of one row overlapping [lo, hi] (stores.h:157): whatever
\* their shape.
VisitComplete ==
    \A k \in RowKeys : \A lo, hi \in Times : trimmed <= lo /\ lo <= hi =>
        Overlapping(k, lo, hi) \subseteq ToSet(Visit(k, lo, hi))

\* However rows are trimmed, the total the panel and the log show is what the
\* rows hold, and what reaches into the window is kept.
TrimSound ==
    /\ total = FoldSet(LAMBDA k, n : n + Len(rows[k]), 0, RowKeys)
    /\ \A k \in RowKeys : {a \in added[k] : a.end >= trimmed} \subseteq ToSet(rows[k])
=============================================================================
