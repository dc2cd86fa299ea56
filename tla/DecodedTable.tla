---------------------------- MODULE DecodedTable ----------------------------
(***************************************************************************)
(* The table of decoded annotations (client/src/app.cpp,                    *)
(* draw_decoded_panel): rows copied out of the annotation store when its    *)
(* total has changed, at most once in so many frames, or when the filter    *)
(* text changes.  The RX thread adds to the store, trims it and replaces it *)
(* between any two steps of a frame.                                       *)
(***************************************************************************)
EXTENDS Naturals, FiniteSets

CONSTANTS
    Texts,    \* what annotations say
    Filters,  \* what may be typed: the texts it lets through
    Cooldown, \* frames between rebuilds, 30
    MaxAnns,  \* bound: annotations of a decode
    MaxRuns,  \* bound: decodes
    Unseen    \* table_total_seen_ before the first rebuild

VARIABLES
    store,    \* the annotations, << decode, number, text >>
    run,      \* ghost: which decode they are of
    added,    \* ghost: how many it has brought
    filter,   \* table_filter_
    table,    \* table_cache_
    seen,     \* table_total_seen_
    cooldown, \* table_cooldown_
    tpc,      \* "idle", "copy" between total() and for_each()
    removed   \* ghost: something has left the store since the last total() a
              \* rebuild was decided on

vars == << store, run, added, filter, table, seen, cooldown, tpc, removed >>

Init == /\ store = {} /\ run = 0 /\ added = 0 /\ filter = Texts /\ table = {}
        /\ seen = Unseen /\ cooldown = 0 /\ tpc = "idle" /\ removed = FALSE

Filtered == {a \in store : a[3] \in filter}

-----------------------------------------------------------------------------
(* A frame.                                                                *)

CooledDown == IF cooldown = 0 THEN 0 ELSE cooldown - 1

Rebuild == /\ seen' = Cardinality(store) /\ cooldown' = Cooldown
           /\ tpc' = "copy" /\ removed' = FALSE

\* A mutant: the total is noted also when the rebuild has to wait.
FrameLookNotes(f) ==
    /\ tpc = "idle" /\ filter' = f
    /\ IF (Cardinality(store) # seen /\ CooledDown = 0) \/ f # filter
       THEN Rebuild
       ELSE /\ cooldown' = CooledDown /\ seen' = Cardinality(store)
            /\ UNCHANGED << tpc, removed >>
    /\ UNCHANGED << store, run, added, table >>

FrameLook(f) ==
    /\ tpc = "idle" /\ filter' = f
    /\ IF (Cardinality(store) # seen /\ CooledDown = 0) \/ f # filter
       THEN Rebuild
       ELSE /\ cooldown' = CooledDown
            /\ UNCHANGED << seen, tpc, removed >>
    /\ UNCHANGED << store, run, added, table >>

\* for_each() under the mutex of the store.
FrameCopy ==
    /\ tpc = "copy" /\ tpc' = "idle"
    /\ table' = Filtered
    /\ UNCHANGED << store, run, added, filter, seen, cooldown, removed >>

-----------------------------------------------------------------------------
(* The store, by the RX thread (external to this module: AnnotationStore).  *)

Add(t) == /\ added < MaxAnns /\ added' = added + 1
          /\ store' = store \cup {<< run, added, t >>}
          /\ UNCHANGED << run, filter, table, seen, cooldown, tpc, removed >>

Trim(a) == /\ store' = store \ {a} /\ removed' = TRUE
           /\ UNCHANGED << run, added, filter, table, seen, cooldown, tpc >>

\* reset() of a new capture or a re-decode, or a swap of the buffers.
Replace(n, t) ==
    /\ run < MaxRuns /\ run' = run + 1 /\ added' = n
    /\ store' = {<< run + 1, i, t >> : i \in 0 .. n - 1}
    /\ removed' = TRUE
    /\ UNCHANGED << filter, table, seen, cooldown, tpc >>

Next == \/ \E f \in Filters : FrameLook(f)
        \/ FrameCopy
        \/ \E t \in Texts : Add(t) \/ \E n \in 0 .. MaxAnns : Replace(n, t)
        \/ \E a \in store : Trim(a)

\* The main loop draws frames; nobody has to type.
Fairness == WF_vars(FrameLook(filter)) /\ WF_vars(FrameCopy)

Spec == Init /\ [][Next]_vars /\ Fairness

-----------------------------------------------------------------------------
(* Properties.                                                             *)

\* A table that is drawn again and again gets to show every annotation the
\* filter lets through, also those that came while rebuilds were throttled or
\* between the total and the copy, unless some have left the store meanwhile.
TableSettles == []<>(table = Filtered \/ removed)

\* The same with what leaves the store: a new decode with as many annotations
\* as the table has seen.
TableFresh == []<>(table = Filtered)
=============================================================================
