------------------------------ MODULE MCClient ------------------------------
(***************************************************************************)
(* The connection, the device list and the table of annotations, checked    *)
(* side by side: a behaviour is one of one of them.  They share no state    *)
(* but what a SCAN_RESULT brings, and Devices lets that be anything.        *)
(***************************************************************************)
EXTENDS Connection, Devices

CONSTANTS Texts, Filters, Cooldown, MaxAnns, MaxRuns, Unseen

VARIABLES part, store, run, added, filter, table, seen, cooldown, tpc, removed

tableVars == << store, run, added, filter, table, seen, cooldown, tpc, removed >>

Table == INSTANCE DecodedTable

MCFilters == {Texts, Texts \ {CHOOSE t \in Texts : TRUE}}

MCInit == /\ Init /\ DevInit /\ Table!Init
          /\ part \in {"connection", "devices", "table"}
          /\ part # "connection" => up /\ auto
MCNext ==
    \/ part = "connection" /\ Next /\ UNCHANGED << part, devVars, tableVars >>
    \/ part = "devices" /\ DevNext /\ UNCHANGED << part, vars, tableVars >>
    \/ part = "table" /\ Table!Next /\ UNCHANGED << part, vars, devVars >>
MCSpec == /\ MCInit
          /\ [][MCNext]_<< part, vars, devVars, tableVars >>
          /\ Fairness  \* asks nothing of the other parts' initial states
          /\ WF_tableVars(part = "table" /\ Table!FrameLook(filter))
          /\ WF_tableVars(part = "table" /\ Table!FrameCopy)

TableSettles == Table!TableSettles
TableFresh   == Table!TableFresh
=============================================================================
