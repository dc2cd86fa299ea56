------------------------------ MODULE MCStores ------------------------------
(***************************************************************************)
(* The data structures of a buffer and two of their readers, checked side   *)
(* by side: a behaviour is one of the logic store, an analog store, the     *)
(* annotation store, the export or the measurements.  They share no state.  *)
(***************************************************************************)
EXTENDS LogicStore, AnalogStore, AnnotationStore, Vcd, Measure

VARIABLE part

MCBlockSize == [l \in 0 .. LEVELS - 1 |-> 2 ^ (l + 1)]

MCInit == /\ Init /\ AnalogInit /\ AnnInit /\ VcdInit /\ MeasInit
          /\ part \in {"logic", "analog", "annotations", "export", "measure"}
          /\ part # "logic" => maxSamples = 0
          /\ part # "export" =>
                /\ wave = [w \in Wires |-> [s \in 0 .. Ends - 1 |-> 0]]
                /\ flive = 0 /\ vrate = CHOOSE r \in VcdRates : TRUE
MCNext ==
    \/ part = "logic" /\ Next
       /\ UNCHANGED << part, analogVars, annVars, vcdVars, measVars >>
    \/ part = "analog" /\ AnalogNext
       /\ UNCHANGED << part, vars, annVars, vcdVars, measVars >>
    \/ part = "annotations" /\ AnnNext
       /\ UNCHANGED << part, vars, analogVars, vcdVars, measVars >>
    \/ part = "export" /\ VcdNext
       /\ UNCHANGED << part, vars, analogVars, annVars, measVars >>
    \/ part = "measure" /\ MeasNext
       /\ UNCHANGED << part, vars, analogVars, annVars, vcdVars >>
MCSpec == MCInit /\ [][MCNext]_<< part, vars, analogVars, annVars, vcdVars, measVars >>
=============================================================================
