------------------------------ MODULE Display ------------------------------
(***************************************************************************)
(* What sonview promises about its screen: the samples drawn, and the       *)
(* metadata they are drawn with, are those of one acquisition.  They grow   *)
(* while it streams, and only a newer acquisition that delivers data takes  *)
(* their place.  It does so in steps that the eye may fall between: samples *)
(* go, the metadata is replaced, the new samples come.  Nothing else clears *)
(* the screen, no replacement is left half done, and no older acquisition   *)
(* comes back.                                                              *)
(***************************************************************************)
EXTENDS Naturals

VARIABLES
    shown,  \* the sample frames on the screen, each with its acquisition
    meta,   \* the acquisition whose metadata describes them, 0 before the first
    phase   \* "whole", or how far a replacement is: "cleared", "labelled"

\* The frames of s belong to acquisition a.
AllOf(s, a) == \A f \in s : f.of = a

Init == shown = {} /\ meta = 0 /\ phase = "whole"

\* The acquisition on the screen delivers more.
Grow == /\ phase = "whole" /\ phase' = phase
        /\ shown \subseteq shown'
        /\ AllOf(shown', meta)
        /\ meta' = meta

\* A newer acquisition needs the place: samples disappear ...
Clear == /\ phase = "whole" /\ phase' = "cleared"
         /\ shown' \subseteq shown
         /\ meta' = meta

\* ... its metadata is there, over an empty screen or over the samples of the
\* acquisition before it ...
Label == /\ phase \in {"whole", "cleared"} /\ phase' = "labelled"
         /\ meta' > meta
         /\ shown' = IF phase = "cleared" THEN {} ELSE shown

\* ... and its samples.
Bring == /\ phase = "labelled" /\ phase' = "whole"
         /\ shown' # {}
         /\ AllOf(shown', meta)
         /\ meta' = meta

Next == Grow \/ Clear \/ Label \/ Bring

Spec == Init /\ [][Next]_<< shown, meta, phase >>
=============================================================================
