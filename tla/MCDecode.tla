------------------------------ MODULE MCDecode ------------------------------
(***************************************************************************)
(* The decode session and the i2s_ex decoder that may run in it, checked    *)
(* side by side: a behaviour is one of the session or one of the decoder.   *)
(* Decode lets a decoder yield anything.                                    *)
(***************************************************************************)
EXTENDS Decode, I2s

VARIABLE part

\* Class 1 is listed in row 1, class 2 in none.
MCRowOf == [c \in {0, 1} |-> c]

MCInit == /\ Init /\ I2sInit
          /\ part \in {"session", "decoder"}
          /\ part = "session" => /\ sender = "i2s" /\ msbFirst /\ wsLeft = 0
                                 /\ ws = 0 /\ line = << >>
MCNext == \/ part = "session" /\ Next /\ UNCHANGED << part, i2sVars >>
          \/ part = "decoder" /\ I2sNext /\ UNCHANGED << part, vars >>
MCSpec == MCInit /\ [][MCNext]_<< part, vars, i2sVars >> /\ Fairness
=============================================================================
