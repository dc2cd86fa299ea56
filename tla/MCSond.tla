------------------------------- MODULE MCSond -------------------------------
(* Instances of Sond for TLC: the captures are interchangeable.            *)
EXTENDS Sond, TLC

Symmetry == Permutations(Captures)

Plain(types) == [type : types, arg : {"none"}]
Config(args) == [type : {"CONFIG"}, arg : args]

\* Every message, and the ones a run without rescans or bad CONFIGs needs.
AllRequests     == Message
CaptureRequests    == Plain({"START", "STOP", "SCAN"}) \cup Config({"triggered"})
ContinuousRequests == Plain({"START", "STOP", "SCAN"}) \cup Config({"continuous"})
=============================================================================
