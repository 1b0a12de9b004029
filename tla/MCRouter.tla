------------------------------ MODULE MCRouter ------------------------------
(***************************************************************************)
(* Instances of the router: the settings files it may be given.            *)
(***************************************************************************)
EXTENDS Router, TLC

CONSTANTS a1, a2, q1, q2

Def(name, backend) == [def |-> name, backend |-> backend]

\* Two models of one backend; a file with the first changed, one with the first
\* removed, and one with the first on another backend.
Both    == ("m" :> Def("d", "stub")) @@ ("n" :> Def("d", "stub"))
Edited  == ("m" :> Def("e", "stub")) @@ ("n" :> Def("d", "stub"))
Removed == ("n" :> Def("d", "stub"))
Moved   == ("m" :> Def("d", "ct2")) @@ ("n" :> Def("d", "stub"))

Backends == {Both, Moved, Removed}
Files == {Both, Edited, Removed}
OneModel == {"m" :> Def("d", "stub")}

OneTuning == {[fairness |-> "f", decoding |-> "x"]}
AllTunings == [fairness : {"f", "g"}, decoding : {"x", "y"}]

AdminSymmetry == Permutations(Admins)

============================================================================
