----------------------- MODULE MCApacheClassification -----------------------
(***************************************************************************)
(* A small instance of ApacheClassification.  Five sessions, two of them   *)
(* equally far from a third, are more than one part, and so is the largest *)
(* learning set, whose last session is the outlier.                        *)
(***************************************************************************)
EXTENDS ApacheClassification

MCSessions == 1..5
MCRequests == [s \in MCSessions |-> CASE s = 4 -> 9 [] s = 5 -> 2 [] OTHER -> s]
MCSelections == {{1}, 1..4}
=============================================================================
