------------------------ MODULE MCBashConfiguration ------------------------
(***************************************************************************)
(* A small instance of BashConfiguration: two windows with a range of two  *)
(* days, and two commands of which one is selected.                        *)
(***************************************************************************)
EXTENDS BashConfiguration, TLC

CONSTANTS p1, p2, ls, vi

BothDays == [begin |-> 1, end |-> 2]
OneRange == {BothDays}

\* The windows are alike, and so are the commands.
Symmetry == Permutations(Pages) \cup Permutations(Commands)
=============================================================================
