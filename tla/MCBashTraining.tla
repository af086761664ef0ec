--------------------------- MODULE MCBashTraining ---------------------------
(***************************************************************************)
(* A small instance of BashTraining: one id for the configurations of two  *)
(* agents in turn, and a user of the first agent with two statistics, which*)
(* are more rows than one part.                                            *)
(***************************************************************************)
EXTENDS BashTraining

CONSTANTS a1, a2

OneId == {1}
TwoStatistics == 1..2
AgentOfTwo == <<a1, a1>>
UserOfTwo == <<1, 1>>
HasOfTwo == <<{1}, {1}>>
AllStatistics == {Statistics}
OneCommand == {1}
=============================================================================
