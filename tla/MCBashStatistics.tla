-------------------------- MODULE MCBashStatistics --------------------------
(***************************************************************************)
(* A small instance of BashStatistics: a user of two agents, and a command *)
(* sent with and without white space.                                      *)
(***************************************************************************)
EXTENDS BashStatistics

CONSTANTS a1, a2, u1, ls, vi

Entry(a, u, c, w) == [agent |-> a, user |-> u, command |-> c, white |-> w]

MCEntries == {Entry(a1, u1, ls, FALSE), Entry(a1, u1, ls, TRUE),
              Entry(a2, u1, vi, FALSE)}
MCOffsets == {-1, 1}
=============================================================================
