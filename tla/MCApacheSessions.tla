-------------------------- MODULE MCApacheSessions --------------------------
(***************************************************************************)
(* A small instance of ApacheSessions: two hosts, two clients, two days,   *)
(* sessions of 3 seconds and parts of two rows.                            *)
(***************************************************************************)
EXTENDS ApacheSessions

CONSTANTS h1, h2, c1, c2

Kind(h, c, d, s, e) == [host |-> h, client |-> c, day |-> d, second |-> s, error |-> e]

MCKinds == {Kind(h1, c1, 1, 0, FALSE), Kind(h1, c1, 1, 2, TRUE), Kind(h1, c1, 1, 4, FALSE),
            Kind(h1, c1, 2, 1, FALSE), Kind(h1, c2, 1, 3, TRUE), Kind(h2, c1, 1, 1, FALSE)}
=============================================================================
