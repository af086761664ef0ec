-------------------------- MODULE MCServerDatabase --------------------------
(***************************************************************************)
(* Small instances of ServerDatabase with two hosts.                       *)
(***************************************************************************)
EXTENDS ServerDatabase, TLC

CONSTANTS h1, h2, l1, l2, s1

MCHosts == {h1, h2}
TwoLogs == {l1, l2}
OneShell == {s1}

\* Two entries of one host, whose rows are read in two parts, and a shell entry of another.
HostOfParts == (l1 :> h1) @@ (l2 :> h1) @@ (s1 :> h2)

\* Two entries, one of each host.
HostOfTwo == (l1 :> h1) @@ (l2 :> h2)

\* The entries of one host may be exchanged.
Symmetry == Permutations({l1, l2})
=============================================================================
