--------------------------- MODULE MCLogDelivery ---------------------------
(***************************************************************************)
(* A small instance of LogDelivery: two Apache entries and a shell entry.  *)
(***************************************************************************)
EXTENDS LogDelivery, TLC

CONSTANTS a1, a2, b1

MCEntries == {a1, a2, b1}
MCSourceOf == (a1 :> "apache") @@ (a2 :> "apache") @@ (b1 :> "bash")

Symmetry == Permutations({a1, a2})
=============================================================================
