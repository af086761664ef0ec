-------------------------- MODULE MCAgentForwarder --------------------------
(***************************************************************************)
(* A small instance of AgentForwarder: one entry of each source.  The order*)
(* of the entries of one source is looked at in MCLogDelivery.             *)
(***************************************************************************)
EXTENDS AgentForwarder, TLC

CONSTANTS a1, b1

MCEntries == {a1, b1}
MCSourceOf == (a1 :> "apache") @@ (b1 :> "bash")
=============================================================================
