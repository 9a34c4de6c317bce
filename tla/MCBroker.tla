------------------------------ MODULE MCBroker ------------------------------
(* Model-checking instances of Broker. *)
EXTENDS BrokerRefinement, TLC

CONSTANTS p1, p2, p3

MCPids == {p1, p2, p3}
MCReused == {p1}
MCSymmetry == Permutations(MCPids)
=============================================================================
