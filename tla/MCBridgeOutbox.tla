--------------------------- MODULE MCBridgeOutbox ---------------------------
(* Instances of BridgeOutbox for TLC. *)
EXTENDS BridgeOutbox, TLC

SymAgents == Permutations(Agents)
=============================================================================
