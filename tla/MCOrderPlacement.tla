-------------------------- MODULE MCOrderPlacement --------------------------
(* Instances of OrderPlacement for TLC. *)
EXTENDS OrderPlacement, TLC

Symmetric == Permutations(Phones) \cup Permutations(Requests) \cup Permutations(Dishes)
=============================================================================
