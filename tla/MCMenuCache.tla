---------------------------- MODULE MCMenuCache ----------------------------
EXTENDS MenuCache, TLC

Symmetry == Permutations(Loads) \cup Permutations(Requests)
=============================================================================
