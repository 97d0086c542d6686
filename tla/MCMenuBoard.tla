---------------------------- MODULE MCMenuBoard ----------------------------
EXTENDS MenuBoard, TLC

Symmetry == Permutations(Tabs) \cup Permutations(Requests)
=============================================================================
