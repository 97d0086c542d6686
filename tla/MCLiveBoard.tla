----------------------------- MODULE MCLiveBoard -----------------------------
(* One change of each view, two loads of each under way, one fault.           *)
EXTENDS LiveBoard
=============================================================================
