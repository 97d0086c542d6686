----------------------------- MODULE MCSettlement -----------------------------
(* One till, one phone and one order, which the sweep and two other requests  *)
(* at a time contend for.                                                     *)
EXTENDS Settlement

\* Two other requests are under way at one time only while the sweep is at rest.
SweepMeetsOneRequest ==
    req[Sweeper].pc # "idle" => Cardinality(ops) <= 1
=============================================================================
