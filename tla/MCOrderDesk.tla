---------------------------- MODULE MCOrderDesk ----------------------------
(* Instances of OrderDesk for TLC. *)
EXTENDS OrderDesk, TLC

CONSTANTS l1, l2, r1, r2

\* Two of one item and one of another: a line that can be reduced and one that
\* can only be removed.
TwoAndOne == l1 :> 2 @@ l2 :> 1

\* Two single items: one of them can be removed.
OneEach == l1 :> 1 @@ l2 :> 1

\* The lines are of one dish, as when it was added to the cart twice, or each
\* of its own.
OneDish == l1 :> "coffee" @@ l2 :> "coffee"
TwoDishes == l1 :> "coffee" @@ l2 :> "cake"

\* Every line is like any other when one of one dish is on each.
Sym == Permutations(Requests) \cup Permutations(Lines)
=============================================================================
