----------------------------- MODULE OrderBook -----------------------------
(***************************************************************************)
(* What a customer is promised of an order, whatever becomes of the calls  *)
(* that place it: the kitchen has a book with a page for each ticket       *)
(* number, written in order and never rewritten; what a phone asked for is *)
(* on one page of it only; and a cart is emptied of what is in the book.   *)
(*                                                                         *)
(* The two exceptions are part of the promise: a dish that was put into a  *)
(* cart while an answer was outstanding may be cleared unordered, and one  *)
(* whose page went away at that time may be ordered again.                 *)
(* OrderPlacement implements it.                                           *)
(***************************************************************************)
EXTENDS Sequences

CONSTANT Dishes

VARIABLES
    book,    \* the dishes of each ticket number
    cleared, \* dishes taken out of a cart by a good answer
    late,    \* dishes put into a cart while an answer was outstanding
    adrift   \* dishes whose page went away while an answer was outstanding

vars == <<book, cleared, late, adrift>>

InBook(d) == \E n \in DOMAIN book : d \in book[n]

Init ==
    /\ book = <<>>
    /\ cleared = {}
    /\ late = {}
    /\ adrift = {}

\* An order takes the next number; none of its dishes was ordered before.
Take(dishes) ==
    /\ \A n \in DOMAIN book : book[n] \cap dishes \subseteq adrift
    /\ book' = Append(book, dishes)
    /\ UNCHANGED <<cleared, late, adrift>>

\* A cart is emptied of dishes in the book.
Clear(dishes) ==
    /\ \A d \in dishes : d \notin cleared /\ (InBook(d) \/ d \in late)
    /\ cleared' = cleared \cup dishes
    /\ UNCHANGED <<book, late, adrift>>

\* A new dish joins a cart whose submission is not answered.
AddLate(d) ==
    /\ d \notin cleared /\ ~InBook(d)
    /\ late' = late \cup {d}
    /\ UNCHANGED <<book, cleared, adrift>>

\* A page goes, with what is in its cart, and perhaps without an answer.
Drift(dishes, lost) ==
    /\ dishes \cap cleared = {}
    /\ lost \subseteq dishes
    /\ adrift' = adrift \cup lost
    /\ late' = late \ dishes
    /\ UNCHANGED <<book, cleared>>

Next ==
    \/ \E dishes \in SUBSET Dishes : Take(dishes) \/ Clear(dishes)
    \/ \E d \in Dishes : AddLate(d)
    \/ \E dishes, lost \in SUBSET Dishes : Drift(dishes, lost)

Spec == Init /\ [][Next]_vars
=============================================================================
