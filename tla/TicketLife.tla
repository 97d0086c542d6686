----------------------------- MODULE TicketLife -----------------------------
(***************************************************************************)
(* What the kitchen is promised of a ticket, whatever becomes of the polls, *)
(* prints and acknowledgements: it waits, it is held for a printer, it      *)
(* comes out once, and it is settled as sent, for good.                     *)
(*                                                                         *)
(* A ticket with an excuse may leave that path: one whose holder was        *)
(* presumed dead, whose print was reported failed, or that the admin asked  *)
(* for again.  It may come out again, go back or be given up; but even then *)
(* it is not called sent before a printer has taken it.                     *)
(* BridgeOutbox implements it.                                              *)
(***************************************************************************)
EXTENDS Naturals

CONSTANT Tickets

VARIABLES
    state,   \* "none", "pending", "claimed", "sent" or "failed"
    copies,  \* how often a printer has taken each ticket
    excused  \* tickets with an excuse

vars == <<state, copies, excused>>

Init ==
    /\ state = [t \in Tickets |-> "none"]
    /\ copies = [t \in Tickets |-> 0]
    /\ excused = {}

\* The tickets of S change to state to, those in it alike.
Become(S, to) == state' = [t \in Tickets |-> IF t \in S THEN to ELSE state[t]]

Enqueue(t) ==
    /\ state[t] = "none"
    /\ Become({t}, "pending")
    /\ UNCHANGED <<copies, excused>>

\* Tickets that wait are handed out, and those taken from a dead holder.
HandOut(S) ==
    /\ \A t \in S : state[t] = "pending" \/ (state[t] = "claimed" /\ t \in excused)
    /\ Become(S, "claimed")
    /\ UNCHANGED <<copies, excused>>

MayPrint(t) == t \in excused \/ (state[t] = "claimed" /\ copies[t] = 0)

ComeOut(t) ==
    /\ MayPrint(t)
    /\ copies' = [copies EXCEPT ![t] = copies[t] + 1]
    /\ UNCHANGED <<state, excused>>

\* The printer answers with an error; nobody knows what came out.
Misprint(t) ==
    /\ MayPrint(t)
    /\ \E more \in {0, 1} : copies' = [copies EXCEPT ![t] = copies[t] + more]
    /\ excused' = excused \cup {t}
    /\ UNCHANGED state

\* The holder is presumed dead.
Expire(t) ==
    /\ state[t] = "claimed"
    /\ excused' = excused \cup {t}
    /\ UNCHANGED <<state, copies>>

Settle(t) ==
    /\ copies[t] > 0
    /\ state[t] = "claimed" \/ t \in excused
    /\ Become({t}, "sent")
    /\ UNCHANGED <<copies, excused>>

\* Tickets go back to wait, or are given up.
TakeBack(S, to) ==
    /\ S \subseteq excused
    /\ to \in {"pending", "failed"}
    /\ Become(S, to)
    /\ UNCHANGED <<copies, excused>>

\* The admin asks for a ticket again.
Again(t) ==
    /\ state[t] # "none"
    /\ Become({t}, "pending")
    /\ excused' = excused \cup {t}
    /\ UNCHANGED copies

Next ==
    \/ \E t \in Tickets : Enqueue(t) \/ ComeOut(t) \/ Misprint(t) \/ Expire(t) \/ Settle(t) \/ Again(t)
    \/ \E S \in SUBSET Tickets : HandOut(S) \/ TakeBack(S, "pending") \/ TakeBack(S, "failed")

Spec == Init /\ [][Next]_vars
=============================================================================
