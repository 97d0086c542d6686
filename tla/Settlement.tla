------------------------------ MODULE Settlement ------------------------------
(***************************************************************************)
(* Payment of one visit: the bill (buildBill in lib/visit.ts), the desk's  *)
(* dialog that shows it, the settlement that computes it again and closes  *)
(* the visit, and the sweep that closes an abandoned one, while the        *)
(* visit's orders are placed, withdrawn, moved and edited.                 *)
(*                                                                         *)
(* Statements run at READ COMMITTED; what the settlement's transaction     *)
(* writes is seen when it commits, and the visit's row is locked from its  *)
(* conditional close on.  A total is kept as the worth of each order it    *)
(* adds up.                                                                *)
(***************************************************************************)
EXTENDS Integers, FiniteSets

CONSTANTS
    Orders,    \* orders the party may place
    Phones,    \* the phones at the table
    Tills,     \* desk screens
    Sweeper,   \* the scheduler's closeAbandonedVisits
    MaxWorth,  \* what an order is worth before staff take lines off it
    Outdated,  \* a dialog's bill, once an order has changed since it was asked for
    MaxOps     \* bound on the other requests under way at one time

ASSUME SweeperAssumption == Sweeper \notin Tills
ASSUME BoundsAssumption == MaxWorth \in Nat \ {0} /\ MaxOps \in Nat

VARIABLES
    order,     \* Order: status, worth of its live lines, paymentStatus
    visit,     \* TableVisit: status ("open" for "bill_requested" as well),
               \*   closedReason, the total recorded; whether the settlement was
               \*   forced
    phone,     \* the TableSession of each phone: "live", "over" when revoked or
               \*   expired, "next" when of a later visit
    req,       \* the dialog of each till, its request, and the sweep
    ops,       \* other requests between their read and their write: orders,
               \*   bill requests and scans
    wall,      \* phones that show that the table was settled
    crossed,   \* history: orders changed since the first read of the settlement
    overtaken, \* history: the visit was settled or joined since the sweep's read
    between    \* history: phones that joined between the sweep's read, or a
               \*   settlement's revoking of the sessions, and the event that
               \*   follows, or that belong to a later party when the visit is
               \*   written open again

vars == <<order, visit, phone, req, ops, wall, crossed, overtaken, between>>

-----------------------------------------------------------------------------
Clients == Tills \union {Sweeper}

InFlight == {"received", "cooking"}

Owed == InFlight \union {"served"}

\* The transitions of the desk, "cooking" standing for accepted, preparing
\* and ready.
Transitions(s) ==
    CASE s = "received" -> {"cooking", "void"}
      [] s = "cooking" -> {"cooking", "served", "void"}
      [] OTHER -> {}

NoBill == [o \in {} |-> 0]

Blank ==
    [pc |-> "idle", for |-> "view", shown |-> NoBill, refused |-> FALSE,
     force |-> FALSE, ids |-> {}, bill |-> NoBill, gone |-> {}, crossed |-> {}]

\* The dialog, once its request has been answered.
Dialog(q, refused) ==
    [Blank EXCEPT !.pc = "dialog", !.shown = q.shown, !.refused = refused]

Live == {p \in Phones : phone[p] = "live"}

LaterParty == {p \in Phones : phone[p] = "next"}

Locked == \E c \in Clients : req[c].pc \in {"revoke", "commit"}

Init ==
    /\ order = [o \in Orders |-> [status |-> "none", worth |-> MaxWorth, paid |-> FALSE]]
    /\ visit = [status |-> "open", reason |-> "null", bill |-> NoBill, force |-> FALSE]
    /\ phone = [p \in Phones |-> "live"]
    /\ req = [c \in Clients |-> Blank]
    /\ ops = {}
    /\ wall = {}
    /\ crossed = {}
    /\ overtaken = FALSE
    /\ between = {}

-----------------------------------------------------------------------------
(* Orders, and requests of the phones about the bill                       *)

Op(do, o, to) == [do |-> do, of |-> o, to |-> to]

Begin(op) ==
    /\ Cardinality(ops) < MaxOps
    /\ op \notin ops
    /\ ops' = ops \union {op}
    /\ UNCHANGED <<order, visit, phone, req, wall, crossed, overtaken, between>>

\* What a request has read of order o is no longer so.
Touched(q, o) ==
    [q EXCEPT !.shown = IF q.for = "settle" \/ q.pc \in {"orders", "lines", "dialog"}
                        THEN Outdated ELSE @,
              !.crossed = IF q.for = "settle" THEN @ \union {o} ELSE @]

\* The order's row is written, for every other request to see.
Put(o, status, worth) ==
    /\ order' = [order EXCEPT ![o].status = status, ![o].worth = worth]
    /\ req' = [c \in Clients |-> Touched(req[c], o)]
    /\ crossed' = IF visit.reason = "settled" THEN crossed \union {o} ELSE crossed
    /\ UNCHANGED <<visit, phone, wall, overtaken, between>>

\* POST /api/orders, from its check of the session to its insert.
Submit(o) ==
    /\ Live # {}
    /\ order[o].status = "none"
    /\ Begin(Op("place", o, "received"))

Place(o) ==
    /\ Op("place", o, "received") \in ops
    /\ ops' = ops \ {Op("place", o, "received")}
    /\ Put(o, "received", order[o].worth)

\* The customer's withdrawal tests the status again as it writes.
AskWithdraw(o) ==
    /\ Live # {}
    /\ order[o].status = "received"
    /\ Begin(Op("withdraw", o, "void"))

Withdraw(o) ==
    /\ Op("withdraw", o, "void") \in ops
    /\ ops' = ops \ {Op("withdraw", o, "void")}
    /\ IF order[o].status = "received"
       THEN Put(o, "void", order[o].worth)
       ELSE UNCHANGED <<order, visit, phone, req, wall, crossed, overtaken, between>>

\* The desk's move does not.
AskMove(o, to) ==
    /\ to \in Transitions(order[o].status)
    /\ Begin(Op("move", o, to))

Move(o, to) ==
    /\ Op("move", o, to) \in ops
    /\ ops' = ops \ {Op("move", o, to)}
    /\ Put(o, to, order[o].worth)

\* Staff take a line off.  An edit may not empty its order, but looks at what is
\* left before its transaction: two side by side may.
Editable(o) == order[o].status \in InFlight /\ order[o].worth > 0

Edit(o) ==
    /\ Editable(o)
    /\ Put(o, order[o].status, order[o].worth - 1)
    /\ UNCHANGED ops

\* requestBill and clearBillRequest read the visit and then write its status,
\* closed by then or not.
AskStatus(o) ==
    /\ visit.status = "open"
    /\ Begin(Op("status", o, "open"))

PutStatus(o) ==
    /\ Op("status", o, "open") \in ops
    /\ ~Locked
    /\ ops' = ops \ {Op("status", o, "open")}
    /\ visit' = [visit EXCEPT !.status = "open"]
    /\ between' = IF visit.status = "closed" THEN between \union LaterParty ELSE between
    /\ UNCHANGED <<order, phone, req, wall, crossed, overtaken>>

OrderRequest(o) ==
    \/ Submit(o) \/ Place(o) \/ AskWithdraw(o) \/ Withdraw(o) \/ Edit(o)
    \/ \E to \in {"cooking", "served", "void"} : AskMove(o, to) \/ Move(o, to)

BillRequest == \E o \in Orders : AskStatus(o) \/ PutStatus(o)

-----------------------------------------------------------------------------
(* buildBill: the visit's orders, then their lines                         *)

Turn(c, q) == req' = [req EXCEPT ![c] = q]

Rest == <<order, visit, phone, ops, wall, crossed, overtaken, between>>

\* Mutant: withdrawn and refused orders are on the bill.
OnBillAll == {o \in Orders : order[o].status # "none"}

OnBill == {o \in Orders : order[o].status \in Owed}

BillOrders(c) ==
    /\ req[c].pc = "orders"
    /\ Turn(c, [req[c] EXCEPT !.ids = OnBill, !.pc = "lines"])
    /\ UNCHANGED Rest

BillLines(c) ==
    /\ req[c].pc = "lines"
    /\ LET bill == [o \in req[c].ids |-> order[o].worth] IN
       Turn(c, IF req[c].for = "view"
               THEN Dialog([req[c] EXCEPT !.shown = IF @ = Outdated THEN @ ELSE bill], FALSE)
               ELSE [req[c] EXCEPT !.bill = bill, !.ids = {}, !.pc = "close"])
    /\ UNCHANGED Rest

-----------------------------------------------------------------------------
(* The desk: the dialog and settleVisit                                    *)

\* Mutant: a bill that was open before is shown again.
OpenBillKept(t) ==
    /\ req[t].pc \in {"idle", "dialog"}
    /\ Turn(t, IF req[t].pc = "dialog" THEN [req[t] EXCEPT !.shown = IF @ = Outdated THEN NoBill ELSE @]
               ELSE [Blank EXCEPT !.pc = "orders"])
    /\ UNCHANGED Rest

OpenBill(t) ==
    /\ req[t].pc \in {"idle", "dialog"}
    /\ Turn(t, [Blank EXCEPT !.pc = "orders"])
    /\ UNCHANGED Rest

Dismiss(t) ==
    /\ req[t].pc = "dialog"
    /\ Turn(t, Blank)
    /\ UNCHANGED Rest

\* A press of a button; "close anyway" is offered once a settlement was refused
\* for orders still in the kitchen.
Press(t, force) ==
    /\ req[t].pc = "dialog"
    /\ force => req[t].refused
    /\ Turn(t, [req[t] EXCEPT !.pc = "find", !.for = "settle", !.force = force, !.refused = FALSE])
    /\ UNCHANGED Rest

FindVisit(t) ==
    /\ req[t].pc = "find"
    /\ Turn(t, IF visit.status = "closed" THEN Dialog(req[t], FALSE)
               ELSE [req[t] EXCEPT !.pc = IF req[t].force THEN "orders" ELSE "count"])
    /\ UNCHANGED Rest

InKitchen == {o \in Orders : order[o].status \in InFlight}

CountInFlight(t) ==
    /\ req[t].pc = "count"
    /\ Turn(t, IF InKitchen # {} THEN Dialog(req[t], TRUE)
               ELSE [req[t] EXCEPT !.pc = "orders"])
    /\ UNCHANGED Rest

\* The conditional close; from here on the row is locked.
Close(t) ==
    /\ req[t].pc = "close"
    /\ req[t].for = "settle"
    /\ ~Locked
    /\ Turn(t, IF visit.status = "closed" THEN Dialog(req[t], FALSE)
               ELSE [req[t] EXCEPT !.pc = "revoke"])
    /\ UNCHANGED Rest

Billed(t) == DOMAIN req[t].bill

\* Mutant: the sessions stay as they are.
RevokedNone == {}

Revoked == Live

\* The last statement of the transaction: it revokes the sessions there are.
Revoke(t) ==
    /\ req[t].pc = "revoke"
    /\ Turn(t, [req[t] EXCEPT !.pc = "commit", !.gone = Revoked])
    /\ UNCHANGED Rest

\* What was written is seen: the visit closed, the billed orders paid, and
\* those sessions revoked.
Commit(t) ==
    /\ req[t].pc = "commit"
    /\ visit' = [status |-> "closed", reason |-> "settled", bill |-> req[t].bill,
                 force |-> req[t].force]
    /\ order' = [o \in Orders |-> IF o \in Billed(t) THEN [order[o] EXCEPT !.paid = TRUE]
                                  ELSE order[o]]
    /\ phone' = [p \in Phones |-> IF p \in req[t].gone THEN "over" ELSE phone[p]]
    /\ crossed' = req[t].crossed
    /\ overtaken' = (req[Sweeper].for = "sweep")
    /\ between' = between \ req[t].gone
    /\ Turn(t, [Dialog(req[t], FALSE) EXCEPT !.pc = "publish", !.for = "settle"])
    /\ UNCHANGED <<ops, wall>>

\* visit.closed goes to whichever phones of the table are connected; the event
\* names the table, and not the party.
Publish(c) ==
    /\ req[c].pc = "publish"
    /\ \E connected \in SUBSET Phones : wall' = wall \union connected
    /\ Turn(c, Blank)
    /\ UNCHANGED <<order, visit, phone, ops, crossed, overtaken, between>>

Till(t) ==
    \/ OpenBill(t) \/ Dismiss(t) \/ \E force \in BOOLEAN : Press(t, force)
    \/ FindVisit(t) \/ CountInFlight(t) \/ Close(t) \/ Revoke(t) \/ Commit(t)

-----------------------------------------------------------------------------
(* closeAbandonedVisits: the visit is found, billed, and closed by its id. *)

\* Mutant: phones that are still in use do not matter.
AbandonedAny == visit.status # "closed"

Abandoned == visit.status # "closed" /\ Live = {}

SweepFind ==
    /\ req[Sweeper].pc = "idle"
    /\ Abandoned
    /\ Turn(Sweeper, [Blank EXCEPT !.pc = "orders", !.for = "sweep"])
    /\ UNCHANGED Rest

SweepClose ==
    /\ req[Sweeper].pc = "close"
    /\ ~Locked
    /\ visit' = [visit EXCEPT !.status = "closed", !.reason = "abandoned",
                              !.bill = req[Sweeper].bill, !.force = FALSE]
    /\ Turn(Sweeper, [Blank EXCEPT !.pc = "publish"])
    /\ overtaken' = FALSE
    /\ crossed' = {}
    /\ UNCHANGED <<order, phone, ops, wall, between>>

-----------------------------------------------------------------------------
(* The phones, and the server                                              *)

\* A scan finds this visit while it is open, and a later one otherwise.
Scan(p) ==
    /\ phone[p] # "live"
    /\ Begin(Op("scan", p, IF visit.status = "closed" THEN "next" ELSE "live"))

\* An event of this visit may be on its way to a phone that joins now.
EventPending ==
    \E c \in Clients : req[c].pc \in {"commit", "publish"} \/ req[c].for = "sweep"

\* It mints a session on what it found, whatever has come of the visit, and the
\* phone starts afresh.
Mint(p, found) ==
    /\ Op("scan", p, found) \in ops
    /\ ops' = ops \ {Op("scan", p, found)}
    /\ phone' = [phone EXCEPT ![p] = found]
    /\ req' = [c \in Clients |-> [req[c] EXCEPT !.gone = @ \ {p}]]
    /\ wall' = wall \ {p}
    /\ overtaken' = (req[Sweeper].for = "sweep")
    /\ between' = IF EventPending \/ (found = "next" /\ visit.status = "open")
                  THEN between \union {p} ELSE between \ {p}
    /\ UNCHANGED <<order, visit, crossed>>

Expire(p) ==
    /\ phone[p] = "live"
    /\ phone' = [phone EXCEPT ![p] = "over"]
    /\ between' = between \ {p}
    /\ UNCHANGED <<order, visit, req, ops, wall, crossed, overtaken>>

\* The process restarts: transactions roll back, events are lost, and
\* the tills are left with the bill they were showing.
Restart ==
    /\ req' = [c \in Clients |-> IF req[c].for = "settle" \/ req[c].pc = "dialog"
                                 THEN Dialog(req[c], FALSE) ELSE Blank]
    /\ ops' = {}
    /\ overtaken' = FALSE
    /\ UNCHANGED <<order, visit, phone, wall, crossed, between>>

Next ==
    \/ \E o \in Orders : OrderRequest(o)
    \/ BillRequest
    \/ \E t \in Tills : Till(t)
    \/ \E c \in Clients : BillOrders(c) \/ BillLines(c) \/ Publish(c)
    \/ SweepFind \/ SweepClose
    \/ \E p \in Phones : Scan(p) \/ Expire(p) \/ \E found \in {"live", "next"} : Mint(p, found)
    \/ Restart

Spec == Init /\ [][Next]_vars

-----------------------------------------------------------------------------
Bills == UNION {[S -> 0..MaxWorth] : S \in SUBSET Orders}

Requests ==
    [pc : {"idle", "orders", "lines", "dialog", "find", "count", "close", "revoke", "commit",
           "publish"},
     for : {"view", "settle", "sweep"}, shown : Bills \union {Outdated}, refused : BOOLEAN,
     force : BOOLEAN, ids : SUBSET Orders, bill : Bills, gone : SUBSET Phones, crossed : SUBSET Orders]

TypeOK ==
    /\ order \in [Orders -> [status : Owed \union {"none", "void"}, worth : 0..MaxWorth,
                             paid : BOOLEAN]]
    /\ visit \in [status : {"open", "closed"},
                  reason : {"null", "settled", "abandoned"}, bill : Bills, force : BOOLEAN]
    /\ phone \in [Phones -> {"live", "over", "next"}]
    /\ req \in [Clients -> Requests]
    /\ ops \subseteq [do : {"place", "withdraw", "move", "status", "scan"}, of : Orders \union Phones,
                      to : Owed \union {"void", "open", "live", "next"}]
    /\ wall \subseteq Phones
    /\ crossed \subseteq Orders
    /\ overtaken \in BOOLEAN
    /\ between \subseteq Phones

(* A settlement is right about every order that does not change while it runs  *)
(* or afterwards (settleVisit): what is owed for is in the total, at what it    *)
(* is worth, and paid; what is void is not in the total.                        *)
BillIsExact ==
    visit.reason = "settled" => \A o \in Orders \ crossed :
        /\ o \in DOMAIN visit.bill <=> order[o].status \in Owed
        /\ o \in DOMAIN visit.bill => visit.bill[o] = order[o].worth /\ order[o].paid

(* Unless staff force it, a settlement leaves no order in the kitchen but those *)
(* that came, or came back, while it ran or afterwards.                         *)
KitchenDone ==
    visit.reason = "settled" /\ ~visit.force =>
        \A o \in Orders \ crossed : order[o].status \notin InFlight

(* "nor an order marked paid that no one paid for": an order that is marked     *)
(* paid is in the total recorded with it, whatever arrives, is withdrawn or is  *)
(* brought back between the bill and the commit.                                *)
PaidWasBilled ==
    [][\A o \in Orders : order'[o].paid /\ ~order[o].paid => o \in DOMAIN visit'.bill]_vars

(* The till records what it computes, staff collect what the dialog shows: the  *)
(* two differ only if an order has changed since the dialog's bill was asked for *)
(* (DeskBoard's settle sends no total).                                         *)
CollectedIsRecorded ==
    \A t \in Tills : req[t].pc = "commit" => req[t].shown \in {Outdated, req[t].bill}

(* A visit is closed as abandoned over a settlement, or over a party that has   *)
(* just sat down, only if that came between the sweep's read and its write.     *)
SweepTakesAbandoned ==
    [][visit'.reason = "abandoned" /\ req[Sweeper].pc = "close" /\ req'[Sweeper].pc = "publish" =>
           \/ overtaken
           \/ visit.status # "closed" /\ Live = {}]_vars

(* A phone that thanks its party for the visit belongs to a party that is done, *)
(* or joined the table before the event of a close that does not concern it:    *)
(* once the settlement had revoked its sessions, or the sweep read the visit.   *)
WallMeansOver ==
    \A p \in wall : phone[p] = "over" \/ p \in between

-----------------------------------------------------------------------------
(* Why it is true *)

\* The bill as it would be, were it computed in one step.
CurrentBill == [o \in OnBill |-> order[o].worth]

\* What each kind of request may be at.
WellFormed(c, q) ==
    /\ c = Sweeper =>
          q.for # "settle" /\ q.pc \in {"idle", "orders", "lines", "close", "publish"}
    /\ q.for = "sweep" <=> c = Sweeper /\ q.pc \in {"orders", "lines", "close"}
    /\ q.for = "view" => q.pc \in {"idle", "orders", "lines", "dialog", "publish"}
    /\ q.for = "settle" => q.pc \notin {"idle", "dialog"}

\* A dialog that is not outdated shows the bill, and its settlement computes
\* the same one.
ShowsBill(q) ==
    q.shown # Outdated =>
        /\ q.pc = "dialog" \/ q.for = "settle" => q.shown = CurrentBill
        /\ q.pc = "lines" /\ q.for # "sweep" => q.ids = OnBill
        /\ q.pc \in {"close", "revoke", "commit"} /\ q.for = "settle" => q.bill = q.shown

\* What a settlement has read is so, but for the orders that crossed it.
ReadRight(q) ==
    q.for = "settle" => \A o \in Orders \ q.crossed :
        /\ q.pc = "lines" => (o \in q.ids <=> order[o].status \in Owed)
        /\ q.pc \in {"close", "revoke", "commit"} =>
              /\ o \in DOMAIN q.bill <=> order[o].status \in Owed
              /\ o \in DOMAIN q.bill => q.bill[o] = order[o].worth
        /\ q.pc \in {"orders", "lines", "close", "revoke", "commit"} /\ ~q.force =>
              order[o].status \notin InFlight

\* No phone of the party that was at the table is left.
PartyIsGone == \A p \in Phones : phone[p] = "over" \/ p \in between

\* The sweep, and a close that has yet to be announced, leave no party behind,
\* once a settlement has committed what it revokes; the sweep's visit is as it
\* found it, or it was overtaken.
LeavesNobody(q) ==
    /\ q.pc = "commit" => \A p \in Phones \ q.gone : phone[p] = "over" \/ p \in between
    /\ q.pc = "publish" \/ q.for = "sweep" => PartyIsGone
    /\ q.for = "sweep" /\ ~overtaken => visit.status # "closed" /\ Live = {}

\* The row's lock: one settlement commits at a time, and the visit is open.
LockHolds ==
    \A c, d \in Clients : req[c].pc \in {"revoke", "commit"} =>
        /\ visit.status = "open"
        /\ req[d].pc \in {"revoke", "commit"} => c = d

GoodRequest(c, q) == WellFormed(c, q) /\ ShowsBill(q) /\ ReadRight(q) /\ LeavesNobody(q)

\* Inductive: it implies the properties above and every step keeps it.
InductiveInvariant ==
    /\ TypeOK
    /\ \A c \in Clients : GoodRequest(c, req[c])
    /\ LockHolds
    /\ visit.status = "open" => LaterParty \subseteq between
    /\ BillIsExact
    /\ KitchenDone
    /\ WallMeansOver
=============================================================================
