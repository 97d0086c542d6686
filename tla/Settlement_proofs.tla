-------------------------- MODULE Settlement_proofs --------------------------
(***************************************************************************)
(* Theorems about Settlement, for any number of orders, phones and tills   *)
(* and any bound on the other requests.  Most steps either turn the        *)
(* request of one client, which has to be a good one then, or write the    *)
(* row of one order, which outdates what requests have read of it.         *)
(***************************************************************************)
EXTENDS Settlement, TLAPS

USE SweeperAssumption, BoundsAssumption

VisitInvariant ==
    /\ visit.status = "open" => LaterParty \subseteq between
    /\ BillIsExact
    /\ KitchenDone
    /\ WallMeansOver

-----------------------------------------------------------------------------
(* Lemmas about the data *)

LEMMA NoBillIsBill == NoBill \in Bills
<1>1. NoBill \in [{} -> 0..MaxWorth]
  BY DEF NoBill
<1> QED BY <1>1 DEF Bills

LEMMA BillOfSome ==
    ASSUME TypeOK, NEW S \in SUBSET Orders
    PROVE  [o \in S |-> order[o].worth] \in Bills
<1>1. [o \in S |-> order[o].worth] \in [S -> 0..MaxWorth]
  BY DEF TypeOK
<1> QED BY <1>1 DEF Bills

LEMMA BlankIsRequest == Blank \in Requests
BY NoBillIsBill DEF Blank, Requests

LEMMA DialogIsRequest ==
    ASSUME NEW q \in Requests, NEW b \in BOOLEAN
    PROVE  Dialog(q, b) \in Requests
BY NoBillIsBill DEF Dialog, Blank, Requests

LEMMA TouchedFields ==
    ASSUME NEW q \in Requests, NEW o \in Orders
    PROVE  LET r == Touched(q, o) IN
           /\ r \in Requests
           /\ r.pc = q.pc /\ r.for = q.for /\ r.ids = q.ids /\ r.bill = q.bill /\ r.force = q.force
           /\ r.gone = q.gone
           /\ q.for = "settle" \/ q.pc \in {"orders", "lines", "dialog"} => r.shown = Outdated
           /\ q.for = "settle" => r.crossed = q.crossed \cup {o}
BY DEF Touched, Requests

\* A request that is blank or at its dialog has little to go wrong.
LEMMA BlankIsGood == ASSUME NEW c \in Clients PROVE GoodRequest(c, Blank)
BY DEF GoodRequest, Blank, WellFormed, ShowsBill, ReadRight, LeavesNobody

LEMMA DialogIsGood ==
    ASSUME NEW c \in Tills, NEW q \in Requests, NEW b \in BOOLEAN,
           ShowsBill(q), q.pc = "dialog" \/ q.for = "settle"
    PROVE  GoodRequest(c, Dialog(q, b))
BY DEF GoodRequest, Dialog, Blank, WellFormed, ShowsBill, ReadRight, LeavesNobody, Requests

-----------------------------------------------------------------------------
(* The two kinds of step *)

\* A step that turns the request of one client into a good one, which holds the
\* row's lock only if nobody else does.
LEMMA TurnKeepsIt ==
    ASSUME InductiveInvariant, NEW c \in Clients, NEW q \in Requests,
           Turn(c, q), UNCHANGED Rest, GoodRequest(c, q),
           q.pc \in {"revoke", "commit"} =>
               visit.status = "open" /\ (Locked => req[c].pc \in {"revoke", "commit"})
    PROVE  InductiveInvariant'
<1>1. TypeOK'
  BY DEF InductiveInvariant, TypeOK, Turn, Rest
<1>2. \A d \in Clients : req'[d] = IF d = c THEN q ELSE req[d]
  BY DEF InductiveInvariant, TypeOK, Turn
<1>3. ASSUME NEW d \in Clients PROVE GoodRequest(d, req[d])'
  <2> DEFINE r == req'[d]
  <2>1. GoodRequest(d, r)
    BY <1>2 DEF InductiveInvariant
  <2>2. UNCHANGED <<order, visit, phone, overtaken, between>>
    BY DEF Rest
  <2> QED BY <2>1, <2>2
       DEF GoodRequest, WellFormed, ShowsBill, ReadRight, LeavesNobody, PartyIsGone, Live,
           CurrentBill, OnBill
<1>4. LockHolds'
  BY <1>2 DEF InductiveInvariant, LockHolds, Locked, Rest
<1>5. VisitInvariant'
  BY DEF InductiveInvariant, VisitInvariant, Rest, LaterParty, BillIsExact, KitchenDone, WallMeansOver
<1> QED BY <1>1, <1>3, <1>4, <1>5 DEF InductiveInvariant, VisitInvariant

\* A write of an order's row outdates what dialogs show of it, and crosses the
\* settlements under way.
LEMMA PutKeepsIt ==
    ASSUME InductiveInvariant, NEW o \in Orders, NEW status \in Owed \cup {"void"},
           NEW worth \in 0..MaxWorth, Put(o, status, worth), ops' \subseteq ops
    PROVE  InductiveInvariant'
<1>1. /\ \A x \in Orders \ {o} : order'[x] = order[x]
      /\ order' \in [Orders -> [status : Owed \union {"none", "void"}, worth : 0..MaxWorth,
                                paid : BOOLEAN]]
  <2>1. order \in [Orders -> [status : Owed \union {"none", "void"}, worth : 0..MaxWorth,
                              paid : BOOLEAN]]
    BY DEF InductiveInvariant, TypeOK
  <2>2. /\ order'[o] = [status |-> status, worth |-> worth, paid |-> order[o].paid]
        /\ \A x \in Orders \ {o} : order'[x] = order[x]
        /\ order' = [order EXCEPT ![o] = order'[o]]
    BY <2>1 DEF Put
  <2>3. order'[o] \in [status : Owed \union {"none", "void"}, worth : 0..MaxWorth, paid : BOOLEAN]
    BY <2>1, <2>2
  <2> QED BY <2>1, <2>2, <2>3
<1>2. \A c \in Clients : req[c] \in Requests /\ req'[c] = Touched(req[c], o)
  BY DEF InductiveInvariant, TypeOK, Put
<1>3. UNCHANGED <<visit, phone, wall, overtaken, between>>
  BY DEF Put
<1>4. TypeOK'
  <2>1. req' \in [Clients -> Requests]
    BY <1>2, TouchedFields DEF Put
  <2> QED BY <1>1, <1>3, <2>1 DEF InductiveInvariant, TypeOK, Put
<1>5. ASSUME NEW c \in Clients PROVE GoodRequest(c, req[c])'
  <2> SUFFICES ASSUME NEW q, q = req[c], NEW r, r = req'[c]
               PROVE  GoodRequest(c, req[c])'
    OBVIOUS
  <2>1. /\ r.pc = q.pc /\ r.for = q.for /\ r.ids = q.ids /\ r.bill = q.bill /\ r.force = q.force
        /\ r.gone = q.gone
        /\ q.for = "settle" \/ q.pc \in {"orders", "lines", "dialog"} => r.shown = Outdated
        /\ q.for = "settle" => r.crossed = q.crossed \cup {o}
    BY <1>2, TouchedFields
  <2>2. WellFormed(c, q) /\ ShowsBill(q) /\ ReadRight(q) /\ LeavesNobody(q)
    BY DEF InductiveInvariant, GoodRequest
  <2>3. WellFormed(c, r)
    BY <2>1, <2>2 DEF WellFormed
  <2>4. ShowsBill(r)'
    BY <2>1, <2>2 DEF WellFormed, ShowsBill
  <2>5. ReadRight(r)'
    BY <1>1, <2>1, <2>2 DEF ReadRight
  <2>6. LeavesNobody(r)'
    BY <1>3, <2>1, <2>2 DEF LeavesNobody, PartyIsGone, Live
  <2> QED BY <2>3, <2>4, <2>5, <2>6
       DEF GoodRequest, WellFormed, ShowsBill, ReadRight, LeavesNobody
<1>6. LockHolds'
  <2>1. \A c \in Clients : req'[c].pc = req[c].pc
    BY <1>2, TouchedFields
  <2> QED BY <1>3, <2>1 DEF InductiveInvariant, LockHolds
<1>7. BillIsExact' /\ KitchenDone'
  <2>1. visit.reason = "settled" => crossed' = crossed \cup {o}
    BY DEF Put
  <2> QED BY <1>1, <1>3, <2>1 DEF InductiveInvariant, BillIsExact, KitchenDone
<1>8. WallMeansOver' /\ (visit.status = "open" => LaterParty \subseteq between)'
  BY <1>3 DEF InductiveInvariant, WallMeansOver, LaterParty
<1> QED BY <1>4, <1>5, <1>6, <1>7, <1>8 DEF InductiveInvariant

\* A step that writes nothing but the list of the other requests.
LEMMA BystanderKeepsIt ==
    ASSUME InductiveInvariant, UNCHANGED <<order, visit, phone, req, wall, crossed, overtaken, between>>,
           TypeOK'
    PROVE  InductiveInvariant'
BY DEF InductiveInvariant, GoodRequest, WellFormed, ShowsBill, ReadRight, LeavesNobody, PartyIsGone,
       Live, CurrentBill, OnBill, LockHolds, LaterParty, BillIsExact, KitchenDone, WallMeansOver

\* What every request is known to be.
LEMMA RequestIsGood ==
    ASSUME InductiveInvariant, NEW c \in Clients
    PROVE  /\ req[c] \in Requests
           /\ WellFormed(c, req[c]) /\ ShowsBill(req[c]) /\ ReadRight(req[c]) /\ LeavesNobody(req[c])
BY DEF InductiveInvariant, TypeOK, GoodRequest

-----------------------------------------------------------------------------
(* Orders, and requests of the phones about the bill *)

LEMMA BeginKeepsIt ==
    ASSUME InductiveInvariant, NEW x \in Orders \cup Phones,
           NEW do \in {"place", "withdraw", "move", "status", "scan"},
           NEW to \in Owed \cup {"void", "open", "live", "next"}, Begin(Op(do, x, to))
    PROVE  InductiveInvariant'
<1>1. UNCHANGED <<order, visit, phone, req, wall, crossed, overtaken, between>>
  BY DEF Begin
<1>2. TypeOK'
  BY <1>1 DEF InductiveInvariant, TypeOK, Begin, Op
<1> QED BY <1>1, <1>2, BystanderKeepsIt

LEMMA OrderRequestKeepsIt ==
    ASSUME InductiveInvariant, NEW o \in Orders, OrderRequest(o)
    PROVE  InductiveInvariant'
<1>0. order[o].worth \in 0..MaxWorth /\ order[o].status \in Owed \cup {"none", "void"}
  BY DEF InductiveInvariant, TypeOK
<1>1. CASE Submit(o) \/ AskWithdraw(o)
  BY <1>1, BeginKeepsIt DEF Submit, AskWithdraw, Owed, InFlight
<1>2. CASE \E to \in {"cooking", "served", "void"} : AskMove(o, to)
  BY <1>2, BeginKeepsIt DEF AskMove, Owed, InFlight
<1>3. CASE Place(o)
  BY <1>0, <1>3, PutKeepsIt DEF Place, Owed, InFlight
<1>4. CASE \E to \in {"cooking", "served", "void"} : Move(o, to)
  BY <1>0, <1>4, PutKeepsIt DEF Move, Owed, InFlight
<1>5. CASE Edit(o)
  <2>1. order[o].status \in Owed /\ order[o].worth - 1 \in 0..MaxWorth
    BY <1>0, <1>5 DEF Edit, Editable, Owed
  <2> QED BY <1>5, <2>1, PutKeepsIt DEF Edit
<1>6. CASE Withdraw(o)
  <2>1. CASE order[o].status = "received"
    BY <1>0, <1>6, <2>1, PutKeepsIt DEF Withdraw
  <2>2. CASE order[o].status # "received"
    <3>1. UNCHANGED <<order, visit, phone, req, wall, crossed, overtaken, between>> /\ ops' \subseteq ops
      BY <1>6, <2>2 DEF Withdraw
    <3>2. TypeOK'
      BY <3>1 DEF InductiveInvariant, TypeOK
    <3> QED BY <3>1, <3>2, BystanderKeepsIt
  <2> QED BY <2>1, <2>2
<1> QED BY <1>1, <1>2, <1>3, <1>4, <1>5, <1>6 DEF OrderRequest

\* The visit is written open: over a close, its later party joins in between.
LEMMA PutStatusKeepsIt ==
    ASSUME InductiveInvariant, NEW o \in Orders, PutStatus(o)
    PROVE  InductiveInvariant'
<1>1. /\ visit.reason = visit'.reason /\ visit'.status = "open"
      /\ visit'.bill = visit.bill /\ visit'.force = visit.force
      /\ visit' \in [status : {"open", "closed"}, reason : {"null", "settled", "abandoned"},
                     bill : Bills, force : BOOLEAN]
  BY DEF InductiveInvariant, TypeOK, PutStatus
<1>2. UNCHANGED <<order, phone, req, wall, crossed, overtaken>> /\ between \subseteq between'
  BY DEF PutStatus
<1>3. TypeOK'
  <2>1. between' \subseteq Phones
    BY DEF PutStatus, InductiveInvariant, TypeOK, LaterParty
  <2> QED BY <1>1, <1>2, <2>1 DEF PutStatus, InductiveInvariant, TypeOK
<1>4. ASSUME NEW c \in Clients PROVE GoodRequest(c, req[c])'
  BY <1>1, <1>2, RequestIsGood
     DEF GoodRequest, WellFormed, ShowsBill, ReadRight, LeavesNobody, PartyIsGone, Live,
         CurrentBill, OnBill
<1>5. LockHolds'
  BY <1>2 DEF PutStatus, Locked, LockHolds
<1>6. LaterParty' \subseteq between'
  <2>1. CASE visit.status = "closed"
    BY <1>2, <2>1 DEF PutStatus, LaterParty
  <2>2. CASE visit.status # "closed"
    BY <1>2, <2>2 DEF PutStatus, LaterParty, InductiveInvariant, TypeOK
  <2> QED BY <2>1, <2>2
<1>7. BillIsExact' /\ KitchenDone' /\ WallMeansOver'
  BY <1>1, <1>2 DEF InductiveInvariant, BillIsExact, KitchenDone, WallMeansOver
<1> QED BY <1>3, <1>4, <1>5, <1>6, <1>7 DEF InductiveInvariant

LEMMA BillRequestKeepsIt ==
    ASSUME InductiveInvariant, BillRequest
    PROVE  InductiveInvariant'
BY BeginKeepsIt, PutStatusKeepsIt DEF BillRequest, AskStatus

-----------------------------------------------------------------------------
(* buildBill and the steps of a settlement that only read *)

LEMMA BillOrdersKeepsIt ==
    ASSUME InductiveInvariant, NEW c \in Clients, BillOrders(c)
    PROVE  InductiveInvariant'
<1> DEFINE q == [req[c] EXCEPT !.ids = OnBill, !.pc = "lines"]
<1>1. /\ q \in Requests /\ q.ids = OnBill /\ q.pc = "lines" /\ q.for = req[c].for
      /\ q.shown = req[c].shown /\ q.crossed = req[c].crossed /\ q.force = req[c].force
  BY RequestIsGood DEF Requests, OnBill
<1>2. req[c].pc = "orders" /\ Turn(c, q) /\ UNCHANGED Rest
  BY DEF BillOrders
<1> HIDE DEF q
<1>3. GoodRequest(c, q)
  BY <1>1, <1>2, RequestIsGood
     DEF GoodRequest, WellFormed, ShowsBill, ReadRight, LeavesNobody, OnBill
<1> QED BY <1>1, <1>2, <1>3, TurnKeepsIt

LEMMA BillLinesKeepsIt ==
    ASSUME InductiveInvariant, NEW c \in Clients, BillLines(c)
    PROVE  InductiveInvariant'
<1> DEFINE bill == [o \in req[c].ids |-> order[o].worth]
<1>1. bill \in Bills /\ req[c].pc = "lines" /\ req[c].ids \subseteq Orders
  BY RequestIsGood, BillOfSome DEF BillLines, InductiveInvariant, Requests
<1>2. CASE req[c].for = "view"
  <2> DEFINE r == [req[c] EXCEPT !.shown = IF @ = Outdated THEN @ ELSE bill]
  <2>1. r \in Requests /\ r.for = "view" /\ r.shown = IF req[c].shown = Outdated THEN Outdated ELSE bill
    BY <1>1, <1>2, RequestIsGood DEF Requests
  <2>2. Turn(c, Dialog(r, FALSE)) /\ UNCHANGED Rest
    BY <1>2 DEF BillLines
  <2>3. r.shown # Outdated => r.shown = CurrentBill
    BY <1>1, <1>2, <2>1, RequestIsGood DEF ShowsBill, CurrentBill
  <2>4. c \in Tills
    BY <1>1, <1>2, RequestIsGood DEF WellFormed, Clients
  <2> HIDE DEF r
  <2>5. GoodRequest(c, Dialog(r, FALSE))
    BY <2>1, <2>3, <2>4
       DEF GoodRequest, Dialog, Blank, WellFormed, ShowsBill, ReadRight, LeavesNobody, Requests
  <2>6. Dialog(r, FALSE) \in Requests /\ Dialog(r, FALSE).pc = "dialog"
    BY <2>1, DialogIsRequest DEF Dialog, Blank
  <2> QED BY <2>2, <2>5, <2>6, TurnKeepsIt
<1>3. CASE req[c].for # "view"
  <2> DEFINE q == [req[c] EXCEPT !.bill = bill, !.ids = {}, !.pc = "close"]
  <2>1. /\ q \in Requests /\ q.bill = bill /\ q.pc = "close" /\ q.for = req[c].for
        /\ q.shown = req[c].shown /\ q.crossed = req[c].crossed /\ q.force = req[c].force
    BY <1>1, RequestIsGood DEF Requests
  <2>2. Turn(c, q) /\ UNCHANGED Rest
    BY <1>3 DEF BillLines
  <2>3. DOMAIN bill = req[c].ids /\ \A o \in req[c].ids : bill[o] = order[o].worth
    OBVIOUS
  <2>4. req[c].ids = OnBill => bill = CurrentBill
    BY DEF CurrentBill
  <2> HIDE DEF q, bill
  <2>5. WellFormed(c, q) /\ LeavesNobody(q)
    BY <1>1, <1>3, <2>1, RequestIsGood DEF WellFormed, LeavesNobody
  <2>6. ShowsBill(q)
    BY <1>1, <1>3, <2>1, <2>4, RequestIsGood DEF ShowsBill, WellFormed
  <2>7. ReadRight(q)
    BY <1>1, <1>3, <2>1, <2>3, RequestIsGood DEF ReadRight
  <2> QED BY <2>1, <2>2, <2>5, <2>6, <2>7, TurnKeepsIt DEF GoodRequest
<1> QED BY <1>2, <1>3

\* A dialog is what a till returns to when its request is answered.
LEMMA BackToDialog ==
    ASSUME InductiveInvariant, NEW t \in Tills, NEW b \in BOOLEAN,
           req[t].pc = "dialog" \/ req[t].for = "settle",
           Turn(t, Dialog(req[t], b)), UNCHANGED Rest
    PROVE  InductiveInvariant'
<1>1. t \in Clients
  BY DEF Clients
<1>2. req[t] \in Requests /\ ShowsBill(req[t])
  BY <1>1, RequestIsGood
<1>3. Dialog(req[t], b) \in Requests /\ Dialog(req[t], b).pc = "dialog"
  BY <1>2, DialogIsRequest DEF Dialog, Blank
<1>4. GoodRequest(t, Dialog(req[t], b))
  BY <1>2, DialogIsGood
<1> QED BY <1>1, <1>3, <1>4, TurnKeepsIt

\* A settlement goes on to its next step, of which it has read nothing yet.
LEMMA GoesOn ==
    ASSUME InductiveInvariant, NEW t \in Tills, NEW q \in Requests,
           req[t].pc = "dialog" \/ req[t].for = "settle",
           q.for = "settle", q.shown = req[t].shown, q.pc \in {"find", "count", "orders"},
           q.pc = "orders" /\ ~q.force => InKitchen = {},
           Turn(t, q), UNCHANGED Rest
    PROVE  InductiveInvariant'
<1>1. t \in Clients /\ t # Sweeper
  BY DEF Clients
<1>2. ShowsBill(req[t])
  BY <1>1, RequestIsGood
<1>3. GoodRequest(t, q)
  BY <1>1, <1>2 DEF GoodRequest, WellFormed, ShowsBill, ReadRight, LeavesNobody, InKitchen
<1> QED BY <1>1, <1>3, TurnKeepsIt

LEMMA OpenBillKeepsIt ==
    ASSUME InductiveInvariant, NEW t \in Tills, OpenBill(t) \/ Dismiss(t)
    PROVE  InductiveInvariant'
<1>1. t \in Clients
  BY DEF Clients
<1>2. CASE OpenBill(t)
  <2> DEFINE q == [Blank EXCEPT !.pc = "orders"]
  <2>1. q \in Requests /\ q.pc = "orders" /\ q.for = "view"
    BY BlankIsRequest DEF Blank, Requests
  <2>2. Turn(t, q) /\ UNCHANGED Rest
    BY <1>2 DEF OpenBill
  <2> HIDE DEF q
  <2>3. GoodRequest(t, q)
    BY <2>1 DEF GoodRequest, WellFormed, ShowsBill, ReadRight, LeavesNobody
  <2> QED BY <1>1, <2>1, <2>2, <2>3, TurnKeepsIt
<1>3. CASE Dismiss(t)
  BY <1>1, <1>3, BlankIsRequest, BlankIsGood, TurnKeepsIt DEF Dismiss, Blank
<1> QED BY <1>2, <1>3

LEMMA PressKeepsIt ==
    ASSUME InductiveInvariant, NEW t \in Tills, NEW force \in BOOLEAN, Press(t, force)
    PROVE  InductiveInvariant'
<1> DEFINE q == [req[t] EXCEPT !.pc = "find", !.for = "settle", !.force = force, !.refused = FALSE]
<1>1. q \in Requests /\ q.for = "settle" /\ q.shown = req[t].shown /\ q.pc = "find"
  BY RequestIsGood DEF Requests, Clients
<1>2. req[t].pc = "dialog" /\ Turn(t, q) /\ UNCHANGED Rest
  BY DEF Press
<1> HIDE DEF q
<1> QED BY <1>1, <1>2, GoesOn

LEMMA FindVisitKeepsIt ==
    ASSUME InductiveInvariant, NEW t \in Tills, FindVisit(t)
    PROVE  InductiveInvariant'
<1>1. req[t] \in Requests /\ req[t].pc = "find" /\ req[t].for = "settle"
  BY RequestIsGood DEF FindVisit, WellFormed, Clients, Requests
<1>2. CASE visit.status = "closed"
  BY <1>1, <1>2, BackToDialog DEF FindVisit
<1>3. CASE visit.status # "closed"
  <2> DEFINE q == [req[t] EXCEPT !.pc = IF req[t].force THEN "orders" ELSE "count"]
  <2>1. /\ q \in Requests /\ q.for = "settle" /\ q.shown = req[t].shown /\ q.force = req[t].force
        /\ q.pc = IF req[t].force THEN "orders" ELSE "count"
    BY <1>1 DEF Requests
  <2>2. Turn(t, q) /\ UNCHANGED Rest
    BY <1>3 DEF FindVisit
  <2> HIDE DEF q
  <2> QED BY <1>1, <2>1, <2>2, GoesOn
<1> QED BY <1>2, <1>3

LEMMA CountInFlightKeepsIt ==
    ASSUME InductiveInvariant, NEW t \in Tills, CountInFlight(t)
    PROVE  InductiveInvariant'
<1>1. req[t] \in Requests /\ req[t].pc = "count" /\ req[t].for = "settle"
  BY RequestIsGood DEF CountInFlight, WellFormed, Clients, Requests
<1>2. CASE InKitchen # {}
  BY <1>1, <1>2, BackToDialog DEF CountInFlight
<1>3. CASE InKitchen = {}
  <2> DEFINE q == [req[t] EXCEPT !.pc = "orders"]
  <2>1. q \in Requests /\ q.for = "settle" /\ q.shown = req[t].shown /\ q.pc = "orders"
    BY <1>1 DEF Requests
  <2>2. Turn(t, q) /\ UNCHANGED Rest
    BY <1>3 DEF CountInFlight
  <2> HIDE DEF q
  <2> QED BY <1>1, <1>3, <2>1, <2>2, GoesOn
<1> QED BY <1>2, <1>3

LEMMA CloseKeepsIt ==
    ASSUME InductiveInvariant, NEW t \in Tills, Close(t)
    PROVE  InductiveInvariant'
<1>1. t \in Clients /\ t # Sweeper /\ req[t] \in Requests /\ req[t].pc = "close" /\ req[t].for = "settle"
  BY RequestIsGood DEF Close, Clients
<1>2. CASE visit.status = "closed"
  BY <1>1, <1>2, BackToDialog DEF Close
<1>3. CASE visit.status # "closed"
  <2> DEFINE q == [req[t] EXCEPT !.pc = "revoke"]
  <2>1. /\ q \in Requests /\ q.for = "settle" /\ q.shown = req[t].shown /\ q.pc = "revoke"
        /\ q.bill = req[t].bill /\ q.crossed = req[t].crossed /\ q.force = req[t].force
    BY <1>1 DEF Requests
  <2>2. Turn(t, q) /\ UNCHANGED Rest /\ ~Locked /\ visit.status = "open"
    BY <1>3 DEF Close, InductiveInvariant, TypeOK
  <2> HIDE DEF q
  <2>3. GoodRequest(t, q)
    BY <1>1, <2>1, RequestIsGood DEF GoodRequest, WellFormed, ShowsBill, ReadRight, LeavesNobody
  <2> QED BY <1>1, <2>1, <2>2, <2>3, TurnKeepsIt
<1> QED BY <1>2, <1>3

\* Whoever is not of the sessions it revokes is of no party, or of a later one.
LEMMA RevokeKeepsIt ==
    ASSUME InductiveInvariant, NEW t \in Tills, Revoke(t)
    PROVE  InductiveInvariant'
<1> DEFINE q == [req[t] EXCEPT !.pc = "commit", !.gone = Live]
<1>1. /\ t \in Clients /\ t # Sweeper /\ req[t] \in Requests /\ req[t].pc = "revoke"
      /\ req[t].for = "settle" /\ visit.status = "open"
  BY RequestIsGood DEF Revoke, Clients, WellFormed, Requests, InductiveInvariant, LockHolds
<1>2. /\ q \in Requests /\ q.for = "settle" /\ q.shown = req[t].shown /\ q.pc = "commit"
      /\ q.bill = req[t].bill /\ q.crossed = req[t].crossed /\ q.force = req[t].force
      /\ q.gone = Live
  BY <1>1 DEF Requests, Live
<1>3. Turn(t, q) /\ UNCHANGED Rest
  BY DEF Revoke, Revoked
<1> HIDE DEF q
<1>4. \A p \in Phones \ q.gone : phone[p] = "over" \/ p \in between
  BY <1>1, <1>2 DEF InductiveInvariant, TypeOK, LaterParty, Live
<1>5. GoodRequest(t, q)
  BY <1>1, <1>2, <1>4, RequestIsGood DEF GoodRequest, WellFormed, ShowsBill, ReadRight, LeavesNobody
<1> QED BY <1>1, <1>2, <1>3, <1>5, TurnKeepsIt

LEMMA SweepFindKeepsIt ==
    ASSUME InductiveInvariant, SweepFind
    PROVE  InductiveInvariant'
<1> DEFINE q == [Blank EXCEPT !.pc = "orders", !.for = "sweep"]
<1>1. q \in Requests /\ q.pc = "orders" /\ q.for = "sweep"
  BY BlankIsRequest DEF Blank, Requests
<1>2. Turn(Sweeper, q) /\ UNCHANGED Rest /\ visit.status = "open" /\ Live = {}
  BY DEF SweepFind, Abandoned, InductiveInvariant, TypeOK
<1> HIDE DEF q
<1>3. PartyIsGone
  BY <1>2 DEF InductiveInvariant, TypeOK, PartyIsGone, Live, LaterParty
<1>4. GoodRequest(Sweeper, q)
  BY <1>1, <1>2, <1>3 DEF GoodRequest, WellFormed, ShowsBill, ReadRight, LeavesNobody
<1> QED BY <1>1, <1>2, <1>4, TurnKeepsIt DEF Clients

-----------------------------------------------------------------------------
(* The writes of a settlement and of the sweep, and their events *)

LEMMA CommitKeepsIt ==
    ASSUME InductiveInvariant, NEW t \in Tills, Commit(t)
    PROVE  InductiveInvariant'
<1> DEFINE q == [Dialog(req[t], FALSE) EXCEPT !.pc = "publish", !.for = "settle"]
<1>1. /\ t \in Clients /\ t # Sweeper /\ req[t] \in Requests
      /\ req[t].pc = "commit" /\ req[t].for = "settle"
  BY RequestIsGood DEF Commit, Clients, WellFormed, Requests
<1>2. q \in Requests /\ q.pc = "publish" /\ q.for = "settle" /\ q.shown = req[t].shown
  BY <1>1, NoBillIsBill DEF Dialog, Blank, Requests
<1>3. req' = [req EXCEPT ![t] = q] /\ UNCHANGED <<ops, wall>> /\ between' = between \ req[t].gone
  BY DEF Commit, Turn
<1> HIDE DEF q
<1>4. /\ req' \in [Clients -> Requests] /\ req'[t] = q
      /\ \A c \in Clients \ {t} : req'[c] = req[c]
  BY <1>1, <1>2, <1>3 DEF InductiveInvariant, TypeOK
<1>5. /\ order' \in [Orders -> [status : Owed \union {"none", "void"}, worth : 0..MaxWorth,
                                paid : BOOLEAN]]
      /\ \A o \in Orders : /\ order'[o].status = order[o].status
                           /\ order'[o].worth = order[o].worth
                           /\ o \in DOMAIN req[t].bill => order'[o].paid
  <2>1. order \in [Orders -> [status : Owed \union {"none", "void"}, worth : 0..MaxWorth,
                              paid : BOOLEAN]]
    BY DEF InductiveInvariant, TypeOK
  <2>2. ASSUME NEW o \in Orders
        PROVE  order'[o] \in {order[o], [order[o] EXCEPT !.paid = TRUE]}
               /\ (o \in DOMAIN req[t].bill => order'[o].paid)
    <3>1. order'[o] = IF o \in DOMAIN req[t].bill THEN [order[o] EXCEPT !.paid = TRUE] ELSE order[o]
      BY DEF Commit, Billed
    <3>2. order[o] \in [status : Owed \union {"none", "void"}, worth : 0..MaxWorth, paid : BOOLEAN]
      BY <2>1
    <3> QED BY <3>1, <3>2, SMTT(20)
  <2>3. order' = [o \in Orders |-> order'[o]]
    BY DEF Commit
  <2>4. ASSUME NEW o \in Orders
        PROVE  /\ order'[o] \in [status : Owed \union {"none", "void"}, worth : 0..MaxWorth,
                                 paid : BOOLEAN]
               /\ order'[o].status = order[o].status /\ order'[o].worth = order[o].worth
    <3>1. order[o] \in [status : Owed \union {"none", "void"}, worth : 0..MaxWorth, paid : BOOLEAN]
      BY <2>1
    <3>2. CASE order'[o] = order[o]
      BY <3>1, <3>2
    <3>3. CASE order'[o] = [order[o] EXCEPT !.paid = TRUE]
      BY <3>1, <3>3
    <3> QED BY <2>2, <3>2, <3>3
  <2> QED BY <2>2, <2>3, <2>4
<1>6. /\ visit' \in [status : {"open", "closed"}, reason : {"null", "settled", "abandoned"},
                    bill : Bills, force : BOOLEAN]
      /\ visit'.status = "closed" /\ visit'.bill = req[t].bill /\ visit'.force = req[t].force
  BY <1>1 DEF Commit, Requests
<1>7. phone' \in [Phones -> {"live", "over", "next"}] /\ crossed' = req[t].crossed
  BY DEF InductiveInvariant, TypeOK, Commit
<1>8. TypeOK'
  <2>1. overtaken' \in BOOLEAN /\ crossed' \subseteq Orders
    BY <1>1, <1>7 DEF Commit, Requests
  <2> QED BY <1>3, <1>4, <1>5, <1>6, <1>7, <2>1 DEF InductiveInvariant, TypeOK
<1>9. visit.status = "open" /\ \A c \in Clients : req[c].pc \in {"revoke", "commit"} => c = t
  BY <1>1 DEF InductiveInvariant, LockHolds
<1>10. /\ PartyIsGone'
       /\ \A p \in Phones : phone[p] = "over" \/ p \in between => phone'[p] = "over" \/ p \in between'
  <2>1. phone' = [p \in Phones |-> IF p \in req[t].gone THEN "over" ELSE phone[p]]
    BY DEF Commit
  <2>2. \A p \in Phones \ req[t].gone : phone[p] = "over" \/ p \in between
    BY <1>1, RequestIsGood DEF LeavesNobody
  <2> QED BY <1>3, <2>1, <2>2 DEF PartyIsGone
<1>11. CurrentBill' = CurrentBill /\ OnBill' = OnBill
  BY <1>5 DEF CurrentBill, OnBill
<1>12. ASSUME NEW c \in Clients PROVE GoodRequest(c, req[c])'
  <2>1. CASE c = t
    <3>1. q.shown # Outdated => q.shown = CurrentBill
      BY <1>1, <1>2, RequestIsGood DEF ShowsBill
    <3> QED BY <1>1, <1>2, <1>4, <1>10, <1>11, <2>1, <3>1
         DEF GoodRequest, WellFormed, ShowsBill, ReadRight, LeavesNobody
  <2>2. CASE c # t
    <3> SUFFICES ASSUME NEW r, r = req[c], r = req'[c]
                 PROVE  GoodRequest(c, req[c])'
      BY <1>4, <2>2
    <3>1. WellFormed(c, r) /\ ShowsBill(r) /\ ReadRight(r)
      BY RequestIsGood
    <3>2. ReadRight(r)'
      BY <1>5, <3>1 DEF ReadRight
    <3>3. r.pc # "commit" /\ (r.for = "sweep" => c = Sweeper)
      BY <1>9, <2>2, <3>1 DEF WellFormed
    <3>4. r.pc = "publish" \/ r.for = "sweep" => PartyIsGone'
      BY <1>10
    <3>5. r.for = "sweep" => overtaken'
      BY <3>1, <3>3, RequestIsGood DEF Commit
    <3>6. LeavesNobody(r)'
      BY <3>3, <3>4, <3>5 DEF LeavesNobody
    <3> QED BY <1>11, <3>1, <3>2, <3>6
         DEF GoodRequest, WellFormed, ShowsBill, ReadRight, LeavesNobody
  <2> QED BY <2>1, <2>2
<1>13. LockHolds'
  BY <1>2, <1>4, <1>9 DEF LockHolds
<1>14. BillIsExact' /\ KitchenDone'
  BY <1>1, <1>5, <1>6, <1>7, RequestIsGood DEF BillIsExact, KitchenDone, ReadRight
<1>15. WallMeansOver'
  BY <1>3, <1>10 DEF InductiveInvariant, TypeOK, WallMeansOver, PartyIsGone
<1> QED BY <1>6, <1>8, <1>12, <1>13, <1>14, <1>15 DEF InductiveInvariant

\* What is known of the other requests when one is blanked, or all may be.
LEMMA PublishKeepsIt ==
    ASSUME InductiveInvariant, NEW c \in Clients, Publish(c)
    PROVE  InductiveInvariant'
<1>1. /\ UNCHANGED <<order, visit, phone, ops, crossed, overtaken, between>>
      /\ req' = [req EXCEPT ![c] = Blank] /\ req[c].pc = "publish"
  BY DEF Publish, Turn
<1>2. /\ \A d \in Clients : req'[d] = IF d = c THEN Blank ELSE req[d]
      /\ req' \in [Clients -> Requests]
  BY <1>1, BlankIsRequest DEF InductiveInvariant, TypeOK
<1>3. TypeOK'
  <2>1. wall' \subseteq Phones
    BY DEF Publish, InductiveInvariant, TypeOK
  <2> QED BY <1>1, <1>2, <2>1 DEF InductiveInvariant, TypeOK
<1>4. ASSUME NEW d \in Clients PROVE GoodRequest(d, req[d])'
  <2> SUFFICES ASSUME NEW r, r = req'[d] PROVE GoodRequest(d, req[d])'
    OBVIOUS
  <2>1. GoodRequest(d, r)
    BY <1>2, BlankIsGood DEF InductiveInvariant
  <2> QED BY <1>1, <2>1
       DEF GoodRequest, WellFormed, ShowsBill, ReadRight, LeavesNobody, PartyIsGone, Live,
           CurrentBill, OnBill
<1>5. LockHolds'
  BY <1>1, <1>2 DEF InductiveInvariant, LockHolds, Blank
<1>6. WallMeansOver'
  <2>1. PartyIsGone
    BY <1>1, RequestIsGood DEF LeavesNobody
  <2> QED BY <1>1, <2>1 DEF Publish, InductiveInvariant, WallMeansOver, PartyIsGone
<1> QED BY <1>1, <1>3, <1>4, <1>5, <1>6
        DEF InductiveInvariant, LaterParty, BillIsExact, KitchenDone

LEMMA SweepCloseKeepsIt ==
    ASSUME InductiveInvariant, SweepClose
    PROVE  InductiveInvariant'
<1> DEFINE q == [Blank EXCEPT !.pc = "publish"]
<1>1. q \in Requests /\ q.pc = "publish" /\ q.for = "view"
  BY BlankIsRequest DEF Blank, Requests
<1>2. /\ UNCHANGED <<order, phone, ops, wall, between>> /\ ~Locked
      /\ req' = [req EXCEPT ![Sweeper] = q] /\ req[Sweeper].pc = "close"
      /\ overtaken' = FALSE /\ crossed' = {}
      /\ visit' = [visit EXCEPT !.status = "closed", !.reason = "abandoned",
                               !.bill = req[Sweeper].bill, !.force = FALSE]
  BY DEF SweepClose, Turn
<1> HIDE DEF q
<1>3. Sweeper \in Clients /\ req[Sweeper] \in Requests /\ req[Sweeper].for = "sweep"
  BY <1>2, RequestIsGood DEF Clients, WellFormed
<1>4. /\ \A c \in Clients : req'[c] = IF c = Sweeper THEN q ELSE req[c]
      /\ req' \in [Clients -> Requests]
  BY <1>1, <1>2, <1>3 DEF InductiveInvariant, TypeOK
<1>5. /\ visit' \in [status : {"open", "closed"}, reason : {"null", "settled", "abandoned"},
                    bill : Bills, force : BOOLEAN]
      /\ visit'.status = "closed" /\ visit'.reason = "abandoned"
  BY <1>2, <1>3 DEF InductiveInvariant, TypeOK, Requests
<1>6. TypeOK'
  BY <1>2, <1>4, <1>5 DEF InductiveInvariant, TypeOK
<1>7. PartyIsGone
  BY <1>3, RequestIsGood DEF LeavesNobody
<1>8. ASSUME NEW c \in Clients PROVE GoodRequest(c, req[c])'
  <2>1. CASE c = Sweeper
    BY <1>1, <1>2, <1>4, <1>7, <2>1
       DEF GoodRequest, WellFormed, ShowsBill, ReadRight, LeavesNobody, PartyIsGone
  <2>2. CASE c # Sweeper
    <3> SUFFICES ASSUME NEW r, r = req[c], r = req'[c] PROVE GoodRequest(c, req[c])'
      BY <1>4, <2>2
    <3>1. GoodRequest(c, r) /\ r.for # "sweep"
      BY <2>2, RequestIsGood DEF GoodRequest, WellFormed
    <3> QED BY <1>2, <3>1
         DEF GoodRequest, WellFormed, ShowsBill, ReadRight, LeavesNobody, PartyIsGone, CurrentBill,
             OnBill
  <2> QED BY <2>1, <2>2
<1>9. LockHolds'
  BY <1>1, <1>2, <1>4 DEF Locked, LockHolds
<1> QED BY <1>2, <1>5, <1>6, <1>8, <1>9 DEF InductiveInvariant, BillIsExact, KitchenDone, WallMeansOver

-----------------------------------------------------------------------------
(* The phones, and the server *)

LEMMA ScanKeepsIt ==
    ASSUME InductiveInvariant, NEW p \in Phones, Scan(p)
    PROVE  InductiveInvariant'
BY BeginKeepsIt DEF Scan

\* A phone that joins is in between while an event may be on its way to it, and
\* no longer of the sessions a settlement revokes.
LEMMA MintKeepsIt ==
    ASSUME InductiveInvariant, NEW p \in Phones, NEW found \in {"live", "next"}, Mint(p, found)
    PROVE  InductiveInvariant'
<1>1. /\ UNCHANGED <<order, visit, crossed>> /\ wall' = wall \ {p} /\ ops' \subseteq ops
      /\ phone' = [phone EXCEPT ![p] = found]
      /\ \A r \in Phones \ {p} : phone'[r] = phone[r] /\ (r \in between' <=> r \in between)
      /\ between' \subseteq between \cup {p}
      /\ overtaken' = (req[Sweeper].for = "sweep")
      /\ EventPending \/ (found = "next" /\ visit.status = "open") => p \in between'
  BY DEF Mint, InductiveInvariant, TypeOK
<1>2. /\ req' = [c \in Clients |-> [req[c] EXCEPT !.gone = @ \ {p}]]
      /\ \A c \in Clients : req[c] \in Requests
  BY DEF Mint, InductiveInvariant, TypeOK
<1>3. ASSUME NEW c \in Clients
      PROVE  /\ req'[c] \in Requests
             /\ \A f \in {"pc", "for", "shown", "refused", "force", "ids", "bill", "crossed"} :
                   req'[c][f] = req[c][f]
             /\ req'[c].gone = req[c].gone \ {p}
  BY <1>2 DEF Requests
<1>4. TypeOK'
  <2>1. req' \in [Clients -> Requests]
    BY <1>2, <1>3
  <2>2. phone' \in [Phones -> {"live", "over", "next"}] /\ between' \subseteq Phones
    BY <1>1 DEF InductiveInvariant, TypeOK
  <2> QED BY <1>1, <2>1, <2>2 DEF InductiveInvariant, TypeOK
<1>5. ASSUME NEW c \in Clients PROVE GoodRequest(c, req[c])'
  <2> SUFFICES ASSUME NEW q, q = req[c], NEW r, r = req'[c] PROVE GoodRequest(c, req[c])'
    OBVIOUS
  <2>1. WellFormed(c, q) /\ ShowsBill(q) /\ ReadRight(q) /\ LeavesNobody(q)
    BY RequestIsGood
  <2>2. /\ r.pc = q.pc /\ r.for = q.for /\ r.shown = q.shown /\ r.force = q.force
        /\ r.ids = q.ids /\ r.bill = q.bill /\ r.crossed = q.crossed /\ r.gone = q.gone \ {p}
    BY <1>3
  <2>3. WellFormed(c, r)
    BY <2>1, <2>2 DEF WellFormed
  <2>4. ShowsBill(r)'
    BY <1>1, <2>1, <2>2 DEF ShowsBill, CurrentBill, OnBill
  <2>5. ReadRight(r)'
    BY <1>1, <2>1, <2>2 DEF ReadRight
  <2>6. q.pc \in {"commit", "publish"} \/ q.for = "sweep" => p \in between'
    BY <1>1 DEF EventPending
  <2>7. q.for = "sweep" => overtaken'
    BY <1>1, <2>1 DEF WellFormed
  <2>8. LeavesNobody(r)'
    BY <1>1, <2>1, <2>2, <2>6, <2>7 DEF LeavesNobody, PartyIsGone
  <2> QED BY <2>3, <2>4, <2>5, <2>8
       DEF GoodRequest, WellFormed, ShowsBill, ReadRight, LeavesNobody
<1>6. LockHolds'
  <2>1. \A c \in Clients : req'[c].pc = req[c].pc
    BY <1>3
  <2> QED BY <1>1, <2>1 DEF InductiveInvariant, LockHolds
<1>7. WallMeansOver' /\ (visit.status = "open" => LaterParty \subseteq between)'
  BY <1>1 DEF InductiveInvariant, TypeOK, WallMeansOver, LaterParty
<1> QED BY <1>1, <1>4, <1>5, <1>6, <1>7 DEF InductiveInvariant, BillIsExact, KitchenDone

LEMMA ExpireKeepsIt ==
    ASSUME InductiveInvariant, NEW p \in Phones, Expire(p)
    PROVE  InductiveInvariant'
<1>1. /\ UNCHANGED <<order, visit, req, ops, wall, crossed, overtaken>> /\ between' = between \ {p}
      /\ phone'[p] = "over" /\ \A r \in Phones \ {p} : phone'[r] = phone[r]
  BY DEF Expire, InductiveInvariant, TypeOK
<1>2. TypeOK'
  BY DEF Expire, InductiveInvariant, TypeOK
<1>3. ASSUME NEW c \in Clients PROVE GoodRequest(c, req[c])'
  <2> SUFFICES ASSUME NEW r, r = req[c], r = req'[c] PROVE GoodRequest(c, req[c])'
    BY <1>1
  <2>1. WellFormed(c, r) /\ ShowsBill(r) /\ ReadRight(r) /\ LeavesNobody(r)
    BY RequestIsGood
  <2>2. LeavesNobody(r)'
    BY <1>1, <2>1 DEF LeavesNobody, PartyIsGone, Live
  <2> QED BY <1>1, <2>1, <2>2
       DEF GoodRequest, WellFormed, ShowsBill, ReadRight, LeavesNobody, CurrentBill, OnBill
<1>4. WallMeansOver' /\ (visit.status = "open" => LaterParty \subseteq between)'
  BY <1>1 DEF InductiveInvariant, TypeOK, WallMeansOver, LaterParty
<1> QED BY <1>1, <1>2, <1>3, <1>4 DEF InductiveInvariant, LockHolds, BillIsExact, KitchenDone

LEMMA RestartKeepsIt ==
    ASSUME InductiveInvariant, Restart
    PROVE  InductiveInvariant'
<1>1. /\ UNCHANGED <<order, visit, phone, wall, crossed, between>>
      /\ ops' = {} /\ overtaken' = FALSE
      /\ \A c \in Clients : req'[c] = IF req[c].for = "settle" \/ req[c].pc = "dialog"
                                      THEN Dialog(req[c], FALSE) ELSE Blank
  BY DEF Restart
<1>2. TypeOK'
  <2>1. req' \in [Clients -> Requests]
    BY RequestIsGood, DialogIsRequest, BlankIsRequest DEF Restart
  <2> QED BY <1>1, <2>1 DEF InductiveInvariant, TypeOK
<1>3. ASSUME NEW c \in Clients PROVE GoodRequest(c, req[c])' /\ req'[c].pc \notin {"revoke", "commit"}
  <2> SUFFICES ASSUME NEW r, r = req'[c] PROVE GoodRequest(c, req[c])' /\ r.pc \notin {"revoke", "commit"}
    OBVIOUS
  <2>1. GoodRequest(c, r) /\ r.pc \notin {"revoke", "commit"} /\ r.for = "view" /\ r.pc # "publish"
    <3>1. CASE req[c].for = "settle" \/ req[c].pc = "dialog"
      <4>1. c \in Tills
        BY <3>1, RequestIsGood DEF WellFormed, Clients
      <4>2. GoodRequest(c, Dialog(req[c], FALSE))
        BY <3>1, <4>1, RequestIsGood, DialogIsGood
      <4> QED BY <1>1, <3>1, <4>2 DEF Dialog, Blank
    <3>2. CASE ~(req[c].for = "settle" \/ req[c].pc = "dialog")
      <4>1. r = Blank
        BY <1>1, <3>2
      <4>2. Blank.pc = "idle" /\ Blank.for = "view"
        BY DEF Blank
      <4> QED BY <4>1, <4>2, BlankIsGood
    <3> QED BY <3>1, <3>2
  <2> QED BY <1>1, <2>1
       DEF GoodRequest, WellFormed, ShowsBill, ReadRight, LeavesNobody, CurrentBill, OnBill
<1>4. LockHolds'
  BY <1>3 DEF LockHolds
<1> QED BY <1>1, <1>2, <1>3, <1>4
        DEF InductiveInvariant, LaterParty, BillIsExact, KitchenDone, WallMeansOver

-----------------------------------------------------------------------------
(* The theorems *)

LEMMA InitInvariant == Init => InductiveInvariant
<1> SUFFICES ASSUME Init PROVE InductiveInvariant
  OBVIOUS
<1>1. TypeOK
  <2>1. order \in [Orders -> [status : Owed \union {"none", "void"}, worth : 0..MaxWorth,
                             paid : BOOLEAN]]
    BY DEF Init
  <2>2. visit \in [status : {"open", "closed"}, reason : {"null", "settled", "abandoned"},
                  bill : Bills, force : BOOLEAN]
    BY NoBillIsBill DEF Init
  <2>3. req \in [Clients -> Requests] /\ phone \in [Phones -> {"live", "over", "next"}]
    BY BlankIsRequest DEF Init
  <2> QED BY <2>1, <2>2, <2>3 DEF Init, TypeOK
<1>2. \A c \in Clients : GoodRequest(c, req[c]) /\ req[c].pc = "idle"
  <2> SUFFICES ASSUME NEW c \in Clients PROVE GoodRequest(c, req[c]) /\ req[c].pc = "idle"
    OBVIOUS
  <2>1. req[c] = Blank /\ Blank.pc = "idle"
    BY DEF Init, Blank
  <2> QED BY <2>1, BlankIsGood
<1>3. LockHolds
  BY <1>2 DEF LockHolds
<1> QED BY <1>1, <1>2, <1>3
        DEF Init, InductiveInvariant, LaterParty, BillIsExact, KitchenDone, WallMeansOver

LEMMA NextKeepsIt == InductiveInvariant /\ [Next]_vars => InductiveInvariant'
<1> SUFFICES ASSUME InductiveInvariant, [Next]_vars PROVE InductiveInvariant'
  OBVIOUS
<1>1. CASE (\E o \in Orders : OrderRequest(o)) \/ BillRequest
  BY <1>1, OrderRequestKeepsIt, BillRequestKeepsIt
<1>2. CASE \E t \in Tills : Till(t)
  BY <1>2, OpenBillKeepsIt, PressKeepsIt, FindVisitKeepsIt, CountInFlightKeepsIt, CloseKeepsIt,
     RevokeKeepsIt, CommitKeepsIt DEF Till
<1>3. CASE \E c \in Clients : BillOrders(c) \/ BillLines(c) \/ Publish(c)
  BY <1>3, BillOrdersKeepsIt, BillLinesKeepsIt, PublishKeepsIt
<1>4. CASE SweepFind \/ SweepClose
  BY <1>4, SweepFindKeepsIt, SweepCloseKeepsIt
<1>5. CASE \/ \E p \in Phones : Scan(p) \/ Expire(p) \/ \E found \in {"live", "next"} : Mint(p, found)
           \/ Restart
  BY <1>5, ScanKeepsIt, MintKeepsIt, ExpireKeepsIt, RestartKeepsIt
<1>6. CASE UNCHANGED vars
  <2>1. TypeOK'
    BY <1>6 DEF InductiveInvariant, TypeOK, vars
  <2> QED BY <1>6, <2>1, BystanderKeepsIt DEF vars
<1> QED BY <1>1, <1>2, <1>3, <1>4, <1>5, <1>6 DEF Next

\* The invariant the other theorems follow from.
THEOREM Invariance == Spec => []InductiveInvariant
BY InitInvariant, NextKeepsIt, PTL DEF Spec

\* Type correctness of a visit, its orders and the requests about its bill.
THEOREM TypeCorrect == Spec => []TypeOK
<1>1. InductiveInvariant => TypeOK
  BY DEF InductiveInvariant
<1> QED BY <1>1, Invariance, PTL

\* settleVisit: what a settlement records is right about every order that did
\* not change while it ran or afterwards.
THEOREM BillIsExactHolds == Spec => []BillIsExact
<1>1. InductiveInvariant => BillIsExact
  BY DEF InductiveInvariant
<1> QED BY <1>1, Invariance, PTL

\* settleVisit: unless it is forced, nothing stays in the kitchen that was there
\* when the settlement began.
THEOREM KitchenDoneHolds == Spec => []KitchenDone
<1>1. InductiveInvariant => KitchenDone
  BY DEF InductiveInvariant
<1> QED BY <1>1, Invariance, PTL

\* DeskBoard's settle: what staff collect is what the till records, unless an
\* order has changed since the dialog's bill was asked for.
THEOREM CollectedIsRecordedHolds == Spec => []CollectedIsRecorded
<1>1. InductiveInvariant => CollectedIsRecorded
  <2> SUFFICES ASSUME InductiveInvariant, NEW t \in Tills, req[t].pc = "commit",
                      req[t].shown # Outdated
               PROVE  req[t].shown = req[t].bill
    BY DEF CollectedIsRecorded
  <2>1. WellFormed(t, req[t]) /\ ShowsBill(req[t]) /\ t # Sweeper /\ req[t] \in Requests
    BY RequestIsGood DEF Clients
  <2> QED BY <2>1 DEF WellFormed, ShowsBill, Requests
<1> QED BY <1>1, Invariance, PTL

\* visit.closed: a phone that thanks its party belongs to one that is done, or
\* joined after the close revoked its sessions and before its event.
THEOREM WallMeansOverHolds == Spec => []WallMeansOver
<1>1. InductiveInvariant => WallMeansOver
  BY DEF InductiveInvariant
<1> QED BY <1>1, Invariance, PTL

\* Only a settlement marks orders paid, those of the bill it records.
LEMMA OnlyBilledArePaid ==
    ASSUME InductiveInvariant, Next, NEW o \in Orders, order'[o].paid, ~order[o].paid
    PROVE  o \in DOMAIN visit'.bill
<1>1. ASSUME NEW x \in Orders, NEW status, NEW worth, Put(x, status, worth) PROVE FALSE
  BY <1>1 DEF Put, InductiveInvariant, TypeOK
<1>2. ~ UNCHANGED order
  OBVIOUS
<1>3. CASE \E t \in Tills : Commit(t)
  <2> PICK t \in Tills : Commit(t)
    BY <1>3
  <2> QED BY DEF Commit, Billed
<1>4. CASE \E x \in Orders : OrderRequest(x)
  BY <1>1, <1>2, <1>4
     DEF OrderRequest, Submit, Place, AskWithdraw, Withdraw, AskMove, Move, Edit, Begin
<1>5. CASE BillRequest
  BY <1>2, <1>5 DEF BillRequest, AskStatus, PutStatus, Begin
<1> QED BY <1>2, <1>3, <1>4, <1>5
        DEF Next, Till, OpenBill, Dismiss, Press, FindVisit, CountInFlight, Close, Revoke,
            BillOrders, BillLines, Publish, SweepFind, SweepClose, Scan, Begin, Mint, Expire, Restart, Rest

\* settleVisit: "nor an order marked paid that no one paid for".
THEOREM PaidWasBilledHolds == Spec => PaidWasBilled
<1> DEFINE A == \A o \in Orders : order'[o].paid /\ ~order[o].paid => o \in DOMAIN visit'.bill
<1>1. InductiveInvariant /\ [Next]_vars => [A]_vars
  BY OnlyBilledArePaid
<1>2. PaidWasBilled <=> [][A]_vars
  BY DEF PaidWasBilled
<1> HIDE DEF A
<1> QED BY <1>1, <1>2, Invariance, PTL DEF Spec

\* closeAbandonedVisits: a visit is closed over a settlement, or over a party
\* that has just sat down, only if that came between its read and its write.
THEOREM SweepTakesAbandonedHolds == Spec => SweepTakesAbandoned
<1> DEFINE A == visit'.reason = "abandoned" /\ req[Sweeper].pc = "close" /\ req'[Sweeper].pc = "publish" =>
                  \/ overtaken
                  \/ visit.status # "closed" /\ Live = {}
<1>1. InductiveInvariant => A
  <2>1. InductiveInvariant => WellFormed(Sweeper, req[Sweeper]) /\ LeavesNobody(req[Sweeper])
    BY RequestIsGood DEF Clients
  <2> QED BY <2>1 DEF WellFormed, LeavesNobody
<1>2. SweepTakesAbandoned <=> [][A]_vars
  BY DEF SweepTakesAbandoned
<1> HIDE DEF A
<1> QED BY <1>1, <1>2, Invariance, PTL DEF Spec
=============================================================================
