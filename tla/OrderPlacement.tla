--------------------------- MODULE OrderPlacement ---------------------------
(***************************************************************************)
(* How the dishes in a phone's cart become an order: the page of the phone *)
(* (components/CustomerApp.tsx) and POST /api/orders                       *)
(* (app/api/orders/route.ts), for the phones of one table.                 *)
(*                                                                         *)
(* The page draws an idempotency key when it first submits a cart, keeps   *)
(* it while it does not know what became of the order, and forgets it when *)
(* it is told, or reloaded; the cart survives a reload.  The server may    *)
(* still be at work on a submission the page has given up on, and on the   *)
(* same one again.  The handler is one action for each database statement. *)
(*                                                                         *)
(* Every dish is one tap of "add to cart", so that a dish ordered twice,   *)
(* or never, can be told from one that was ordered as often as it was      *)
(* asked for.                                                              *)
(***************************************************************************)
EXTENDS Integers, Sequences, FiniteSets

CONSTANTS
    Phones,                         \* phones at the table
    Requests,                       \* submissions the server works on at once
    Dishes,                         \* taps of "add to cart"
    MAX_ORDERS_PER_SESSION_WINDOW,  \* 5 in the code
    MAX_OPEN_ORDERS_PER_TABLE,      \* 10 in the code
    NUMBER_RETRIES,                 \* 5 in the code
    MaxKeys,                        \* bound on the keys that are drawn
    MaxSessions,                    \* bound on the sessions that are minted
    MaxRevived,                     \* bound on the open orders that were brought back
    None                            \* no key, no request

ASSUME RequestsAssumption == IsFiniteSet(Requests) /\ None \notin Requests
ASSUME LimitsAssumption ==
    /\ MAX_ORDERS_PER_SESSION_WINDOW \in Nat \ {0}
    /\ MAX_OPEN_ORDERS_PER_TABLE \in Nat \ {0}
    /\ NUMBER_RETRIES \in Nat \ {0}
    /\ MaxKeys \in Nat /\ MaxSessions \in Nat /\ MaxRevived \in Nat
ASSUME NoneAssumption == None \notin Nat

VARIABLES
    orders,     \* the rows of Order, in the order they were inserted
    open,       \* how many orders are received, accepted, preparing or ready
    revived,    \* history: how many of these had left the kitchen before
    recent,     \* orders younger than SESSION_WINDOW_MS
    cart,       \* the page's cart, and its copy in localStorage
    key,        \* idempotencyKeyRef
    awaited,    \* the request whose answer the page is waiting for
    page,       \* "menu", or "expired" for the re-scan wall
    session,    \* the session in the phone's cookie
    ended,      \* sessions that are revoked or expired
    req,        \* what the server holds of each submission
    lastKey,    \* how many keys have been drawn
    lastSession,\* how many sessions have been minted
    tapped,     \* history: dishes that were put into a cart
    late,       \* history: dishes put into a cart while its page held a key
    adrift,     \* history: dishes in the cart of a page that held a key and went
    wiped       \* history: dishes cleared from a cart by a good answer

phones == <<cart, key, awaited, page, session>>
server == <<orders, open, revived, recent, ended>>
counters == <<lastKey, lastSession>>
history == <<tapped, late, adrift, wiped>>
vars == <<orders, open, revived, recent, cart, key, awaited, page, session, ended, req,
          lastKey, lastSession, tapped, late, adrift, wiped>>

-----------------------------------------------------------------------------
(* Data *)

Orders == [session : Nat, key : Nat, dishes : SUBSET Dishes, number : Nat]

\* The statement the handler issues next; "answer" once it has issued the last.
Stages == {"session", "replay", "recent", "open", "menu", "number", "insert", "answer"}

Answers == {"none", "ok", "no_session", "rate_limited", "refused", "order_failed"}

Submissions ==
    [stage : Stages, phone : Phones, session : Nat, key : Nat, dishes : SUBSET Dishes,
     full : BOOLEAN,   \* the session's window is used up
     last : Nat,       \* the highest ticket number, as it was read
     tries : Nat,      \* inserts that collided
     answer : Answers]

Free == [stage |-> "free"]

At(r, stage) == req[r].stage = stage

Ordered(d) == \E i \in DOMAIN orders : d \in orders[i].dishes

Init ==
    /\ orders = <<>>
    /\ open = 0
    /\ revived = 0
    /\ recent = {}
    /\ cart = [p \in Phones |-> {}]
    /\ key = [p \in Phones |-> None]
    /\ awaited = [p \in Phones |-> None]
    /\ page = [p \in Phones |-> "expired"]
    /\ session = [p \in Phones |-> 0]
    /\ ended = {0}
    /\ req = [r \in Requests |-> Free]
    /\ lastKey = 0
    /\ lastSession = 0
    /\ tapped = {}
    /\ late = {}
    /\ adrift = {}
    /\ wiped = {}

-----------------------------------------------------------------------------
(* The page *)

\* A tap of "add", also while an answer is outstanding.
Add(p, d) ==
    /\ page[p] = "menu"
    /\ d \notin tapped
    /\ cart' = [cart EXCEPT ![p] = cart[p] \cup {d}]
    /\ tapped' = tapped \cup {d}
    /\ late' = IF key[p] = None THEN late ELSE late \cup {d}
    /\ UNCHANGED <<server, key, awaited, page, session, req, counters, adrift, wiped>>

\* Mutant: a new key for every submission.
NextKeyAlwaysNew(p) == lastKey + 1

\* The key of the next submission: the one in hand, or a new one.
NextKey(p) == IF key[p] = None THEN lastKey + 1 ELSE key[p]

Submit(p, r) ==
    /\ page[p] = "menu"
    /\ awaited[p] = None
    /\ cart[p] # {}
    /\ req[r] = Free /\ \A q \in Phones : awaited[q] # r
    /\ NextKey(p) <= MaxKeys
    /\ key' = [key EXCEPT ![p] = NextKey(p)]
    /\ lastKey' = IF NextKey(p) > lastKey THEN NextKey(p) ELSE lastKey
    /\ awaited' = [awaited EXCEPT ![p] = r]
    /\ req' = [req EXCEPT ![r] =
                 [stage |-> "session", phone |-> p, session |-> session[p], key |-> NextKey(p),
                  dishes |-> cart[p], full |-> FALSE, last |-> 0, tries |-> 0,
                  answer |-> "none"]]
    /\ UNCHANGED <<server, cart, page, session, lastSession, history>>

\* fetch rejects: the network failed, and nobody knows where.
GiveUp(p) ==
    /\ awaited[p] # None
    /\ awaited' = [awaited EXCEPT ![p] = None]
    /\ UNCHANGED <<server, cart, key, page, session, req, counters, history>>

\* The page is loaded again; of what it held only the cart comes back.
Load(p) ==
    /\ key' = [key EXCEPT ![p] = None]
    /\ awaited' = [awaited EXCEPT ![p] = None]
    /\ adrift' = IF key[p] = None THEN adrift ELSE adrift \cup cart[p]
    /\ late' = late \ cart[p]
    /\ UNCHANGED <<cart, tapped, wiped>>

Reload(p) ==
    /\ page[p] = "menu"
    /\ Load(p)
    /\ page' = [page EXCEPT ![p] = IF session[p] \in ended THEN "expired" ELSE "menu"]
    /\ UNCHANGED <<server, session, req, counters>>

\* A scan of the table's code gives the phone a new session.
Rescan(p) ==
    /\ lastSession < MaxSessions
    /\ Load(p)
    /\ lastSession' = lastSession + 1
    /\ session' = [session EXCEPT ![p] = lastSession + 1]
    /\ page' = [page EXCEPT ![p] = "menu"]
    /\ UNCHANGED <<server, req, lastKey>>

\* The live stream, or a 401 to another call, puts up the wall.
NoticeEnd(p) ==
    /\ page[p] = "menu"
    /\ session[p] \in ended
    /\ page' = [page EXCEPT ![p] = "expired"]
    /\ UNCHANGED <<server, cart, key, awaited, session, req, counters, history>>

-----------------------------------------------------------------------------
(* POST /api/orders *)

\* The handler of r goes on to its next statement, or answers and has nothing
\* but the answer left.
Goes(r, stage) == req' = [req EXCEPT ![r] = [req[r] EXCEPT !.stage = stage]]

Reply(q, answer) ==
    [q EXCEPT !.stage = "answer", !.full = FALSE, !.last = 0, !.tries = 0, !.answer = answer]

Replies(r, answer) == req' = [req EXCEPT ![r] = Reply(req[r], answer)]

CheckSession(r) ==
    /\ At(r, "session")
    /\ IF req[r].session \in ended THEN Replies(r, "no_session") ELSE Goes(r, "replay")
    /\ UNCHANGED <<server, phones, counters, history>>

\* An order of this session carries this key.
KeyTaken(r) ==
    \E i \in DOMAIN orders : orders[i].session = req[r].session /\ orders[i].key = req[r].key

LookForReplay(r) ==
    /\ At(r, "replay")
    /\ IF KeyTaken(r) THEN Replies(r, "ok") ELSE Goes(r, "recent")
    /\ UNCHANGED <<server, phones, counters, history>>

OfWindow(s) == {i \in recent : orders[i].session = s}

CountRecent(r) ==
    /\ At(r, "recent")
    /\ req' = [req EXCEPT ![r] = [req[r] EXCEPT
                 !.stage = "open",
                 !.full = Cardinality(OfWindow(req[r].session)) >= MAX_ORDERS_PER_SESSION_WINDOW]]
    /\ UNCHANGED <<server, phones, counters, history>>

\* Mutant: the table's cap is passed one order late.
OverCapLate(r) == req[r].full \/ open > MAX_OPEN_ORDERS_PER_TABLE

OverCap(r) == req[r].full \/ open >= MAX_OPEN_ORDERS_PER_TABLE

CountOpen(r) ==
    /\ At(r, "open")
    /\ IF OverCap(r) THEN Replies(r, "rate_limited") ELSE Goes(r, "menu")
    /\ UNCHANGED <<server, phones, counters, history>>

\* Everything is on the menu and the modifiers fit, or the order is refused.
ReadMenu(r) ==
    /\ At(r, "menu")
    /\ Goes(r, "number") \/ Replies(r, "refused")
    /\ UNCHANGED <<server, phones, counters, history>>

Highest ==
    LET numbers == {orders[i].number : i \in DOMAIN orders}
    IN  IF numbers = {} THEN 0 ELSE CHOOSE n \in numbers : \A m \in numbers : m <= n

ReadNumber(r) ==
    /\ At(r, "number")
    /\ req' = [req EXCEPT ![r] = [req[r] EXCEPT !.stage = "insert", !.last = Highest]]
    /\ UNCHANGED <<server, phones, counters, history>>

\* Mutant: without the unique index on ticket numbers.
NumberNeverTaken(r) == FALSE

\* Another order of the venue has the number this one is about to take.
NumberTaken(r) == \E i \in DOMAIN orders : orders[i].number = req[r].last + 1

\* The row and its items are committed.
Insert(r) ==
    /\ At(r, "insert")
    /\ ~KeyTaken(r) /\ ~NumberTaken(r)
    /\ orders' = Append(orders, [session |-> req[r].session, key |-> req[r].key,
                                 dishes |-> req[r].dishes, number |-> req[r].last + 1])
    /\ open' = open + 1
    /\ recent' = recent \cup {Len(orders) + 1}
    /\ Replies(r, "ok")
    /\ UNCHANGED <<revived, ended, phones, counters, history>>

\* The same submission got there first: its order is read back.
InsertReplays(r) ==
    /\ At(r, "insert")
    /\ KeyTaken(r)
    /\ Replies(r, "ok")
    /\ UNCHANGED <<server, phones, counters, history>>

\* The number is gone: from the top, or after the last attempt not at all.
\* (Which of two violated indexes is reported is left open.)
InsertCollides(r) ==
    /\ At(r, "insert")
    /\ NumberTaken(r)
    /\ req' = [req EXCEPT ![r] =
                 IF req[r].tries + 1 = NUMBER_RETRIES
                 THEN Reply(req[r], "order_failed")
                 ELSE [req[r] EXCEPT !.stage = "number", !.last = 0, !.tries = req[r].tries + 1]]
    /\ UNCHANGED <<server, phones, counters, history>>

\* The answer arrives at a page that no longer waits for it ...
AnswerDropped(r) ==
    /\ At(r, "answer")
    /\ awaited[req[r].phone] # r
    /\ req' = [req EXCEPT ![r] = Free]
    /\ UNCHANGED <<server, phones, counters, history>>

\* Mutant: the page forgets the key whatever it is told.
AnswerHeardForgets(r) ==
    LET p == req[r].phone
        ok == req[r].answer = "ok"
    IN  /\ At(r, "answer")
        /\ awaited[p] = r
        /\ awaited' = [awaited EXCEPT ![p] = None]
        /\ key' = [key EXCEPT ![p] = None]
        /\ cart' = IF ok THEN [cart EXCEPT ![p] = {}] ELSE cart
        /\ wiped' = IF ok THEN wiped \cup cart[p] ELSE wiped
        /\ page' = IF req[r].answer = "no_session" THEN [page EXCEPT ![p] = "expired"] ELSE page
        /\ req' = [req EXCEPT ![r] = Free]
        /\ UNCHANGED <<server, session, counters, tapped, late, adrift>>

\* ... or at the page that does: a good one clears the cart and forgets the
\* key; after any other the page keeps both.
AnswerHeard(r) ==
    LET p == req[r].phone
        ok == req[r].answer = "ok"
    IN  /\ At(r, "answer")
        /\ awaited[p] = r
        /\ awaited' = [awaited EXCEPT ![p] = None]
        /\ key' = IF ok THEN [key EXCEPT ![p] = None] ELSE key
        /\ cart' = IF ok THEN [cart EXCEPT ![p] = {}] ELSE cart
        /\ wiped' = IF ok THEN wiped \cup cart[p] ELSE wiped
        /\ page' = IF req[r].answer = "no_session" THEN [page EXCEPT ![p] = "expired"] ELSE page
        /\ req' = [req EXCEPT ![r] = Free]
        /\ UNCHANGED <<server, session, counters, tapped, late, adrift>>

\* The request is cut off on its way, or by a restart of the server.
Dies(r) ==
    /\ req[r] # Free
    /\ req' = [req EXCEPT ![r] = Free]
    /\ UNCHANGED <<server, phones, counters, history>>

-----------------------------------------------------------------------------
(* The desk, the clock and the admin *)

\* An order is served, rejected or withdrawn: one of those that never left the
\* kitchen, or of those that were brought back.
Leave ==
    /\ \/ open > revived /\ UNCHANGED revived
       \/ revived > 0 /\ revived' = revived - 1
    /\ open' = open - 1
    /\ UNCHANGED <<orders, recent, ended, phones, req, counters, history>>

\* An order that has left is in the kitchen again.  A request of the desk read
\* it when it was there, as every order is when it is placed, and moves it on by
\* its id alone, over what another has made of it since.
Revive ==
    /\ open < Len(orders) /\ revived < MaxRevived
    /\ open' = open + 1
    /\ revived' = revived + 1
    /\ UNCHANGED <<orders, recent, ended, phones, req, counters, history>>

\* SESSION_WINDOW_MS goes by; it slides, so the older order goes first.
Age(i) ==
    /\ i \in recent
    /\ \A j \in recent : i <= j
    /\ recent' = recent \ {i}
    /\ UNCHANGED <<orders, open, revived, ended, phones, req, counters, history>>

\* A session expires or is revoked.
EndSession(s) ==
    /\ s \notin ended
    /\ ended' = ended \cup {s}
    /\ UNCHANGED <<orders, open, revived, recent, phones, req, counters, history>>

-----------------------------------------------------------------------------
Page(p) ==
    \/ \E d \in Dishes : Add(p, d)
    \/ \E r \in Requests : Submit(p, r)
    \/ GiveUp(p) \/ Reload(p) \/ Rescan(p) \/ NoticeEnd(p)

Handle(r) ==
    \/ CheckSession(r) \/ LookForReplay(r) \/ CountRecent(r) \/ CountOpen(r) \/ ReadMenu(r)
    \/ ReadNumber(r) \/ Insert(r) \/ InsertReplays(r) \/ InsertCollides(r)
    \/ AnswerDropped(r) \/ AnswerHeard(r)

Next ==
    \/ \E p \in Phones : Page(p)
    \/ \E r \in Requests : Handle(r) \/ Dies(r)
    \/ Leave \/ Revive
    \/ \E i \in recent : Age(i)
    \/ \E s \in 1..lastSession : EndSession(s)

Spec == Init /\ [][Next]_vars

-----------------------------------------------------------------------------
(* What the code keeps true *)

TypeOK ==
    /\ orders \in Seq(Orders)
    /\ open \in 0..Len(orders)
    /\ revived \in 0..open
    /\ recent \in SUBSET DOMAIN orders
    /\ cart \in [Phones -> SUBSET Dishes]
    /\ key \in [Phones -> Nat \cup {None}]
    /\ awaited \in [Phones -> Requests \cup {None}]
    /\ page \in [Phones -> {"menu", "expired"}]
    /\ session \in [Phones -> Nat]
    /\ ended \in SUBSET (0..lastSession)
    /\ req \in [Requests -> Submissions \cup {Free}]
    /\ lastKey \in Nat
    /\ lastSession \in Nat
    /\ tapped \in SUBSET Dishes
    /\ late \in SUBSET Dishes
    /\ adrift \in SUBSET Dishes
    /\ wiped \in SUBSET Dishes

\* Orders that are placed side by side never share a ticket number, and no
\* number is skipped: the i-th order of the venue is number i.
NumbersHaveNoGaps == \A i \in DOMAIN orders : orders[i].number = i

\* A dish is ordered once, however often its cart is submitted, given up on and
\* submitted again, unless the page went while it held a key.
OrderedOnceUnlessAdrift ==
    \A i, j \in DOMAIN orders : i # j => orders[i].dishes \cap orders[j].dishes \subseteq adrift

\* A cart is cleared only of what has been ordered, and of what was put into it
\* between a submission and its repetition.
ClearedWasOrdered == \A d \in wiped : Ordered(d) \/ d \in late

\* Submissions that count at the same time pass the cap together, but every one
\* of them only once: the table has less than one open order for each too many,
\* leaving aside those that a late update of the desk has brought back.
OpenOrdersBounded ==
    open - revived < MAX_OPEN_ORDERS_PER_TABLE + Cardinality(Requests)

\* "order_failed" takes as many other orders as there are attempts.
FailsOnlyForRivals ==
    \A r \in Requests :
        At(r, "answer") /\ req[r].answer = "order_failed" => Len(orders) >= NUMBER_RETRIES

\* The pages of the kitchen's book: what was ordered under each ticket number.
Pages ==
    [n \in 1..Len(orders) |->
        UNION {orders[i].dishes : i \in {j \in DOMAIN orders : orders[j].number = n}}]

Book == INSTANCE OrderBook WITH book <- Pages, cleared <- wiped

\* The page and the handler keep the promise of OrderBook at every step: orders
\* take the next number and are never rewritten, a dish is ordered once, and a
\* good answer clears what is in the book, with the exceptions named there.
KeepsOrderBook == Book!Spec

-----------------------------------------------------------------------------
(* Why it is true *)

\* What a submission and the order it becomes have in common.
Body(x) == [session |-> x.session, key |-> x.key, dishes |-> x.dishes]

\* Everything that was submitted and is not lost: only a page adds to it.
Sent ==
    {Body(orders[i]) : i \in DOMAIN orders} \cup {Body(req[r]) : r \in {q \in Requests : req[q] # Free}}

\* A dish is in one cart at most, and in none once it was cleared from one.
CartsApart ==
    /\ wiped \subseteq tapped
    /\ \A p \in Phones : cart[p] \subseteq tapped \ wiped
    /\ \A p, q \in Phones : p # q => cart[p] \cap cart[q] = {}

KeysDrawn ==
    /\ \A p \in Phones : key[p] # None => key[p] <= lastKey
    /\ \A p, q \in Phones : key[p] # None /\ key[p] = key[q] => p = q

\* A key is used in one session, and for the same dishes or dishes adrift.
SentApart ==
    /\ \A m \in Sent : m.key <= lastKey /\ m.dishes \subseteq tapped
    /\ \A m, n \in Sent : m.key = n.key => m.session = n.session
    /\ \A m, n \in Sent : m.key # n.key => m.dishes \cap n.dishes \subseteq adrift

\* What was submitted under the key a page holds covers the page's cart, but
\* for late dishes; what was submitted under another has none of them.
SentFromCart ==
    \A p \in Phones : \A m \in Sent :
        /\ m.key = key[p] => m.session = session[p] /\ cart[p] \subseteq m.dishes \cup late
        /\ m.key # key[p] => m.dishes \cap cart[p] \subseteq adrift

\* A page waits for a submission of its own, under the key it holds.
AwaitsItsOwn ==
    \A p \in Phones : \A r \in Requests :
        awaited[p] = r /\ req[r] # Free => req[r].phone = p /\ req[r].key = key[p]

OneOrderForAKey ==
    \A i, j \in DOMAIN orders : orders[i].key = orders[j].key => i = j

OkMeansOrdered ==
    \A r \in Requests : At(r, "answer") /\ req[r].answer = "ok" =>
        \E i \in DOMAIN orders : orders[i].key = req[r].key

\* Every collision is with an order inserted since the number was read.
TriesHaveRivals ==
    \A r \in Requests :
        /\ At(r, "insert") => req[r].tries <= req[r].last /\ req[r].last <= Len(orders)
        /\ req[r] # Free => req[r].tries <= Len(orders)

Passed == {r \in Requests : req[r].stage \in {"menu", "number", "insert"}}

PassedTogether ==
    (open - revived) + Cardinality(Passed) < MAX_OPEN_ORDERS_PER_TABLE + Cardinality(Requests)

\* Inductive: it implies the invariants above and every step keeps it.
InductiveInvariant ==
    /\ TypeOK
    /\ NumbersHaveNoGaps
    /\ CartsApart
    /\ KeysDrawn
    /\ SentApart
    /\ SentFromCart
    /\ AwaitsItsOwn
    /\ OneOrderForAKey
    /\ OkMeansOrdered
    /\ ClearedWasOrdered
    /\ TriesHaveRivals
    /\ FailsOnlyForRivals
    /\ PassedTogether

-----------------------------------------------------------------------------
(* What the repository says, and the code does not keep *)

\* README.md:55 "ten open orders per table": submissions count side by side and
\* insert afterwards, and the desk brings back a withdrawn order it still holds.
OpenOrdersWithinCap == open <= MAX_OPEN_ORDERS_PER_TABLE

\* components/CustomerApp.tsx:51 "only cleared once an order is actually placed":
\* a page that is loaded again has the cart and not the key, and orders again
\* what a lost answer had ordered.
OrderedOnce ==
    \A i, j \in DOMAIN orders : i # j => orders[i].dishes \cap orders[j].dishes = {}

\* app/api/orders/route.ts:57 "returned as if this were the original request": a
\* dish added before the retry is cleared by the answer and is in no order.
ClearedMeansOrdered == \A d \in wiped : Ordered(d)
=============================================================================
