------------------------------ MODULE MenuCache ------------------------------
(***************************************************************************)
(* How the menu reaches the phones: the cache they are served from         *)
(* (lib/menu.ts), GET /api/menu and the page itself, the phones' menu and  *)
(* cart (components/CustomerApp.tsx, components/customer), the event       *)
(* menu.changed, and the part of POST /api/orders that reads the menu, on  *)
(* the rows and handlers of MenuRows.                                      *)
(*                                                                         *)
(* The cache holds the promise of a load, so a load that has not answered  *)
(* is already served.                                                      *)
(***************************************************************************)
EXTENDS MenuRows, FiniteSets

CONSTANTS
    Phones,
    Loads,         \* loads of the menu under way at once
    RETRY_COUNT,   \* 3 in the code
    MaxLines,      \* bound on the lines of a cart
    MaxFaults      \* bound on failures

ASSUME BoundsAssumption == RETRY_COUNT \in Nat /\ MaxLines \in Nat /\ MaxFaults \in Nat

VARIABLES
    cache, load,   \* the entry of menuCache, and the loads under way
    screen,        \* the menu a phone shows
    fetch, tries,  \* its request for a newer one
    stream, mail,  \* its event stream, and the menu.changed on their way
    cart, order,   \* its cart, and its order on the server
    faults,        \* how many failures there have been
    behind,        \* history: phones an event did not reach
    served         \* history: dishes ordered while off sale

store == <<menu, req, presses>>
caching == <<cache, load>>
page == <<screen, fetch, tries, stream, mail, behind>>
sale == <<cart, order, ordered, served>>
vars == <<rows, cache, load, screen, fetch, tries, stream, mail, cart, order, faults, behind,
          served>>

-----------------------------------------------------------------------------
(* The menu that is served *)

Menus == [cats : Some(Cats, Versions), items : Some(Items, Dish)]

\* findMany of the active categories, then of what is in them.
ActiveCats == [c \in {d \in DOMAIN cats : cats[d].active} |-> cats[c].version]
MenuOf(cs) ==
    [cats |-> cs, items |-> [i \in {j \in DOMAIN items : items[j].cat \in DOMAIN cs} |-> items[i]]]
Shown == MenuOf(ActiveCats)

NoLoad == [stage |-> "none"]
Empty == [stage |-> "empty"]
Idle == [stage |-> "none"]

Init ==
    /\ RowsInit
    /\ cache = Empty
    /\ load = [l \in Loads |-> NoLoad]
    /\ screen = [p \in Phones |-> None]
    /\ fetch = [p \in Phones |-> Idle]
    /\ tries = [p \in Phones |-> 0]
    /\ stream = [p \in Phones |-> "down"]
    /\ mail = [p \in Phones |-> 0]
    /\ cart = [p \in Phones |-> {}]
    /\ order = [p \in Phones |-> Idle]
    /\ faults = 0
    /\ behind = {} /\ served = {}

Fault == faults < MaxFaults /\ faults' = faults + 1

-----------------------------------------------------------------------------
(* The admins *)

\* Any request an admin's tab may send; new rows are left to MenuBoard.
Press(r) ==
    /\ \E change \in {x \in Changes : x.op \notin {"create", "addCategory"}} :
         /\ change.op = "edit" => change.read = clock /\ ~change.guess
         /\ Requested(None, r, change)
    /\ UNCHANGED <<menu, ordered, caching, page, cart, order, served, faults>>

Answer(r) ==
    /\ req[r].stage = "answer"
    /\ req' = [req EXCEPT ![r] = Free]
    /\ UNCHANGED <<menu, presses, caching, page, sale, faults>>

Handle(r) == (Check(r) \/ Write(r)) /\ UNCHANGED <<caching, page, cart, order, served, faults>>

\* Mutant: the cache keeps the loads that have not answered.
DroppedKeepsPending(c) == IF c.stage = "pending" THEN c ELSE Empty

\* What is left of the cache's entry after menu.changed.
Dropped(c) == Empty

\* publish is synchronous: the cache's entry goes, and every stream that is up
\* is sent the event.
Publish(r) ==
    /\ req[r].stage = "publish"
    /\ cache' = Dropped(cache)
    /\ mail' = [p \in Phones |-> IF stream[p] = "up" THEN mail[p] + 1 ELSE mail[p]]
    /\ behind' = behind \cup {p \in Phones : stream[p] = "down"}
    /\ Announced(r)
    /\ UNCHANGED <<load, screen, fetch, tries, stream, cart, order, served, faults>>

-----------------------------------------------------------------------------
(* The cache *)

\* GET /api/menu, and the page itself: the entry of the cache is what they
\* wait for, and a new load if there is none.
Serve(p) ==
    /\ fetch[p].stage = "sent"
    /\ \/ /\ cache.stage = "ready"
          /\ fetch' = [fetch EXCEPT ![p] = [stage |-> "answered", menu |-> cache.menu]]
          /\ UNCHANGED caching
       \/ /\ cache.stage = "pending"
          /\ fetch' = [fetch EXCEPT ![p] = [stage |-> "waiting", load |-> cache.load]]
          /\ UNCHANGED caching
       \/ /\ cache = Empty
          /\ \E l \in Loads :
               /\ load[l] = NoLoad
               /\ load' = [load EXCEPT ![l] = [stage |-> "cats"]]
               /\ cache' = [stage |-> "pending", load |-> l]
               /\ fetch' = [fetch EXCEPT ![p] = [stage |-> "waiting", load |-> l]]
    /\ UNCHANGED <<store, screen, tries, stream, mail, behind, sale, faults>>

ReadCats(l) ==
    /\ load[l].stage = "cats"
    /\ load' = [load EXCEPT ![l] = [stage |-> "items", cats |-> ActiveCats]]
    /\ UNCHANGED <<store, cache, page, sale, faults>>

\* What those who wait for a load get when it is settled.
Settle(l, answer) ==
    fetch' = [p \in Phones |-> IF fetch[p].stage = "waiting" /\ fetch[p].load = l
                               THEN answer ELSE fetch[p]]

ReadItems(l) ==
    LET m == MenuOf(load[l].cats) IN
    /\ load[l].stage = "items"
    /\ load' = [load EXCEPT ![l] = NoLoad]
    /\ cache' = IF cache = [stage |-> "pending", load |-> l] THEN [stage |-> "ready", menu |-> m]
                ELSE cache
    /\ Settle(l, [stage |-> "answered", menu |-> m])
    /\ UNCHANGED <<store, screen, tries, stream, mail, behind, sale, faults>>

\* Mutant: a failed load stays in the cache.
AfterFailureKept(l) == cache

\* A load that fails deletes the entry, whichever load that is of by then.
AfterFailure(l) == Empty

LoadFails(l) ==
    /\ load[l] # NoLoad
    /\ Fault
    /\ load' = [load EXCEPT ![l] = NoLoad]
    /\ cache' = AfterFailure(l)
    /\ Settle(l, [stage |-> "failed"])
    /\ UNCHANGED <<store, screen, tries, stream, mail, behind, sale>>

-----------------------------------------------------------------------------
(* A phone's menu *)

\* A newer request makes the answer to an older one void.
Fetching(p) ==
    /\ fetch' = [fetch EXCEPT ![p] = [stage |-> "sent"]]
    /\ tries' = [tries EXCEPT ![p] = 0]
    /\ behind' = behind \ {p}

OpenPage(p) ==
    /\ screen[p] = None /\ fetch[p].stage \in {"none", "gaveUp"}
    /\ Fetching(p)
    /\ UNCHANGED <<store, caching, screen, stream, mail, sale, faults>>

Show(p) ==
    /\ fetch[p].stage = "answered"
    /\ screen' = [screen EXCEPT ![p] = fetch[p].menu]
    /\ fetch' = [fetch EXCEPT ![p] = Idle]
    /\ UNCHANGED <<store, caching, tries, stream, mail, behind, sale, faults>>

\* The stream is opened by the page, and again by the browser.
Connect(p) ==
    /\ screen[p] # None /\ stream[p] = "down"
    /\ stream' = [stream EXCEPT ![p] = "up"]
    /\ UNCHANGED <<store, caching, screen, fetch, tries, mail, behind, sale, faults>>

\* Mutant: the event is taken and nothing is fetched while a request is out.
OnMenuChangedDeduped(p) ==
    IF fetch[p] = Idle THEN Fetching(p) ELSE UNCHANGED <<fetch, tries, behind>>

OnMenuChanged(p) == Fetching(p)

Receive(p) ==
    /\ mail[p] > 0
    /\ mail' = [mail EXCEPT ![p] = @ - 1]
    /\ OnMenuChanged(p)
    /\ UNCHANGED <<store, caching, screen, stream, sale, faults>>

Focus(p) ==
    /\ screen[p] # None /\ fetch[p].stage \in {"none", "failed", "gaveUp"}
    /\ Fetching(p)
    /\ UNCHANGED <<store, caching, screen, stream, mail, sale, faults>>

MayRetry(p) == tries[p] < RETRY_COUNT

\* errorRetryCount retries, then none until an event or the focus.
Retry(p) ==
    /\ fetch[p].stage = "failed"
    /\ IF MayRetry(p)
       THEN /\ fetch' = [fetch EXCEPT ![p] = [stage |-> "sent"]]
            /\ tries' = [tries EXCEPT ![p] = @ + 1]
       ELSE /\ fetch' = [fetch EXCEPT ![p] = [stage |-> "gaveUp"]]
            /\ UNCHANGED tries
    /\ UNCHANGED <<store, caching, screen, stream, mail, behind, sale, faults>>

Drop(p) ==
    /\ stream[p] = "up"
    /\ Fault
    /\ stream' = [stream EXCEPT ![p] = "down"]
    /\ mail' = [mail EXCEPT ![p] = 0]
    /\ behind' = IF mail[p] > 0 THEN behind \cup {p} ELSE behind
    /\ UNCHANGED <<store, caching, screen, fetch, tries, sale>>

\* The server's process ends and is started again: the cache and all that was
\* under way go.
Restart ==
    /\ Fault
    /\ cache' = Empty
    /\ load' = [l \in Loads |-> NoLoad]
    /\ req' = Cut
    /\ fetch' = [p \in Phones |-> IF fetch[p].stage \in {"sent", "waiting"}
                                  THEN [stage |-> "failed"] ELSE fetch[p]]
    /\ stream' = [p \in Phones |-> "down"]
    /\ mail' = [p \in Phones |-> 0]
    /\ behind' = Phones
    /\ order' = [p \in Phones |-> Idle]
    /\ UNCHANGED <<menu, presses, screen, tries, cart, ordered, served>>

-----------------------------------------------------------------------------
(* A phone's cart and its order *)

\* The cards that can be opened.
Offered(p, i) ==
    screen[p] # None /\ i \in DOMAIN screen[p].items /\ screen[p].items[i].available

\* A line keeps the options that were shown when its dish was opened.
AddLine(p, i) ==
    /\ Offered(p, i)
    /\ Cardinality(cart[p]) < MaxLines
    /\ \E options \in {None, screen[p].items[i].version} :
         cart' = [cart EXCEPT ![p] = @ \cup {[item |-> i, options |-> options]}]
    /\ UNCHANGED <<store, caching, page, order, ordered, served, faults>>

\* A line whose dish is not on the menu is not listed, and stays.
DropLine(p, line) ==
    /\ screen[p] # None /\ line.item \in DOMAIN screen[p].items
    /\ cart' = [cart EXCEPT ![p] = @ \ {line}]
    /\ UNCHANGED <<store, caching, page, order, ordered, served, faults>>

Submit(p) ==
    /\ cart[p] # {} /\ order[p] = Idle
    /\ order' = [order EXCEPT ![p] = [stage |-> "read", lines |-> cart[p], at |-> clock]]
    /\ UNCHANGED <<store, caching, page, cart, ordered, served, faults>>

\* Mutant: the dishes are looked up in the menu the phone was served.
OnSaleAsServed(p, i) == Offered(p, i)

OnSale(p, i) == i \in DOMAIN items /\ items[i].available

OptionsExist(line) ==
    line.options # None =>
        line.item \in DOMAIN items /\ line.options = items[line.item].version

\* The dishes are read from the database, not from the cache.  When one is sold
\* out the page fetches the menu; when an option is gone it does not.
ReadDishes(p) ==
    LET lines == order[p].lines IN
    /\ order[p].stage = "read"
    /\ \/ /\ \A line \in lines : OnSale(p, line.item) /\ OptionsExist(line)
          /\ order' = [order EXCEPT ![p].stage = "insert"]
          /\ UNCHANGED page
       \/ /\ \E line \in lines : ~OnSale(p, line.item)
          /\ order' = [order EXCEPT ![p] = Idle]
          /\ Fetching(p)
          /\ UNCHANGED <<screen, stream, mail>>
       \/ /\ \E line \in lines : OnSale(p, line.item) /\ ~OptionsExist(line)
          /\ order' = [order EXCEPT ![p] = Idle]
          /\ UNCHANGED page
    /\ UNCHANGED <<store, caching, cart, ordered, served, faults>>

\* The lines refer to their dishes: a dish that is gone by now fails the insert.
InsertOrder(p) ==
    LET lines == order[p].lines
        dishes == {line.item : line \in lines} IN
    /\ order[p].stage = "insert"
    /\ order' = [order EXCEPT ![p] = Idle]
    /\ IF dishes \subseteq DOMAIN items
       THEN /\ ordered' = ordered \cup dishes
            /\ cart' = [cart EXCEPT ![p] = {}]
            /\ served' = served \cup {[at |-> order[p].at, off |-> offAt[i]] :
                                        i \in {d \in dishes : ~items[d].available}}
       ELSE UNCHANGED <<ordered, cart, served>>
    /\ UNCHANGED <<store, caching, page, faults>>

Phone ==
    \E p \in Phones :
        \/ OpenPage(p) \/ Serve(p) \/ Show(p) \/ Connect(p) \/ Receive(p) \/ Focus(p) \/ Retry(p)
        \/ Drop(p)
        \/ \E i \in Items : AddLine(p, i)
        \/ \E line \in cart[p] : DropLine(p, line)
        \/ Submit(p) \/ ReadDishes(p) \/ InsertOrder(p)

Next ==
    \/ \E r \in Requests : Press(r) \/ Handle(r) \/ Publish(r) \/ Answer(r)
    \/ \E l \in Loads : ReadCats(l) \/ ReadItems(l) \/ LoadFails(l)
    \/ Phone
    \/ Restart

\* The server goes on with what it began, and so does the browser.  A customer
\* may press faster than answers come, but not always.
Fairness ==
    /\ \A r \in Requests : WF_vars(Handle(r) \/ Publish(r))
    /\ \A l \in Loads : WF_vars(ReadCats(l) \/ ReadItems(l))
    /\ \A p \in Phones : WF_vars(Serve(p)) /\ WF_vars(Receive(p)) /\ WF_vars(Retry(p))
                         /\ SF_vars(Show(p))

Spec == Init /\ [][Next]_vars /\ Fairness

-----------------------------------------------------------------------------
(* Properties *)

\* The values each variable takes.
TypeOK ==
    /\ RowsOK
    /\ cache \in {Empty} \cup [stage : {"pending"}, load : Loads]
                \cup [stage : {"ready"}, menu : Menus]
    /\ load \in [Loads -> {NoLoad, [stage |-> "cats"]}
                          \cup [stage : {"items"}, cats : Some(Cats, Versions)]]
    /\ screen \in [Phones -> {None} \cup Menus]
    /\ fetch \in [Phones -> [stage : {"none", "sent", "failed", "gaveUp"}]
                           \cup [stage : {"waiting"}, load : Loads]
                           \cup [stage : {"answered"}, menu : Menus]]
    /\ tries \in [Phones -> 0..RETRY_COUNT]
    /\ stream \in [Phones -> {"up", "down"}] /\ mail \in [Phones -> Versions]
    /\ LET Lines == SUBSET [item : Items, options : {None} \cup Versions] IN
         /\ cart \in [Phones -> Lines]
         /\ order \in [Phones -> {Idle} \cup
                       [stage : {"read", "insert"}, lines : Lines, at : Versions]]
    /\ faults \in 0..MaxFaults
    /\ behind \subseteq Phones
    /\ served \subseteq [at : Versions, off : Versions]

\* What the cache holds, and what the load it waits for has read, is the menu
\* in the database, unless the event of a change is still to come: no load that
\* began before a change is served after its event (lib/menu.ts).
CacheIsCurrent ==
    (\A r \in Requests : req[r].stage # "publish") =>
        /\ cache.stage = "ready" => cache.menu = Shown
        /\ cache.stage = "pending" /\ load[cache.load].stage = "items" =>
             load[cache.load].cats = ActiveCats

\* Once every change has been published, a phone that was sent every event and has
\* received them all shows the menu as it is (CustomerApp.tsx: menu.changed, and the
\* cache behind /api/menu), unless it has a request under way or to repeat, or has
\* given up on one, or is new and has no menu.
SilentPhoneIsCurrent ==
    \A p \in Phones :
        (/\ screen[p] # None /\ fetch[p] = Idle /\ mail[p] = 0 /\ p \notin behind
         /\ \A r \in Requests : req[r].stage # "publish")
        => screen[p] = Shown

\* A dish that was off sale when the order was sent, and stayed so, is not in
\* it, however old the phone's menu (POST /api/orders reads the database).
SoldOutNotServed == \A s \in served : s.at < s.off

\* Once the menu changes no more, a phone that was sent every event comes to
\* show it, unless RETRY_COUNT retries in a row have failed it (lib/swr.ts).
PhoneCatchesUp ==
    \A p \in Phones :
        <>[](\/ screen[p] = None \/ p \in behind \/ fetch[p].stage = "gaveUp"
             \/ screen[p] = Shown)

-----------------------------------------------------------------------------
(* Why it is true *)

\* The shapes the argument needs; new rows are left to MenuBoard.
Shapes ==
    /\ DOMAIN items \subseteq Items
    /\ \A i \in DOMAIN items : items[i] \in [cat : Cats, available : BOOLEAN, version : Nat]
    /\ clock \in Nat /\ offAt \in [Items -> Nat]
    /\ req \in [Requests ->
                  {Free} \cup [stage : {"check", "write", "publish", "answer"}, tab : {None},
                               change : Changes, kept : BOOLEAN, ok : BOOLEAN]]
    /\ \A r \in Requests : req[r] # Free => req[r].change.op \notin {"create", "addCategory"}
    /\ cache \in {Empty} \cup [stage : {"pending"}, load : Loads] \/ cache.stage = "ready"
    /\ DOMAIN load = Loads /\ DOMAIN fetch = Phones /\ DOMAIN screen = Phones
    /\ DOMAIN order = Phones
    /\ stream \in [Phones -> {"up", "down"}] /\ mail \in [Phones -> Nat]

\* No load that began before a change is still of use once its event is out.
LoadRight(l) == load[l].stage = "items" => load[l].cats = ActiveCats

CacheRight ==
    /\ cache.stage = "ready" => cache.menu = Shown
    /\ cache.stage = "pending" => LoadRight(cache.load)

\* A phone that was sent every event, and has taken them, waits for the menu as
\* it is, has it, or shows it.
PhoneRight(p) ==
    mail[p] = 0 /\ p \notin behind =>
        /\ fetch[p].stage = "waiting" => fetch[p].load \in Loads /\ LoadRight(fetch[p].load)
        /\ fetch[p].stage = "answered" => fetch[p].menu = Shown
        /\ screen[p] # None /\ fetch[p] = Idle => screen[p] = Shown

\* Of the dishes of an order that was found on sale, one that is not went off
\* sale after the order was sent.
OrderRight(o) ==
    o # Idle =>
        /\ o = [stage |-> o.stage, lines |-> o.lines, at |-> o.at]
        /\ o.stage \in {"read", "insert"} /\ o.at \in 0..clock
        /\ o.stage = "insert" => \A line \in o.lines :
              line.item \in DOMAIN items /\ ~items[line.item].available => o.at < offAt[line.item]

\* Inductive: it implies the safety properties above and every step keeps it.
InductiveInvariant ==
    /\ Shapes
    /\ (\A r \in Requests : req[r].stage # "publish") =>
          CacheRight /\ \A p \in Phones : PhoneRight(p)
    /\ \A p \in Phones : OrderRight(order[p])
    /\ SoldOutNotServed
=============================================================================
