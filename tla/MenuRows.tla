------------------------------- MODULE MenuRows -------------------------------
(***************************************************************************)
(* The rows of a venue's menu and the handlers that change them:           *)
(* app/api/admin/items and app/api/admin/categories.                       *)
(*                                                                         *)
(* Prices, names and option ids are a version: an edit of a dish replaces  *)
(* them all.  A handler is one action for each of: what it reads first,    *)
(* its write, its event.  The modules that extend this one say where the   *)
(* requests come from and who hears the events.                            *)
(***************************************************************************)
EXTENDS Integers

CONSTANTS
    Items, Cats,           \* ids of dishes and categories
    FirstItems, FirstCats, \* those that exist at first
    FirstCat,              \* the category of the first dishes
    Requests,              \* admin requests the server works on at once
    MaxPresses,            \* bound on the admins' requests
    None

ASSUME IdsAssumption ==
    /\ FirstItems \subseteq Items /\ FirstCats \subseteq Cats /\ FirstCat \in FirstCats
    /\ Items \cap Cats = {}
    /\ None \notin Items \cup Cats \cup Requests
ASSUME PressesAssumption == MaxPresses \in Nat

VARIABLES
    items, cats,   \* the rows of MenuItem and Category
    ordered,       \* dishes some OrderItem refers to
    used,          \* ids that have been given out
    clock,         \* how many changes have been committed
    offAt,         \* the clock when a dish last went off sale
    req,           \* what the server holds of each admin request
    presses        \* how many requests there have been

menu == <<items, cats, used, clock, offAt>>
rows == <<menu, ordered, req, presses>>

-----------------------------------------------------------------------------
(* The menu *)

Versions == 0..MaxPresses
Dish == [cat : Cats, available : BOOLEAN, version : Versions]
Category == [active : BOOLEAN, version : Versions]
Some(A, B) == UNION {[S -> B] : S \in SUBSET A}

ItemsOf(c) == {i \in DOMAIN items : items[i].cat = c}

With(f, x, v) == [y \in DOMAIN f \cup {x} |-> IF y = x THEN v ELSE f[y]]
Without(f, x) == [y \in DOMAIN f \ {x} |-> f[y]]

Changes ==
         [op : {"available"}, item : Items, to : BOOLEAN]
    \cup [op : {"edit", "create"}, item : Items, cat : Cats, to : BOOLEAN, read : Versions,
          guess : BOOLEAN]
    \cup [op : {"remove"}, item : Items]
    \cup [op : {"hide"}, cat : Cats, to : BOOLEAN]
    \cup [op : {"rename", "addCategory", "removeCategory"}, cat : Cats]

Free == [stage |-> "free"]

RowsInit ==
    /\ items = [i \in FirstItems |-> [cat |-> FirstCat, available |-> TRUE, version |-> 0]]
    /\ cats = [c \in FirstCats |-> [active |-> TRUE, version |-> 0]]
    /\ ordered = {}
    /\ used = FirstItems \cup FirstCats
    /\ clock = 0
    /\ offAt = [i \in Items |-> 0]
    /\ req = [r \in Requests |-> Free]
    /\ presses = 0

-----------------------------------------------------------------------------
(* The handlers *)

\* A request comes in from a tab.
Requested(a, r, change) ==
    /\ req[r] = Free
    /\ presses < MaxPresses
    /\ presses' = presses + 1
    /\ req' = [req EXCEPT ![r] = [stage |-> "check", tab |-> a, change |-> change,
                                  kept |-> FALSE, ok |-> FALSE]]

Found(change) ==
    CASE change.op \in {"available", "edit", "remove"} -> change.item \in DOMAIN items
      [] change.op \in {"create", "hide", "rename"} -> change.cat \in DOMAIN cats
      [] change.op = "removeCategory" -> change.cat \in DOMAIN cats /\ ItemsOf(change.cat) = {}
      [] OTHER -> TRUE

\* Mutant: the dish's orders are not counted.
CountedNever(change) == FALSE

\* Whether a dish that is to be deleted has been ordered.
Counted(change) == change.op = "remove" /\ change.item \in ordered

\* The row is looked for, and counted what would keep it from being deleted.
Check(r) ==
    LET change == req[r].change IN
    /\ req[r].stage = "check"
    /\ req' = [req EXCEPT ![r].stage = IF Found(change) THEN "write" ELSE "answer",
                          ![r].kept = Counted(change)]
    /\ UNCHANGED <<menu, ordered, presses>>

\* Whether the statement of the write finds its row, and breaks no foreign key.
\* The key of an order's line to its dish is set to null instead.
Possible(q) ==
    LET change == q.change IN
    /\ change.op \in {"available", "edit", "remove"} => change.item \in DOMAIN items
    /\ change.op \in {"edit", "create", "hide", "rename", "removeCategory"} =>
         change.cat \in DOMAIN cats
    /\ change.op = "removeCategory" => ItemsOf(change.cat) = {}

\* The dish goes off sale, or not, at the clock of this write.
OffAt(i, on) == [offAt EXCEPT ![i] = IF on THEN @ ELSE clock + 1]

Written(r) ==
    /\ req[r].stage = "write" /\ Possible(req[r])
    /\ clock' = clock + 1
    /\ req' = [req EXCEPT ![r].stage = "publish"]
    /\ UNCHANGED <<used, presses>>

\* The fast path of the 86 switch.
SetAvailable(r) ==
    LET change == req[r].change IN
    /\ Written(r) /\ change.op = "available"
    /\ items' = [items EXCEPT ![change.item].available = change.to]
    /\ offAt' = IF items[change.item].available THEN OffAt(change.item, change.to) ELSE offAt
    /\ UNCHANGED <<cats, ordered>>

\* Every field of the form is written, that of the switch too.
SaveItem(r) ==
    LET change == req[r].change
        i == change.item IN
    /\ Written(r) /\ change.op \in {"edit", "create"}
    /\ items' = With(items, i, [cat |-> change.cat, available |-> change.to,
                                version |-> clock + 1])
    /\ offAt' = IF i \in DOMAIN items /\ items[i].available THEN OffAt(i, change.to) ELSE offAt
    /\ UNCHANGED <<cats, ordered>>

\* A dish that has been ordered is taken off sale instead.
DeleteItem(r) ==
    LET i == req[r].change.item IN
    /\ Written(r) /\ req[r].change.op = "remove"
    /\ items' = IF req[r].kept THEN [items EXCEPT ![i].available = FALSE] ELSE Without(items, i)
    /\ ordered' = IF req[r].kept THEN ordered ELSE ordered \ {i}
    /\ offAt' = IF items[i].available THEN OffAt(i, FALSE) ELSE offAt
    /\ UNCHANGED cats

\* Only the fields that are sent are written.
PatchCategory(r) ==
    LET change == req[r].change
        c == change.cat IN
    /\ Written(r) /\ change.op \in {"hide", "rename"}
    /\ cats' = [cats EXCEPT ![c] = IF change.op = "hide" THEN [@ EXCEPT !.active = change.to]
                                   ELSE [@ EXCEPT !.version = clock + 1]]
    /\ UNCHANGED <<items, offAt, ordered>>

CreateCategory(r) ==
    /\ Written(r) /\ req[r].change.op = "addCategory"
    /\ cats' = With(cats, req[r].change.cat, [active |-> TRUE, version |-> clock + 1])
    /\ UNCHANGED <<items, offAt, ordered>>

DeleteCategory(r) ==
    /\ Written(r) /\ req[r].change.op = "removeCategory"
    /\ cats' = Without(cats, req[r].change.cat)
    /\ UNCHANGED <<items, offAt, ordered>>

WriteFails(r) ==
    /\ req[r].stage = "write" /\ ~Possible(req[r])
    /\ req' = [req EXCEPT ![r].stage = "answer"]
    /\ UNCHANGED <<menu, ordered, presses>>

\* The handler's last statement: the event, and its answer.
Announced(r) ==
    /\ req[r].stage = "publish"
    /\ req' = [req EXCEPT ![r].stage = "answer", ![r].ok = TRUE]
    /\ UNCHANGED <<menu, ordered, presses>>

Write(r) ==
    \/ SetAvailable(r) \/ SaveItem(r) \/ DeleteItem(r)
    \/ PatchCategory(r) \/ CreateCategory(r) \/ DeleteCategory(r) \/ WriteFails(r)

\* A request the server's end cuts short is not answered.
Cut == [r \in Requests |-> IF req[r] = Free THEN Free ELSE [req[r] EXCEPT !.stage = "answer"]]

-----------------------------------------------------------------------------
RowsOK ==
    /\ items \in Some(Items, Dish) /\ cats \in Some(Cats, Category)
    /\ ordered \subseteq Items /\ used \subseteq Items \cup Cats
    /\ clock \in Versions /\ offAt \in [Items -> Versions]
    /\ \A r \in Requests :
         req[r] = Free \/
         /\ req[r].stage \in {"check", "write", "publish", "answer"}
         /\ req[r].change \in Changes
    /\ presses \in 0..MaxPresses

=============================================================================
