------------------------------ MODULE MenuBoard ------------------------------
(***************************************************************************)
(* The admins' tabs that change the menu (components/admin/MenuTab.tsx and *)
(* ItemEditor.tsx) on the rows and handlers of MenuRows.  A tab shows a    *)
(* list it fetched some time ago, moves a switch before the server has     *)
(* answered, and saves a form that was filled from the list.               *)
(***************************************************************************)
EXTENDS MenuRows

CONSTANT Tabs   \* admins' tabs

VARIABLES
    tab,        \* what each MenuTab holds
    revived,    \* history: dishes an edit put on sale again
    orphaned,   \* history: dishes deleted from under an order
    raced       \* history: dishes ordered after a deletion had counted none

history == <<revived, orphaned, raced>>
boardVars == <<rows, tab, history>>

-----------------------------------------------------------------------------
BoardInit ==
    /\ RowsInit
    /\ tab = [a \in Tabs |-> [rows |-> [items |-> items, cats |-> cats], read |-> 0,
                              committed |-> None, latest |-> None, form |-> None]]
    /\ revived = {} /\ orphaned = {} /\ raced = {}

Busy(a) == \E r \in Requests : req[r] # Free /\ req[r].tab = a /\ req[r].change.op # "available"

\* What a request leaves alone, apart from the ids.
rest == <<items, cats, clock, offAt, ordered, history>>

\* Mutant: the list is fetched while a switch is in flight.
ReloadAnyTime(a) ==
    /\ tab' = [tab EXCEPT ![a].rows = [items |-> items, cats |-> cats], ![a].read = clock]
    /\ UNCHANGED <<rows, history>>

\* The list is fetched: after a request, and when the tab gets the focus.  What
\* is fetched while a switch is in flight is thrown away.
Reload(a) ==
    /\ tab[a].latest = None
    /\ tab' = [tab EXCEPT ![a].rows = [items |-> items, cats |-> cats], ![a].read = clock]
    /\ UNCHANGED <<rows, history>>

\* The 86 switch: what it starts from is the list before the switches that are
\* still in flight.
Toggle(a, i, r) ==
    LET t == tab[a]
        base == IF t.latest = None THEN t.rows ELSE t.committed
        next == ~t.rows.items[i].available IN
    /\ t.form = None
    /\ i \in DOMAIN t.rows.items
    /\ Requested(a, r, [op |-> "available", item |-> i, to |-> next])
    /\ tab' = [tab EXCEPT ![a] = [t EXCEPT !.committed = base, !.latest = r,
                                           !.rows = [base EXCEPT !.items[i].available = next]]]
    /\ UNCHANGED <<used, rest>>

\* The form is a copy of the row as the list shows it; a new dish is on sale.
\* What the list shows of a dish may be a switch that has not been answered.
OpenEditor(a, i, c) ==
    LET t == tab[a]
        old == t.rows.items
        guess == /\ t.latest # None /\ i \in DOMAIN old \cap DOMAIN t.committed.items
                 /\ old[i].available # t.committed.items[i].available IN
    /\ t.form = None
    /\ c \in DOMAIN t.rows.cats
    /\ i \in DOMAIN old \cup {None}
    /\ tab' = [tab EXCEPT ![a].form = [item |-> i, cat |-> c, read |-> t.read,
                                       to |-> i \in DOMAIN old => old[i].available,
                                       guess |-> guess]]
    /\ UNCHANGED <<rows, history>>

CloseEditor(a) ==
    /\ tab[a].form # None /\ ~Busy(a)
    /\ tab' = [tab EXCEPT ![a].form = None]
    /\ UNCHANGED <<rows, history>>

SaveForm(a, r) ==
    /\ tab[a].form # None /\ ~Busy(a)
    /\ \E i \in IF tab[a].form.item = None THEN Items \ used ELSE {tab[a].form.item} :
         /\ Requested(a, r, [op |-> IF tab[a].form.item = None THEN "create" ELSE "edit",
                             item |-> i, cat |-> tab[a].form.cat, to |-> tab[a].form.to,
                             read |-> tab[a].form.read, guess |-> tab[a].form.guess])
         /\ used' = used \cup {i}
    /\ UNCHANGED <<rest, tab>>

\* The other buttons: they wait for one another.
Called(a, r, change) ==
    /\ tab[a].form = None /\ ~Busy(a)
    /\ Requested(a, r, change)
    /\ UNCHANGED <<rest, tab>>

RemoveItem(a, i, r) ==
    i \in DOMAIN tab[a].rows.items /\ Called(a, r, [op |-> "remove", item |-> i]) /\ UNCHANGED used

ChangeCategory(a, c, r) ==
    /\ c \in DOMAIN tab[a].rows.cats
    /\ \E change \in {[op |-> "hide", cat |-> c, to |-> ~tab[a].rows.cats[c].active],
                      [op |-> "rename", cat |-> c], [op |-> "removeCategory", cat |-> c]} :
         Called(a, r, change)
    /\ UNCHANGED used

AddCategory(a, c, r) ==
    /\ c \notin used
    /\ used' = used \cup {c}
    /\ Called(a, r, [op |-> "addCategory", cat |-> c])

\* The answer to the latest switch puts the list back as it was before it,
\* whatever it says; the list is then fetched.
Answered(r) ==
    LET a == req[r].tab
        op == req[r].change.op IN
    /\ req[r].stage = "answer"
    /\ req' = [req EXCEPT ![r] = Free]
    /\ tab' = IF tab[a].latest = r
              THEN [tab EXCEPT ![a].rows = tab[a].committed, ![a].committed = None,
                               ![a].latest = None]
              ELSE IF op \in {"edit", "create"} /\ req[r].ok
              THEN [tab EXCEPT ![a].form = None]
              ELSE tab
    /\ UNCHANGED <<menu, ordered, presses, history>>

Deleting(r, i) ==
    /\ req[r].stage = "write" /\ ~req[r].kept
    /\ req[r].change.op = "remove" /\ req[r].change.item = i

\* An order that refers to a dish is inserted.
Order(i) ==
    /\ i \in DOMAIN items
    /\ ordered' = ordered \cup {i}
    /\ raced' = IF \E r \in Requests : Deleting(r, i) THEN raced \cup {i} ELSE raced
    /\ UNCHANGED <<menu, req, presses, tab, revived, orphaned>>

\* The server's process ends and is started again.
BoardRestart ==
    /\ req' = Cut
    /\ UNCHANGED <<menu, ordered, presses, tab, history>>

\* Whether the write of r is an edit that puts a dish on sale again.
Revives(r) ==
    /\ req[r].stage = "write" /\ req[r].change.op = "edit" /\ Possible(req[r])
    /\ ~items[req[r].change.item].available /\ req[r].change.to

BoardHandle(r) ==
    /\ Check(r) \/ Write(r) \/ Announced(r)
    /\ revived' = IF Revives(r)
                  THEN revived \cup {[read |-> req[r].change.read,
                                      guess |-> req[r].change.guess,
                                      off |-> offAt[req[r].change.item]]}
                  ELSE revived
    /\ orphaned' = orphaned \cup {i \in ordered : Deleting(r, i)}
    /\ UNCHANGED <<tab, raced>>

Admin ==
    \E a \in Tabs :
        \/ Reload(a) \/ CloseEditor(a)
        \/ \E i \in Items \cup {None}, c \in Cats : OpenEditor(a, i, c)
        \/ \E r \in Requests :
              \/ SaveForm(a, r)
              \/ \E i \in Items : Toggle(a, i, r) \/ RemoveItem(a, i, r)
              \/ \E c \in Cats : ChangeCategory(a, c, r) \/ AddCategory(a, c, r)

BoardNext ==
    \/ Admin
    \/ \E r \in Requests : BoardHandle(r) \/ Answered(r)
    \/ \E i \in Items : Order(i)
    \/ BoardRestart

BoardSpec == BoardInit /\ [][BoardNext]_boardVars

-----------------------------------------------------------------------------
(* Properties *)

\* The values each variable takes.
BoardTypeOK ==
    /\ RowsOK
    /\ LET Rows == [items : Some(Items, Dish), cats : Some(Cats, Category)] IN
         tab \in [Tabs -> [rows : Rows, committed : {None} \cup Rows, read : Versions,
                          latest : {None} \cup Requests,
                          form : {None} \cup [item : {None} \cup Items, cat : Cats,
                                             to : BOOLEAN, read : Versions,
                                             guess : BOOLEAN]]]
    /\ revived \subseteq [read : Versions, guess : BOOLEAN, off : Versions]
    /\ orphaned \subseteq Items /\ raced \subseteq Items

\* A dish that was taken off sale is put back by an edit only from a form whose
\* list was fetched before it went, or that was opened while the list showed a
\* switch nobody had answered (ItemEditor.tsx sends the switch it was opened
\* with; items/[id] writes it).
OnlyStaleFormRevives == \A v \in revived : v.read < v.off \/ v.guess

\* A dish is deleted from under an order only if the order came in after the
\* deletion had counted its orders (items/[id] DELETE hides it instead), and no
\* dish is left without its category, however requests overlap.
ReferencesHold ==
    /\ orphaned \subseteq raced
    /\ \A i \in DOMAIN items : items[i].cat \in DOMAIN cats

-----------------------------------------------------------------------------
(* Why it is true *)

\* The shapes the argument needs.
ChangeOK(change) ==
    /\ change.op \in {"available", "edit", "create", "remove"} => change.item \in Items
    /\ change.op \in {"available", "edit", "create"} => change.to \in BOOLEAN
    /\ change.op \in {"edit", "create"} => change.read \in 0..clock /\ change.guess \in BOOLEAN

DishOK(d) ==
    /\ d = [cat |-> d.cat, available |-> d.available, version |-> d.version]
    /\ d.available \in BOOLEAN

ListOK(l) ==
    /\ l = [items |-> l.items, cats |-> l.cats]
    /\ \A i \in DOMAIN l.items : i \in Items /\ DishOK(l.items[i])

TabOK(t) == t = [rows |-> t.rows, read |-> t.read, committed |-> t.committed,
                 latest |-> t.latest, form |-> t.form]

BoardShapes ==
    /\ DOMAIN items \subseteq Items
    /\ \A i \in DOMAIN items : DishOK(items[i])
    /\ clock \in Nat /\ offAt \in [Items -> Nat]
    /\ DOMAIN req = Requests
    /\ \A r \in Requests : req[r] # Free =>
          /\ req[r] = [stage |-> req[r].stage, tab |-> req[r].tab, change |-> req[r].change,
                       kept |-> req[r].kept, ok |-> req[r].ok]
          /\ req[r].stage \in {"check", "write", "publish", "answer"}
          /\ req[r].tab \in Tabs /\ ChangeOK(req[r].change)
    /\ DOMAIN tab = Tabs
    /\ \A a \in Tabs : TabOK(tab[a]) /\ tab[a].read \in 0..clock

\* If dish i is off sale, it went off after `read`.
OffSince(i, read) == i \in DOMAIN items /\ ~items[i].available => read < offAt[i]

\* The list a tab falls back on shows a dish on sale that was when it was fetched.
Believed(a) == IF tab[a].latest = None THEN tab[a].rows ELSE tab[a].committed

ListRight(a) ==
    /\ ListOK(tab[a].rows) /\ ListOK(Believed(a))
    /\ DOMAIN tab[a].rows.items \subseteq DOMAIN Believed(a).items
    /\ \A i \in DOMAIN Believed(a).items :
          Believed(a).items[i].available => OffSince(i, tab[a].read)

\* So does a form that was not filled from a guess; a new dish is on sale.
FormRight(form) ==
    form # None =>
        /\ form.read \in 0..clock /\ form.to \in BOOLEAN /\ form.guess \in BOOLEAN
        /\ form.item = None => form.to
        /\ form.item # None => form.item \in Items
        /\ form.item # None /\ form.to /\ ~form.guess => OffSince(form.item, form.read)

EditRight(change) ==
    /\ change.op = "create" => change.to
    /\ change.op = "edit" /\ change.to /\ ~change.guess => OffSince(change.item, change.read)

\* Inductive: it implies the properties above and every step keeps it.
BoardInvariant ==
    /\ BoardShapes
    /\ \A a \in Tabs : ListRight(a) /\ FormRight(tab[a].form)
    /\ \A r \in Requests : req[r] # Free => EditRight(req[r].change)
    /\ \A r \in Requests, i \in ordered : Deleting(r, i) => i \in raced
    /\ OnlyStaleFormRevives
    /\ ReferencesHold

=============================================================================
