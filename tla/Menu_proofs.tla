----------------------------- MODULE Menu_proofs -----------------------------
(***************************************************************************)
(* Theorems about MenuCache and MenuBoard, the phones' and the admins'     *)
(* sides of the rows in MenuRows, for any dishes, categories, phones,      *)
(* loads, tabs and requests of the admins, and any bounds.                 *)
(***************************************************************************)
EXTENDS MenuCache, MenuBoard, TLAPS

USE IdsAssumption, PressesAssumption, BoundsAssumption

NoneDue == \A r \in Requests : req[r].stage # "publish"

AllRight == NoneDue => CacheRight /\ \A p \in Phones : PhoneRight(p)

OrdersRight == SoldOutNotServed /\ \A p \in Phones : OrderRight(order[p])

LEMMA Parts == InductiveInvariant <=> Shapes /\ AllRight /\ OrdersRight
BY DEF InductiveInvariant, AllRight, NoneDue, OrdersRight

-----------------------------------------------------------------------------
(* Lemmas about the data *)

LEMMA ChangeFields ==
    ASSUME NEW change \in Changes
    PROVE  /\ change.op \in {"available", "edit", "create", "remove", "hide", "rename",
                             "addCategory", "removeCategory"}
           /\ change.op \in {"available", "edit", "create", "remove"} => change.item \in Items
           /\ change.op \in {"available", "edit", "create", "hide"} => change.to \in BOOLEAN
           /\ change.op \in {"edit", "create"} => change.cat \in Cats
BY DEF Changes

Held == [stage : {"check", "write", "publish", "answer"}, tab : {None}, change : Changes,
         kept : BOOLEAN, ok : BOOLEAN]

Stages == {"check", "write", "publish", "answer"}

LEMMA HeldIsNotFree == ASSUME NEW q \in Held PROVE q # Free
BY DEF Held, Free

LEMMA HeldMoves ==
    ASSUME NEW q \in Held, NEW s \in Stages
    PROVE  LET n == [q EXCEPT !.stage = s] IN n \in Held /\ n.stage = s /\ n.change = q.change
BY DEF Held, Stages

LEMMA HeldAnnounced ==
    ASSUME NEW q \in Held, NEW s \in Stages
    PROVE  LET n == [q EXCEPT !.stage = s, !.ok = TRUE] IN
           n \in Held /\ n.stage = s /\ n.change = q.change
<1> DEFINE n == [q EXCEPT !.stage = s, !.ok = TRUE]
<1>1. n \in Held
  BY DEF Held, Stages
<1>2. n.stage = s
  BY DEF Held, Stages
<1>3. n.change = q.change
  BY DEF Held, Stages
<1> QED BY <1>1, <1>2, <1>3

\* What is known of a request of an admin.
LEMMA RequestIsHeld ==
    ASSUME Shapes, NEW r \in Requests
    PROVE  /\ req[r] = Free \/ req[r] \in Held
           /\ req[r] # Free => /\ req[r].change \in Changes
                               /\ req[r].change.op \notin {"create", "addCategory"}
           /\ Free.stage = "free"
           /\ req[r].stage \in {"check", "write", "publish", "answer"} => req[r] \in Held
BY DEF Shapes, Held, Free

-----------------------------------------------------------------------------
(* The kinds of step *)

\* An admin's request moves on and nothing else does, the rows neither.
LEMMA RequestTurns ==
    ASSUME Shapes, AllRight, OrdersRight, NEW r \in Requests,
           NEW q \in {Free} \cup Held, q.stage # "publish",
           req[r].stage # "publish",
           q # Free => q.change.op \notin {"create", "addCategory"},
           req' = [req EXCEPT ![r] = q],
           UNCHANGED <<menu, caching, page, order, served>>
    PROVE  (Shapes /\ AllRight /\ OrdersRight)'
<1>1. \A x \in Requests : req'[x] = IF x = r THEN q ELSE req[x]
  BY DEF Shapes
<1>2. Shapes'
  <2>1. req' \in [Requests -> {Free} \cup Held]
    BY DEF Shapes, Held
  <2> QED BY <1>1, <2>1 DEF Shapes, menu, caching, page, Held
<1>3. NoneDue' => NoneDue
  BY <1>1 DEF NoneDue
<1>4. AllRight'
  BY <1>3 DEF AllRight, CacheRight, PhoneRight, LoadRight, Shown, MenuOf, ActiveCats, menu,
              caching, page
<1>5. OrdersRight'
  BY DEF OrdersRight, OrderRight, SoldOutNotServed, menu
<1> QED BY <1>2, <1>4, <1>5

LEMMA RowsKept ==
    ASSUME UNCHANGED menu
    PROVE  /\ ActiveCats' = ActiveCats /\ Shown' = Shown
           /\ UNCHANGED <<items, cats, clock, offAt>>
           /\ \A m : MenuOf(m)' = MenuOf(m)
           /\ \A o : OrderRight(o)' <=> OrderRight(o)
BY DEF menu, ActiveCats, Shown, MenuOf, OrderRight

-----------------------------------------------------------------------------
(* The admins *)

LEMMA PressKeepsIt ==
    ASSUME Shapes, AllRight, OrdersRight, NEW r \in Requests, Press(r)
    PROVE  (Shapes /\ AllRight /\ OrdersRight)'
<1>1. PICK change \in Changes : /\ change.op \notin {"create", "addCategory"}
                                /\ Requested(None, r, change)
  BY DEF Press
<1> DEFINE q == [stage |-> "check", tab |-> None, change |-> change, kept |-> FALSE, ok |-> FALSE]
<1>2. q \in Held /\ q.stage = "check" /\ q.change = change
  BY DEF Held
<1>3. req[r].stage = "free" /\ req' = [req EXCEPT ![r] = q]
  BY <1>1 DEF Requested, Free
<1>4. UNCHANGED <<menu, caching, page, order, served>>
  BY DEF Press
<1> HIDE DEF q
<1> QED BY <1>1, <1>2, <1>3, <1>4, RequestTurns

LEMMA AnswerKeepsIt ==
    ASSUME Shapes, AllRight, OrdersRight, NEW r \in Requests, Answer(r)
    PROVE  (Shapes /\ AllRight /\ OrdersRight)'
<1>1. Free.stage = "free"
  BY DEF Free
<1> QED BY <1>1, RequestTurns DEF Answer, sale

LEMMA CheckKeepsIt ==
    ASSUME Shapes, AllRight, OrdersRight, NEW r \in Requests, Check(r),
           UNCHANGED <<caching, page, cart, order, served, faults>>
    PROVE  (Shapes /\ AllRight /\ OrdersRight)'
<1> DEFINE s == IF Found(req[r].change) THEN "write" ELSE "answer"
           b == Counted(req[r].change)
           q == [req[r] EXCEPT !.stage = s, !.kept = b]
<1>1. req[r] \in Held /\ req[r].stage = "check" /\ req[r] # Free
  BY RequestIsHeld, HeldIsNotFree DEF Check
<1>2. b \in BOOLEAN /\ s \in {"write", "answer"}
  BY DEF Counted
<1>3. req' = [req EXCEPT ![r] = q]
  <2>1. req' = [req EXCEPT ![r].stage = s, ![r].kept = b]
    BY DEF Check
  <2>2. r \in DOMAIN req
    BY DEF Shapes
  <2> HIDE DEF s, b
  <2> QED BY <2>1, <2>2, ZenonT(20)
<1> HIDE DEF s, b
<1>4. q \in Held /\ q.stage = s /\ q.change = req[r].change
  <2>1. s \in Stages
    BY <1>2 DEF Stages
  <2>2. req[r] \in Held /\ b \in BOOLEAN
    BY <1>1, <1>2
  <2> HIDE DEF s, b
  <2>3. q \in Held
    BY <2>1, <2>2 DEF Held, Stages
  <2>4. q.stage = s
    BY <2>1, <2>2 DEF Held, Stages
  <2>5. q.change = req[r].change
    BY <2>1, <2>2 DEF Held, Stages
  <2> QED BY <2>3, <2>4, <2>5
<1> HIDE DEF q
<1> QED BY <1>1, <1>2, <1>3, <1>4, RequestIsHeld, RequestTurns DEF Check

LEMMA WriteFailsKeepsIt ==
    ASSUME Shapes, AllRight, OrdersRight, NEW r \in Requests, WriteFails(r),
           UNCHANGED <<caching, page, cart, order, served, faults>>
    PROVE  (Shapes /\ AllRight /\ OrdersRight)'
<1> DEFINE q == [req[r] EXCEPT !.stage = "answer"]
<1>1. req[r] \in Held /\ req[r].stage = "write" /\ req[r] # Free
  BY RequestIsHeld, HeldIsNotFree DEF WriteFails
<1>2. req' = [req EXCEPT ![r] = q]
  BY DEF WriteFails, Shapes
<1>3. q \in Held /\ q.stage = "answer" /\ q.change = req[r].change
  BY <1>1, HeldMoves DEF Stages
<1> HIDE DEF q
<1> QED BY <1>1, <1>2, <1>3, RequestIsHeld, RequestTurns DEF WriteFails

\* What a write does to the dishes: one that is off sale after it was before, or
\* went off sale with it.
OffSaleIsDated ==
    /\ DOMAIN items' \subseteq DOMAIN items
    /\ \A i \in DOMAIN items' : items'[i] \in [cat : Cats, available : BOOLEAN, version : Nat]
    /\ offAt' \in [Items -> Nat]
    /\ \A i \in DOMAIN items' : ~items'[i].available =>
          \/ ~items[i].available /\ offAt'[i] = offAt[i]
          \/ offAt'[i] = clock + 1

LEMMA WrittenKeepsIt ==
    ASSUME Shapes, AllRight, OrdersRight, NEW r \in Requests, Written(r), OffSaleIsDated,
           UNCHANGED <<caching, page, cart, order, served, faults>>
    PROVE  (Shapes /\ AllRight /\ OrdersRight)'
<1> DEFINE q == [req[r] EXCEPT !.stage = "publish"]
<1>1. req[r] \in Held /\ req[r].stage = "write" /\ req[r] # Free
  BY RequestIsHeld, HeldIsNotFree DEF Written
<1>2. req' = [req EXCEPT ![r] = q] /\ clock' = clock + 1
  BY DEF Written, Shapes
<1>3. q \in Held /\ q.stage = "publish" /\ q.change = req[r].change
  BY <1>1, HeldMoves DEF Stages
<1> HIDE DEF q
<1>4. req'[r].stage = "publish"
  BY <1>2, <1>3 DEF Shapes
<1>5. AllRight'
  BY <1>4 DEF AllRight, NoneDue
<1>6. Shapes'
  <2>1. req' \in [Requests -> {Free} \cup Held]
    BY <1>2, <1>3 DEF Shapes, Held
  <2>2. \A x \in Requests : req'[x] # Free => req'[x].change.op \notin {"create", "addCategory"}
    BY <1>1, <1>2, <1>3, RequestIsHeld DEF Shapes
  <2> QED BY <1>2, <2>1, <2>2 DEF Shapes, OffSaleIsDated, caching, page, Held
<1>7. ASSUME NEW p \in Phones PROVE OrderRight(order[p])'
  <2> SUFFICES ASSUME NEW o, o = order[p] PROVE OrderRight(o)'
    OBVIOUS
  <2>1. OrderRight(o) /\ clock \in Nat
    BY DEF OrdersRight, Shapes
  <2> QED BY <1>2, <2>1 DEF OrderRight, OffSaleIsDated
<1> QED BY <1>5, <1>6, <1>7 DEF OrdersRight, SoldOutNotServed

LEMMA SetAvailableDates ==
    ASSUME Shapes, NEW r \in Requests, SetAvailable(r)
    PROVE  OffSaleIsDated
<1> DEFINE i == req[r].change.item
           on == req[r].change.to
<1>1. /\ i \in Items /\ on \in BOOLEAN /\ i \in DOMAIN items
      /\ items' = [items EXCEPT ![i].available = on]
      /\ offAt' = IF items[i].available THEN OffAt(i, on) ELSE offAt
  BY RequestIsHeld, HeldIsNotFree, ChangeFields DEF SetAvailable, Written, Possible
<1>2. items[i] \in [cat : Cats, available : BOOLEAN, version : Nat]
  BY <1>1 DEF Shapes
<1> HIDE DEF i, on
<1>3. /\ DOMAIN items' = DOMAIN items
      /\ items'[i] \in [cat : Cats, available : BOOLEAN, version : Nat]
      /\ items'[i].available = on
      /\ \A x \in DOMAIN items : x # i => items'[x] = items[x]
  BY <1>1, <1>2
<1>4. offAt' \in [Items -> Nat] /\ \A x \in Items : x # i => offAt'[x] = offAt[x]
  BY <1>1 DEF Shapes, OffAt
<1>5. items[i].available /\ ~on => offAt'[i] = clock + 1
  BY <1>1 DEF Shapes, OffAt
<1>6. ~items[i].available => offAt'[i] = offAt[i]
  BY <1>1
<1> QED BY <1>1, <1>3, <1>4, <1>5, <1>6 DEF OffSaleIsDated, Shapes

LEMMA SaveItemDates ==
    ASSUME Shapes, NEW r \in Requests, SaveItem(r)
    PROVE  OffSaleIsDated
<1> DEFINE i == req[r].change.item
           on == req[r].change.to
           d == [cat |-> req[r].change.cat, available |-> on, version |-> clock + 1]
<1>1. /\ i \in Items /\ on \in BOOLEAN /\ i \in DOMAIN items
      /\ items' = With(items, i, d)
      /\ offAt' = IF items[i].available THEN OffAt(i, on) ELSE offAt
  BY RequestIsHeld, HeldIsNotFree, ChangeFields DEF SaveItem, Written, Possible
<1>2. d \in [cat : Cats, available : BOOLEAN, version : Nat] /\ d.available = on
  BY <1>1, RequestIsHeld, HeldIsNotFree, ChangeFields DEF SaveItem, Written, Shapes
<1> HIDE DEF i, on, d
<1>3. /\ DOMAIN items' = DOMAIN items /\ items'[i] = d
      /\ \A x \in DOMAIN items : x # i => items'[x] = items[x]
  BY <1>1 DEF With
<1>4. offAt' \in [Items -> Nat] /\ \A x \in Items : x # i => offAt'[x] = offAt[x]
  BY <1>1 DEF Shapes, OffAt
<1>5. items[i].available /\ ~on => offAt'[i] = clock + 1
  BY <1>1 DEF Shapes, OffAt
<1>6. ~items[i].available => offAt'[i] = offAt[i]
  BY <1>1
<1> QED BY <1>1, <1>2, <1>3, <1>4, <1>5, <1>6 DEF OffSaleIsDated, Shapes

LEMMA DeleteItemDates ==
    ASSUME Shapes, NEW r \in Requests, DeleteItem(r)
    PROVE  OffSaleIsDated
<1> DEFINE i == req[r].change.item
<1>1. /\ i \in Items /\ i \in DOMAIN items
      /\ items' = IF req[r].kept THEN [items EXCEPT ![i].available = FALSE] ELSE Without(items, i)
      /\ offAt' = IF items[i].available THEN OffAt(i, FALSE) ELSE offAt
  BY RequestIsHeld, HeldIsNotFree, ChangeFields DEF DeleteItem, Written, Possible
<1>2. items[i] \in [cat : Cats, available : BOOLEAN, version : Nat]
  BY <1>1 DEF Shapes
<1> HIDE DEF i
<1>3. CASE ~req[r].kept
  <2>1. DOMAIN items' = DOMAIN items \ {i} /\ \A x \in DOMAIN items' : items'[x] = items[x]
    BY <1>1, <1>3 DEF Without
  <2>2. offAt' \in [Items -> Nat] /\ \A x \in Items : x # i => offAt'[x] = offAt[x]
    BY <1>1 DEF Shapes, OffAt
  <2> QED BY <2>1, <2>2 DEF OffSaleIsDated, Shapes
<1>4. CASE req[r].kept
  <2>1. /\ DOMAIN items' = DOMAIN items
        /\ items'[i] \in [cat : Cats, available : BOOLEAN, version : Nat]
        /\ \A x \in DOMAIN items : x # i => items'[x] = items[x]
    BY <1>1, <1>2, <1>4
  <2>2. offAt' \in [Items -> Nat] /\ \A x \in Items : x # i => offAt'[x] = offAt[x]
    BY <1>1 DEF Shapes, OffAt
  <2>3. items[i].available => offAt'[i] = clock + 1
    BY <1>1 DEF Shapes, OffAt
  <2>4. ~items[i].available => offAt'[i] = offAt[i]
    BY <1>1
  <2> QED BY <1>1, <2>1, <2>2, <2>3, <2>4 DEF OffSaleIsDated, Shapes
<1> QED BY <1>3, <1>4

LEMMA HandleKeepsIt ==
    ASSUME Shapes, AllRight, OrdersRight, NEW r \in Requests, Handle(r)
    PROVE  (Shapes /\ AllRight /\ OrdersRight)'
<1>1. UNCHANGED <<caching, page, cart, order, served, faults>>
  BY DEF Handle
<1>2. CASE Check(r)
  BY <1>1, <1>2, CheckKeepsIt
<1>3. CASE WriteFails(r)
  BY <1>1, <1>3, WriteFailsKeepsIt
<1>4. CASE SetAvailable(r) \/ SaveItem(r) \/ DeleteItem(r)
  <2>1. Written(r)
    BY <1>4 DEF SetAvailable, SaveItem, DeleteItem
  <2> QED BY <1>1, <1>4, <2>1, SetAvailableDates, SaveItemDates, DeleteItemDates, WrittenKeepsIt
<1>5. CASE PatchCategory(r) \/ DeleteCategory(r)
  <2>1. Written(r) /\ OffSaleIsDated
    BY <1>5 DEF PatchCategory, DeleteCategory, OffSaleIsDated, Shapes
  <2> QED BY <1>1, <2>1, WrittenKeepsIt
<1>6. ~CreateCategory(r)
  BY RequestIsHeld, HeldIsNotFree DEF CreateCategory, Written
<1> QED BY <1>2, <1>3, <1>4, <1>5, <1>6 DEF Handle, Write

LEMMA PublishKeepsIt ==
    ASSUME Shapes, AllRight, OrdersRight, NEW r \in Requests, Publish(r)
    PROVE  (Shapes /\ AllRight /\ OrdersRight)'
<1> DEFINE q == [req[r] EXCEPT !.stage = "answer", !.ok = TRUE]
<1>1. req[r] \in Held /\ req[r] # Free
  BY RequestIsHeld, HeldIsNotFree DEF Publish
<1>2. req' = [req EXCEPT ![r] = q] /\ UNCHANGED menu /\ cache' = Empty
      /\ UNCHANGED <<load, screen, fetch, tries, stream, cart, order, served, faults>>
      /\ behind' = behind \cup {p \in Phones : stream[p] = "down"}
      /\ mail' = [p \in Phones |-> IF stream[p] = "up" THEN mail[p] + 1 ELSE mail[p]]
  BY DEF Publish, Announced, Dropped, Shapes
<1>3. q \in Held /\ q.change = req[r].change
  BY <1>1, HeldAnnounced DEF Stages
<1> HIDE DEF q
<1>4. Shapes'
  <2>1. req' \in [Requests -> {Free} \cup Held]
    BY <1>2, <1>3 DEF Shapes, Held
  <2>2. \A x \in Requests : req'[x] # Free => req'[x].change.op \notin {"create", "addCategory"}
    BY <1>1, <1>2, <1>3, RequestIsHeld DEF Shapes
  <2>3. mail' \in [Phones -> Nat]
    BY <1>2 DEF Shapes
  <2> QED BY <1>2, <2>1, <2>2, <2>3 DEF Shapes, Held, menu
<1>5. CacheRight'
  BY <1>2 DEF CacheRight, Empty
<1>6. \A p \in Phones : ~(mail'[p] = 0 /\ p \notin behind')
  BY <1>2 DEF Shapes
<1>7. AllRight'
  BY <1>5, <1>6 DEF AllRight, PhoneRight
<1> QED BY <1>2, <1>4, <1>7, RowsKept DEF OrdersRight, SoldOutNotServed

-----------------------------------------------------------------------------
(* The cache *)

\* A step of the cache or of a phone's page.
LEMMA PageStaysRight ==
    ASSUME AllRight, UNCHANGED store,
           CacheRight => CacheRight',
           ASSUME CacheRight, NEW p \in Phones, PhoneRight(p) PROVE PhoneRight(p)'
    PROVE  AllRight'
<1>1. NoneDue' <=> NoneDue
  BY DEF NoneDue, store
<1> QED BY <1>1 DEF AllRight

LEMMA PageTurns ==
    ASSUME Shapes, AllRight, OrdersRight, UNCHANGED <<store, order, served>>, Shapes',
           CacheRight => CacheRight',
           ASSUME CacheRight, NEW p \in Phones, PhoneRight(p) PROVE PhoneRight(p)'
    PROVE  (Shapes /\ AllRight /\ OrdersRight)'
<1>1. AllRight'
  BY PageStaysRight
<1> QED BY <1>1, RowsKept DEF OrdersRight, SoldOutNotServed, store

\* Shapes of the cache and the page, with the rows left alone.
LEMMA PageShapes ==
    ASSUME Shapes, UNCHANGED store,
           cache' \in {Empty} \cup [stage : {"pending"}, load : Loads] \/ cache'.stage = "ready",
           DOMAIN load' = Loads, DOMAIN fetch' = Phones, DOMAIN screen' = Phones,
           DOMAIN order' = Phones, stream' \in [Phones -> {"up", "down"}], mail' \in [Phones -> Nat]
    PROVE  Shapes'
BY DEF Shapes, store, menu

LEMMA ServeKeepsIt ==
    ASSUME Shapes, AllRight, OrdersRight, NEW p \in Phones, Serve(p)
    PROVE  (Shapes /\ AllRight /\ OrdersRight)'
<1>1. UNCHANGED <<store, screen, tries, stream, mail, behind, sale, faults>>
  BY DEF Serve
<1>2. UNCHANGED <<order, served>> /\ UNCHANGED menu
  BY <1>1 DEF sale, store
<1>3. CASE cache.stage \in {"ready", "pending"} /\ UNCHANGED caching
  <2> DEFINE n == IF cache.stage = "ready" THEN [stage |-> "answered", menu |-> cache.menu]
                   ELSE [stage |-> "waiting", load |-> cache.load]
  <2>1. /\ fetch' = [fetch EXCEPT ![p] = n]
        /\ \/ cache.stage = "ready" /\ n = [stage |-> "answered", menu |-> cache.menu]
           \/ cache.stage = "pending" /\ n = [stage |-> "waiting", load |-> cache.load]
    BY <1>3 DEF Serve, Empty
  <2> HIDE DEF n
  <2>2. UNCHANGED <<cache, load>>
    BY <1>3 DEF caching
  <2>3. Shapes'
    BY <1>1, <1>2, <2>1, <2>2, PageShapes DEF Shapes
  <2>4. CacheRight => CacheRight'
    BY <1>2, <2>2, RowsKept DEF CacheRight, LoadRight
  <2>5. /\ n.stage \in {"answered", "waiting"} /\ n # Idle
        /\ CacheRight /\ n.stage = "answered" => n.menu = Shown
        /\ CacheRight /\ n.stage = "waiting" => n.load \in Loads /\ LoadRight(n.load)
    BY <2>1 DEF CacheRight, Shapes, Empty, Idle
  <2>6. ASSUME CacheRight, NEW x \in Phones, PhoneRight(x) PROVE PhoneRight(x)'
    <3>1. fetch'[x] = IF x = p THEN n ELSE fetch[x]
      BY <2>1 DEF Shapes
    <3> QED BY <1>1, <1>2, <2>2, <2>5, <2>6, <3>1, RowsKept DEF PhoneRight, LoadRight
  <2> QED BY <1>1, <1>2, <2>3, <2>4, <2>6, PageTurns
<1>4. ASSUME NEW l \in Loads, load[l] = NoLoad,
             load' = [load EXCEPT ![l] = [stage |-> "cats"]],
             cache' = [stage |-> "pending", load |-> l],
             fetch' = [fetch EXCEPT ![p] = [stage |-> "waiting", load |-> l]]
      PROVE  (Shapes /\ AllRight /\ OrdersRight)'
  <2>1. \A m \in Loads : load'[m] = IF m = l THEN [stage |-> "cats"] ELSE load[m]
    BY <1>4 DEF Shapes
  <2>2. Shapes'
    BY <1>1, <1>2, <1>4, PageShapes DEF Shapes
  <2>3. LoadRight(l)' /\ \A m \in Loads : LoadRight(m) => LoadRight(m)'
    BY <1>2, <2>1, RowsKept DEF LoadRight
  <2>4. CacheRight'
    BY <1>4, <2>3 DEF CacheRight
  <2>5. ASSUME NEW x \in Phones, PhoneRight(x) PROVE PhoneRight(x)'
    <3>1. fetch'[x] = IF x = p THEN [stage |-> "waiting", load |-> l] ELSE fetch[x]
      BY <1>4 DEF Shapes
    <3>2. CASE x = p
      <4>1. fetch'[x].stage = "waiting" /\ fetch'[x].load = l /\ fetch'[x] # Idle
        BY <3>1, <3>2 DEF Idle
      <4> QED BY <2>3, <4>1 DEF PhoneRight, LoadRight
    <3>3. CASE x # p
      BY <1>1, <1>2, <2>3, <2>5, <3>1, <3>3, RowsKept DEF PhoneRight, LoadRight
    <3> QED BY <3>2, <3>3
  <2> QED BY <1>1, <1>2, <2>2, <2>4, <2>5, PageTurns
<1> QED BY <1>3, <1>4 DEF Serve

LEMMA ReadCatsKeepsIt ==
    ASSUME Shapes, AllRight, OrdersRight, NEW l \in Loads, ReadCats(l)
    PROVE  (Shapes /\ AllRight /\ OrdersRight)'
<1>1. /\ load' = [load EXCEPT ![l] = [stage |-> "items", cats |-> ActiveCats]]
      /\ UNCHANGED <<store, cache, page, sale, faults>> /\ UNCHANGED <<menu, order, served>>
      /\ UNCHANGED <<screen, fetch, stream, mail, behind>>
  BY DEF ReadCats, store, sale, page
<1>2. \A m \in Loads : LoadRight(m) => LoadRight(m)'
  BY <1>1, RowsKept DEF LoadRight, Shapes
<1>3. Shapes'
  BY <1>1, PageShapes DEF Shapes
<1>4. CacheRight => CacheRight'
  BY <1>1, <1>2, RowsKept DEF CacheRight, Shapes, Empty
<1>5. ASSUME NEW x \in Phones, PhoneRight(x) PROVE PhoneRight(x)'
  BY <1>1, <1>2, <1>5, RowsKept DEF PhoneRight
<1> QED BY <1>1, <1>3, <1>4, <1>5, PageTurns

\* A load is settled: it goes, and those who wait for it are answered.
LEMMA SettledFetch ==
    ASSUME Shapes, NEW l \in Loads, NEW answer, Settle(l, answer)
    PROVE  /\ DOMAIN fetch' = Phones
           /\ \A x \in Phones : \/ fetch'[x] = fetch[x] /\ ~(fetch[x].stage = "waiting" /\ fetch[x].load = l)
                                \/ fetch'[x] = answer /\ fetch[x].stage = "waiting" /\ fetch[x].load = l
BY DEF Settle

LEMMA ReadItemsKeepsIt ==
    ASSUME Shapes, AllRight, OrdersRight, NEW l \in Loads, ReadItems(l)
    PROVE  (Shapes /\ AllRight /\ OrdersRight)'
<1> DEFINE m == MenuOf(load[l].cats)
           answer == [stage |-> "answered", menu |-> m]
<1>1. /\ load[l].stage = "items" /\ load' = [load EXCEPT ![l] = NoLoad] /\ Settle(l, answer)
      /\ cache' = IF cache = [stage |-> "pending", load |-> l] THEN [stage |-> "ready", menu |-> m]
                  ELSE cache
      /\ UNCHANGED <<store, screen, tries, stream, mail, behind, sale, faults>>
      /\ UNCHANGED <<menu, order, served>>
  BY DEF ReadItems, store, sale
<1>2. LoadRight(l) => m = Shown
  BY <1>1 DEF LoadRight, Shown
<1> HIDE DEF m
<1>3. \A k \in Loads : load'[k] = IF k = l THEN NoLoad ELSE load[k]
  BY <1>1 DEF Shapes
<1>4. \A k \in Loads : LoadRight(k) => LoadRight(k)'
  BY <1>1, <1>3, RowsKept DEF LoadRight, NoLoad
<1>5. answer.stage = "answered" /\ answer.menu = m /\ answer # Idle
  BY DEF Idle
<1> HIDE DEF answer
<1>6. Shapes'
  BY <1>1, SettledFetch, PageShapes DEF Shapes
<1>7. CacheRight => CacheRight'
  <2>1. CASE cache = [stage |-> "pending", load |-> l]
    <3>1. cache.stage = "pending" /\ cache.load = l
      BY <2>1
    <3>2. cache' = [stage |-> "ready", menu |-> m]
      BY <1>1, <2>1
    <3>3. cache'.stage = "ready" /\ cache'.menu = m
      BY <3>2
    <3> QED BY <1>1, <1>2, <3>1, <3>3, RowsKept DEF CacheRight
  <2>2. CASE cache # [stage |-> "pending", load |-> l]
    <3>1. cache' = cache /\ (cache.stage = "pending" => cache.load \in Loads)
      BY <1>1, <2>2 DEF Shapes, Empty
    <3> QED BY <1>1, <1>4, <3>1, RowsKept DEF CacheRight
  <2> QED BY <2>1, <2>2
<1>8. ASSUME NEW x \in Phones, PhoneRight(x) PROVE PhoneRight(x)'
  BY <1>1, <1>2, <1>4, <1>5, <1>8, SettledFetch, RowsKept DEF PhoneRight
<1> QED BY <1>1, <1>6, <1>7, <1>8, PageTurns

LEMMA LoadFailsKeepsIt ==
    ASSUME Shapes, AllRight, OrdersRight, NEW l \in Loads, LoadFails(l)
    PROVE  (Shapes /\ AllRight /\ OrdersRight)'
<1> DEFINE answer == [stage |-> "failed"]
<1>1. /\ load' = [load EXCEPT ![l] = NoLoad] /\ Settle(l, answer) /\ cache' = Empty
      /\ UNCHANGED <<store, screen, tries, stream, mail, behind, sale>>
      /\ UNCHANGED <<menu, order, served>>
  BY DEF LoadFails, AfterFailure, store, sale
<1>2. \A k \in Loads : LoadRight(k) => LoadRight(k)'
  BY <1>1, RowsKept DEF LoadRight, NoLoad, Shapes
<1>3. answer.stage = "failed" /\ answer # Idle
  BY DEF Idle
<1> HIDE DEF answer
<1>4. Shapes'
  BY <1>1, SettledFetch, PageShapes DEF Shapes
<1>5. CacheRight'
  BY <1>1 DEF CacheRight, Empty
<1>6. ASSUME NEW x \in Phones, PhoneRight(x) PROVE PhoneRight(x)'
  BY <1>1, <1>2, <1>3, <1>6, SettledFetch, RowsKept DEF PhoneRight
<1> QED BY <1>1, <1>4, <1>5, <1>6, PageTurns

-----------------------------------------------------------------------------
(* The phones *)

\* A phone that asks for the menu afresh, or whose request has failed.
Afresh(p) == fetch'[p].stage \in {"sent", "failed", "gaveUp"}

LEMMA StagesDiffer ==
    /\ [stage |-> "sent"].stage = "sent" /\ [stage |-> "gaveUp"].stage = "gaveUp"
    /\ [stage |-> "failed"].stage = "failed" /\ Idle.stage = "none"
BY DEF Idle

\* Steps of one phone that leave the cache and the database alone.
LEMMA PhoneStaysRight ==
    ASSUME Shapes, AllRight, NEW p \in Phones, UNCHANGED <<store, caching>>,
           \A x \in Phones \ {p} : /\ fetch'[x] = fetch[x] /\ screen'[x] = screen[x]
                                   /\ mail'[x] = mail[x] /\ (x \in behind' <=> x \in behind),
           DOMAIN fetch' = Phones, DOMAIN screen' = Phones, DOMAIN order' = Phones,
           stream' \in [Phones -> {"up", "down"}], mail' \in [Phones -> Nat],
           PhoneRight(p) => PhoneRight(p)'
    PROVE  Shapes' /\ AllRight'
<1>1. UNCHANGED <<menu, cache, load>>
  BY DEF store, caching
<1>2. Shapes'
  BY <1>1, PageShapes DEF Shapes
<1>3. CacheRight => CacheRight'
  BY <1>1, RowsKept DEF CacheRight, LoadRight
<1>4. ASSUME NEW x \in Phones, PhoneRight(x) PROVE PhoneRight(x)'
  <2>1. CASE x = p
    BY <1>4, <2>1
  <2>2. CASE x # p
    BY <1>1, <1>4, <2>2, RowsKept DEF PhoneRight, LoadRight
  <2> QED BY <2>1, <2>2
<1>5. AllRight'
  BY <1>3, <1>4, PageStaysRight
<1> QED BY <1>2, <1>5

LEMMA PhoneTurns ==
    ASSUME Shapes, AllRight, OrdersRight, NEW p \in Phones, UNCHANGED <<store, caching, order, served>>,
           \A x \in Phones \ {p} : /\ fetch'[x] = fetch[x] /\ screen'[x] = screen[x]
                                   /\ mail'[x] = mail[x] /\ (x \in behind' <=> x \in behind),
           DOMAIN fetch' = Phones, DOMAIN screen' = Phones,
           stream' \in [Phones -> {"up", "down"}], mail' \in [Phones -> Nat],
           PhoneRight(p) => PhoneRight(p)'
    PROVE  (Shapes /\ AllRight /\ OrdersRight)'
<1>1. Shapes' /\ AllRight'
  BY PhoneStaysRight DEF Shapes
<1> QED BY <1>1, RowsKept DEF OrdersRight, SoldOutNotServed, store

LEMMA AfreshIsRight ==
    ASSUME NEW p \in Phones, Afresh(p)
    PROVE  PhoneRight(p)'
BY StagesDiffer DEF Afresh, PhoneRight

LEMMA FetchingIsAfresh ==
    ASSUME Shapes, NEW p \in Phones, Fetching(p)
    PROVE  /\ Afresh(p) /\ DOMAIN fetch' = Phones
           /\ \A x \in Phones \ {p} : fetch'[x] = fetch[x] /\ (x \in behind' <=> x \in behind)
BY StagesDiffer DEF Fetching, Afresh, Shapes

LEMMA PhoneFetchKeepsIt ==
    ASSUME Shapes, AllRight, OrdersRight, NEW p \in Phones,
           OpenPage(p) \/ Receive(p) \/ Focus(p) \/ Retry(p)
    PROVE  (Shapes /\ AllRight /\ OrdersRight)'
<1>1. UNCHANGED <<store, caching, screen, stream, sale, faults>> /\ UNCHANGED <<order, served>>
  BY DEF OpenPage, Receive, Focus, Retry, sale
<1>2. /\ mail' \in [Phones -> Nat] /\ \A x \in Phones \ {p} : mail'[x] = mail[x]
  BY DEF OpenPage, Receive, Focus, Retry, Shapes
<1>3. /\ Afresh(p) /\ DOMAIN fetch' = Phones
      /\ \A x \in Phones \ {p} : fetch'[x] = fetch[x] /\ (x \in behind' <=> x \in behind)
  <2>1. CASE Fetching(p)
    BY <2>1, FetchingIsAfresh
  <2>2. CASE Retry(p)
    BY <2>2, StagesDiffer DEF Retry, MayRetry, Afresh, Shapes
  <2> QED BY <2>1, <2>2 DEF OpenPage, Receive, OnMenuChanged, Focus
<1> QED BY <1>1, <1>2, <1>3, AfreshIsRight, PhoneTurns DEF Shapes

LEMMA ShowKeepsIt ==
    ASSUME Shapes, AllRight, OrdersRight, NEW p \in Phones, Show(p)
    PROVE  (Shapes /\ AllRight /\ OrdersRight)'
<1>1. /\ UNCHANGED <<store, caching, order, served, stream, mail, behind, menu>>
      /\ fetch' = [fetch EXCEPT ![p] = Idle] /\ screen' = [screen EXCEPT ![p] = fetch[p].menu]
      /\ fetch[p].stage = "answered"
  BY DEF Show, sale, store
<1>2. PhoneRight(p) => PhoneRight(p)'
  BY <1>1, StagesDiffer, RowsKept DEF PhoneRight, Shapes
<1> QED BY <1>1, <1>2, PhoneTurns DEF Shapes

LEMMA StreamKeepsIt ==
    ASSUME Shapes, AllRight, OrdersRight, NEW p \in Phones, Connect(p) \/ Drop(p)
    PROVE  (Shapes /\ AllRight /\ OrdersRight)'
<1>1. UNCHANGED <<store, caching, order, served, screen, fetch, menu, load>>
  BY DEF Connect, Drop, sale, store, caching
<1>2. /\ stream' \in [Phones -> {"up", "down"}] /\ mail' \in [Phones -> Nat]
      /\ \A x \in Phones \ {p} : mail'[x] = mail[x] /\ (x \in behind' <=> x \in behind)
      /\ mail'[p] = 0 /\ p \notin behind' => mail[p] = 0 /\ p \notin behind
  BY DEF Connect, Drop, Shapes
<1>3. PhoneRight(p) => PhoneRight(p)'
  BY <1>1, <1>2, RowsKept DEF PhoneRight, LoadRight
<1> QED BY <1>1, <1>2, <1>3, PhoneTurns DEF Shapes

\* Steps that leave the cache and the pages alone.
LEMMA PageKept ==
    ASSUME Shapes, AllRight, UNCHANGED <<store, caching, page>>, DOMAIN order' = Phones
    PROVE  Shapes' /\ AllRight'
<1>1. UNCHANGED <<menu, cache, load, screen, fetch, stream, mail, behind>>
  BY DEF store, caching, page
<1>2. Shapes'
  BY <1>1, PageShapes DEF Shapes
<1>3. CacheRight => CacheRight'
  BY <1>1, RowsKept DEF CacheRight, LoadRight
<1>4. ASSUME NEW x \in Phones, PhoneRight(x) PROVE PhoneRight(x)'
  BY <1>1, <1>4, RowsKept DEF PhoneRight, LoadRight
<1> QED BY <1>2, <1>3, <1>4, PageStaysRight

LEMMA CartKeepsIt ==
    ASSUME Shapes, AllRight, OrdersRight,
           UNCHANGED <<store, caching, page, order, served, faults>>
    PROVE  (Shapes /\ AllRight /\ OrdersRight)'
<1>1. Shapes' /\ AllRight'
  BY PageKept DEF Shapes
<1> QED BY <1>1, RowsKept DEF OrdersRight, SoldOutNotServed, store

\* The order of one phone becomes a right one.
LEMMA OrderTurns ==
    ASSUME Shapes, OrdersRight, UNCHANGED menu, served' = served, NEW p \in Phones, NEW o,
           order' = [order EXCEPT ![p] = o], OrderRight(o)
    PROVE  OrdersRight' /\ DOMAIN order' = Phones
<1>1. \A x \in Phones : order'[x] = IF x = p THEN o ELSE order[x]
  BY DEF Shapes
<1>2. ASSUME NEW x \in Phones PROVE OrderRight(order[x])'
  <2> SUFFICES ASSUME NEW n, n = order'[x] PROVE OrderRight(n)'
    OBVIOUS
  <2>1. OrderRight(n)
    BY <1>1 DEF OrdersRight
  <2> QED BY <2>1, RowsKept
<1> QED BY <1>2 DEF OrdersRight, SoldOutNotServed, Shapes

LEMMA IdleIsRight == OrderRight(Idle)
BY DEF OrderRight

LEMMA SubmitKeepsIt ==
    ASSUME Shapes, AllRight, OrdersRight, NEW p \in Phones, Submit(p)
    PROVE  (Shapes /\ AllRight /\ OrdersRight)'
<1> DEFINE o == [stage |-> "read", lines |-> cart[p], at |-> clock]
<1>1. OrderRight(o)
  BY DEF OrderRight, Shapes
<1>2. /\ order' = [order EXCEPT ![p] = o] /\ UNCHANGED <<store, caching, page, served, menu>>
  BY DEF Submit, store
<1> HIDE DEF o
<1>3. OrdersRight' /\ DOMAIN order' = Phones
  BY <1>1, <1>2, OrderTurns
<1> QED BY <1>2, <1>3, PageKept

LEMMA ReadDishesKeepsIt ==
    ASSUME Shapes, AllRight, OrdersRight, NEW p \in Phones, ReadDishes(p)
    PROVE  (Shapes /\ AllRight /\ OrdersRight)'
<1>1. UNCHANGED <<store, caching, cart, ordered, served, faults, menu>> /\ order[p].stage = "read"
  BY DEF ReadDishes, store
<1>2. CASE /\ \A line \in order[p].lines : OnSale(p, line.item) /\ OptionsExist(line)
           /\ order' = [order EXCEPT ![p].stage = "insert"]
           /\ UNCHANGED page
  <2> DEFINE o == [stage |-> "insert", lines |-> order[p].lines, at |-> order[p].at]
  <2>1. /\ order[p] = [stage |-> order[p].stage, lines |-> order[p].lines, at |-> order[p].at]
        /\ order[p].at \in 0..clock
    BY <1>1, StagesDiffer DEF OrdersRight, OrderRight
  <2>2. [order[p] EXCEPT !.stage = "insert"] = o
    BY <2>1
  <2>3. order' = [order EXCEPT ![p] = o]
    BY <1>2, <2>2
  <2>4. OrderRight(o)
    BY <1>2, <2>1 DEF OrderRight, OnSale
  <2> HIDE DEF o
  <2>5. OrdersRight' /\ DOMAIN order' = Phones
    BY <1>1, <2>3, <2>4, OrderTurns
  <2> QED BY <1>1, <1>2, <2>5, PageKept
<1>3. CASE order' = [order EXCEPT ![p] = Idle] /\ UNCHANGED page
  <2>1. OrdersRight' /\ DOMAIN order' = Phones
    BY <1>1, <1>3, IdleIsRight, OrderTurns
  <2> QED BY <1>1, <1>3, <2>1, PageKept
<1>4. CASE order' = [order EXCEPT ![p] = Idle] /\ Fetching(p) /\ UNCHANGED <<screen, stream, mail>>
  <2>1. OrdersRight' /\ DOMAIN order' = Phones
    BY <1>1, <1>4, IdleIsRight, OrderTurns
  <2>2. Shapes' /\ AllRight'
    BY <1>1, <1>4, <2>1, FetchingIsAfresh, AfreshIsRight, PhoneStaysRight DEF Shapes
  <2> QED BY <2>1, <2>2
<1> QED BY <1>2, <1>3, <1>4 DEF ReadDishes

LEMMA InsertOrderKeepsIt ==
    ASSUME Shapes, AllRight, OrdersRight, NEW p \in Phones, InsertOrder(p)
    PROVE  (Shapes /\ AllRight /\ OrdersRight)'
<1> DEFINE lines == order[p].lines
           dishes == {line.item : line \in lines}
           new == {[at |-> order[p].at, off |-> offAt[i]] : i \in {d \in dishes : ~items[d].available}}
<1>1. /\ order' = [order EXCEPT ![p] = Idle] /\ UNCHANGED <<store, caching, page, faults, menu>>
      /\ order[p].stage = "insert"
      /\ served' = served \/ (served' = served \cup new /\ dishes \subseteq DOMAIN items)
  BY DEF InsertOrder, store
<1>2. dishes \subseteq DOMAIN items => \A n \in new : n.at < n.off
  <2>1. \A line \in lines :
          line.item \in DOMAIN items /\ ~items[line.item].available => order[p].at < offAt[line.item]
    BY <1>1, StagesDiffer DEF OrdersRight, OrderRight
  <2> QED BY <2>1
<1> HIDE DEF new
<1>3. SoldOutNotServed'
  BY <1>1, <1>2 DEF OrdersRight, SoldOutNotServed
<1>4. \A x \in Phones : OrderRight(order[x])'
  <2> SUFFICES ASSUME NEW x \in Phones, NEW n, n = order'[x] PROVE OrderRight(n)'
    OBVIOUS
  <2>1. OrderRight(n)
    BY <1>1, IdleIsRight DEF OrdersRight, Shapes
  <2> QED BY <1>1, <2>1, RowsKept
<1>5. DOMAIN order' = Phones
  BY <1>1 DEF Shapes
<1> QED BY <1>1, <1>3, <1>4, <1>5, PageKept DEF OrdersRight

-----------------------------------------------------------------------------
(* Crashes *)

LEMMA RestartKeepsIt ==
    ASSUME Shapes, AllRight, OrdersRight, Restart
    PROVE  (Shapes /\ AllRight /\ OrdersRight)'
<1>1. UNCHANGED <<menu, presses, screen, tries, cart, ordered, served>>
  BY DEF Restart
<1>2. req' \in [Requests -> {Free} \cup Held]
  BY RequestIsHeld, HeldMoves DEF Restart, Cut, Stages
<1>3. ASSUME NEW r \in Requests, req'[r] # Free
      PROVE  req'[r].change.op \notin {"create", "addCategory"}
  <2>1. req[r] # Free /\ req'[r] = [req[r] EXCEPT !.stage = "answer"]
    BY <1>3 DEF Restart, Cut
  <2> QED BY <2>1, RequestIsHeld, HeldMoves DEF Stages
<1>4. Shapes'
  BY <1>1, <1>2, <1>3 DEF Restart, Shapes, menu, Held
<1>5. CacheRight' /\ \A p \in Phones : PhoneRight(p)'
  BY DEF Restart, CacheRight, Empty, PhoneRight
<1>6. OrdersRight'
  BY <1>1 DEF Restart, OrdersRight, SoldOutNotServed, OrderRight
<1> QED BY <1>4, <1>5, <1>6 DEF AllRight

-----------------------------------------------------------------------------
(* The theorems about the cache and the phones *)

LEMMA InitInvariant == Init => InductiveInvariant
<1> SUFFICES ASSUME Init PROVE Shapes /\ AllRight /\ OrdersRight
  BY Parts
<1>1. items \in [FirstItems -> [cat : Cats, available : BOOLEAN, version : Nat]]
  BY DEF Init, RowsInit
<1>2. Shapes
  BY <1>1 DEF Init, RowsInit, Shapes
<1>3. CacheRight /\ \A p \in Phones : PhoneRight(p)
  BY StagesDiffer DEF Init, CacheRight, PhoneRight, Empty
<1>4. OrdersRight
  BY DEF Init, OrdersRight, SoldOutNotServed, OrderRight
<1> QED BY <1>2, <1>3, <1>4 DEF AllRight

LEMMA NextKeepsIt == InductiveInvariant /\ [Next]_vars => InductiveInvariant'
<1> SUFFICES ASSUME Shapes, AllRight, OrdersRight, [Next]_vars
             PROVE  (Shapes /\ AllRight /\ OrdersRight)'
  BY Parts DEF InductiveInvariant, AllRight, NoneDue, OrdersRight
<1>1. ASSUME NEW r \in Requests, Press(r) \/ Handle(r) \/ Publish(r) \/ Answer(r)
      PROVE  (Shapes /\ AllRight /\ OrdersRight)'
  BY <1>1, PressKeepsIt, HandleKeepsIt, PublishKeepsIt, AnswerKeepsIt
<1>2. ASSUME NEW l \in Loads, ReadCats(l) \/ ReadItems(l) \/ LoadFails(l)
      PROVE  (Shapes /\ AllRight /\ OrdersRight)'
  BY <1>2, ReadCatsKeepsIt, ReadItemsKeepsIt, LoadFailsKeepsIt
<1>3. CASE Phone
  <2> PICK p \in Phones :
        \/ OpenPage(p) \/ Serve(p) \/ Show(p) \/ Connect(p) \/ Receive(p) \/ Focus(p) \/ Retry(p)
        \/ Drop(p)
        \/ \E i \in Items : AddLine(p, i)
        \/ \E line \in cart[p] : DropLine(p, line)
        \/ Submit(p) \/ ReadDishes(p) \/ InsertOrder(p)
    BY <1>3 DEF Phone
  <2>1. CASE (\E i \in Items : AddLine(p, i)) \/ (\E line \in cart[p] : DropLine(p, line))
    BY <2>1, CartKeepsIt DEF AddLine, DropLine
  <2> QED BY <2>1, PhoneFetchKeepsIt, ServeKeepsIt, ShowKeepsIt, StreamKeepsIt, SubmitKeepsIt,
             ReadDishesKeepsIt, InsertOrderKeepsIt
<1>4. CASE UNCHANGED vars
  BY <1>4, CartKeepsIt DEF vars, rows, store, caching, page
<1> QED BY <1>1, <1>2, <1>3, <1>4, RestartKeepsIt DEF Next

\* The invariant the other theorems follow from.
THEOREM Invariance == Spec => []InductiveInvariant
BY InitInvariant, NextKeepsIt, PTL DEF Spec

\* lib/menu.ts: what the cache holds, and what the load it waits for has read,
\* is the menu in the database, unless the event of a change is still to come.
THEOREM CacheIsCurrentHolds == Spec => []CacheIsCurrent
<1>1. InductiveInvariant => CacheIsCurrent
  BY DEF InductiveInvariant, CacheRight, LoadRight, CacheIsCurrent
<1> QED BY <1>1, Invariance, PTL

\* CustomerApp: a phone that waits for nothing, and was sent every event, shows
\* the menu as it is.
THEOREM SilentPhoneIsCurrentHolds == Spec => []SilentPhoneIsCurrent
<1>1. InductiveInvariant => SilentPhoneIsCurrent
  BY DEF InductiveInvariant, PhoneRight, SilentPhoneIsCurrent
<1> QED BY <1>1, Invariance, PTL

\* POST /api/orders: a dish that was off sale when the order was sent, and
\* stayed so, is not in it.
THEOREM SoldOutNotServedHolds == Spec => []SoldOutNotServed
<1>1. InductiveInvariant => SoldOutNotServed
  BY DEF InductiveInvariant
<1> QED BY <1>1, Invariance, PTL

-----------------------------------------------------------------------------
(* The tabs of the admins: the parts of the invariant *)

RowsRight ==
    /\ DOMAIN items \subseteq Items
    /\ \A i \in DOMAIN items : DishOK(items[i])
    /\ clock \in Nat /\ offAt \in [Items -> Nat]

RequestRight(q) ==
    q # Free =>
        /\ q = [stage |-> q.stage, tab |-> q.tab, change |-> q.change, kept |-> q.kept,
                ok |-> q.ok]
        /\ q.stage \in Stages
        /\ q.tab \in Tabs /\ ChangeOK(q.change) /\ EditRight(q.change)

RequestsRight == DOMAIN req = Requests /\ \A r \in Requests : RequestRight(req[r])

TabFields == {"rows", "read", "committed", "latest", "form"}

TabRight(a) ==
    /\ TabOK(tab[a])
    /\ tab[a].read \in 0..clock
    /\ ListRight(a) /\ FormRight(tab[a].form)

TabsRight == DOMAIN tab = Tabs /\ \A a \in Tabs : TabRight(a)

RacesRight == \A r \in Requests, i \in ordered : Deleting(r, i) => i \in raced

CatsRight == \A i \in DOMAIN items : items[i].cat \in DOMAIN cats

\* The parts of the invariant, by what a step can disturb.
BoardFacts ==
    /\ RowsRight /\ RequestsRight /\ TabsRight /\ RacesRight
    /\ CatsRight /\ OnlyStaleFormRevives /\ orphaned \subseteq raced

LEMMA BoardParts == BoardInvariant <=> BoardFacts
BY DEF BoardInvariant, BoardFacts, BoardShapes, RowsRight, RequestsRight, RequestRight,
       TabsRight, TabRight, RacesRight, CatsRight, ReferencesHold, Stages

-----------------------------------------------------------------------------
\* Time goes on, and no dish that is off sale is dated back.
Later ==
    /\ clock' \in Nat /\ clock <= clock'
    /\ \A i \in Items, read \in 0..clock : OffSince(i, read) => OffSince(i, read)'

LEMMA SameRowsAreLater ==
    ASSUME RowsRight, UNCHANGED <<items, clock, offAt>>
    PROVE  Later /\ RowsRight'
BY DEF RowsRight, Later, OffSince

LEMMA RequestStays ==
    ASSUME Later, RowsRight, NEW q, RequestRight(q)
    PROVE  RequestRight(q)'
<1> SUFFICES ASSUME q # Free
             PROVE  ChangeOK(q.change)' /\ EditRight(q.change)'
  BY DEF RequestRight
<1>1. ChangeOK(q.change) /\ EditRight(q.change)
  BY DEF RequestRight
<1>2. ChangeOK(q.change)'
  BY <1>1 DEF ChangeOK, Later, RowsRight
<1>3. EditRight(q.change)'
  BY <1>1 DEF EditRight, ChangeOK, Later
<1> QED BY <1>2, <1>3

LEMMA FormStays ==
    ASSUME Later, RowsRight, NEW form, FormRight(form)
    PROVE  FormRight(form)'
<1> SUFFICES ASSUME form # None PROVE FormRight(form)'
  BY DEF FormRight
<1>1. /\ form.read \in 0..clock /\ form.to \in BOOLEAN /\ form.guess \in BOOLEAN
      /\ form.item = None => form.to
      /\ form.item # None => form.item \in Items
      /\ form.item # None /\ form.to /\ ~form.guess => OffSince(form.item, form.read)
  BY DEF FormRight
<1>2. form.read \in 0..clock'
  BY <1>1 DEF Later, RowsRight
<1>3. form.item # None /\ form.to /\ ~form.guess => OffSince(form.item, form.read)'
  BY <1>1 DEF Later
<1> QED BY <1>1, <1>2, <1>3 DEF FormRight

LEMMA TabStays ==
    ASSUME Later, RowsRight, NEW a \in Tabs, TabRight(a), tab'[a] = tab[a]
    PROVE  TabRight(a)'
<1>1. tab[a].read \in 0..clock'
  BY DEF TabRight, Later, RowsRight
<1>2. FormRight(tab[a].form)'
  <2> DEFINE form == tab[a].form
  <2>1. FormRight(form)
    BY DEF TabRight
  <2> SUFFICES ASSUME NEW f, f = form PROVE FormRight(f)'
    OBVIOUS
  <2> QED BY <2>1, FormStays
<1>3. ListRight(a)'
  <2>1. Believed(a)' = Believed(a)
    BY DEF Believed
  <2>2. ASSUME NEW i \in DOMAIN Believed(a).items, Believed(a).items[i].available
        PROVE  OffSince(i, tab[a].read)'
    <3>1. i \in Items /\ OffSince(i, tab[a].read) /\ tab[a].read \in 0..clock
      BY <2>2 DEF TabRight, ListRight, ListOK
    <3> QED BY <3>1 DEF Later, OffSince
  <2>3. ListRight(a)
    BY DEF TabRight
  <2> QED BY <2>1, <2>2, <2>3 DEF ListRight
<1> QED BY <1>1, <1>2, <1>3 DEF TabRight

LEMMA TabsStay ==
    ASSUME Later, RowsRight, TabsRight, UNCHANGED tab
    PROVE  TabsRight'
BY TabStays DEF TabsRight

-----------------------------------------------------------------------------
(* The requests *)

Moved(q, s, k, o) == [stage |-> s, tab |-> q.tab, change |-> q.change, kept |-> k, ok |-> o]

LEMMA MovedIsRight ==
    ASSUME NEW q, q # Free, RequestRight(q), NEW s \in Stages, NEW k, NEW o
    PROVE  RequestRight(Moved(q, s, k, o))
BY DEF RequestRight, Moved

LEMMA StageMoves ==
    ASSUME NEW q, q # Free, RequestRight(q), NEW s
    PROVE  [q EXCEPT !.stage = s] = Moved(q, s, q.kept, q.ok)
<1>1. PICK st, t, c, k0, o : q = [stage |-> st, tab |-> t, change |-> c, kept |-> k0, ok |-> o]
  BY DEF RequestRight
<1> QED BY <1>1 DEF Moved

LEMMA StageAndKeptMove ==
    ASSUME NEW q, q # Free, RequestRight(q), NEW s, NEW k
    PROVE  [q EXCEPT !.stage = s, !.kept = k] = Moved(q, s, k, q.ok)
<1>1. PICK st, t, c, k0, o : q = [stage |-> st, tab |-> t, change |-> c, kept |-> k0, ok |-> o]
  BY DEF RequestRight
<1>2. [q EXCEPT !.stage = s, !.kept = k]
      = [x \in {"stage", "tab", "change", "kept", "ok"} |->
            IF x = "stage" THEN s ELSE IF x = "kept" THEN k ELSE q[x]]
  BY <1>1
<1> QED BY <1>1, <1>2 DEF Moved

LEMMA StageAndOkMove ==
    ASSUME NEW q, q # Free, RequestRight(q), NEW s, NEW o1
    PROVE  [q EXCEPT !.stage = s, !.ok = o1] = Moved(q, s, q.kept, o1)
<1>1. PICK st, t, c, k0, o : q = [stage |-> st, tab |-> t, change |-> c, kept |-> k0, ok |-> o]
  BY DEF RequestRight
<1>2. [q EXCEPT !.stage = s, !.ok = o1]
      = [x \in {"stage", "tab", "change", "kept", "ok"} |->
            IF x = "stage" THEN s ELSE IF x = "ok" THEN o1 ELSE q[x]]
  BY <1>1
<1> QED BY <1>1, <1>2 DEF Moved

\* Request r becomes q and the others stay.
LEMMA OneRequest ==
    ASSUME RowsRight, RequestsRight, Later, NEW r \in Requests, NEW q, RequestRight(q),
           req' = [req EXCEPT ![r] = q]
    PROVE  RequestsRight'
<1>1. DOMAIN req' = Requests /\ \A x \in Requests : req'[x] = IF x = r THEN q ELSE req[x]
  BY DEF RequestsRight
<1>2. ASSUME NEW x \in Requests
      PROVE  RequestRight(req[x])'
  <2>1. PICK y : y = req'[x]
    OBVIOUS
  <2>2. RequestRight(y)
    BY <1>1, <2>1 DEF RequestsRight
  <2>3. RequestRight(y)'
    BY <2>2, RequestStays
  <2> QED BY <2>1, <2>3
<1> QED BY <1>1, <1>2 DEF RequestsRight

\* A deletion that goes on is not about to write, or is one that went on before.
LEMMA RacesStay ==
    ASSUME RacesRight, ordered' \subseteq ordered, raced \subseteq raced',
           \A x \in Requests : req'[x].stage # "write" \/ req'[x] = req[x]
    PROVE  RacesRight'
BY DEF RacesRight, Deleting

-----------------------------------------------------------------------------
(* The writes *)

LEMMA DatedIsLater ==
    ASSUME RowsRight, clock' = clock + 1, DOMAIN items' \subseteq Items,
           \A i \in DOMAIN items' : DishOK(items'[i]),
           offAt' \in [Items -> Nat],
           \A i \in DOMAIN items' : ~items'[i].available =>
               \/ i \in DOMAIN items /\ ~items[i].available /\ offAt'[i] = offAt[i]
               \/ offAt'[i] = clock + 1
    PROVE  Later /\ RowsRight'
<1>1. clock \in Nat /\ clock' \in Nat /\ clock <= clock'
  BY DEF RowsRight
<1>2. ASSUME NEW i \in Items, NEW read \in 0..clock, OffSince(i, read)
      PROVE  OffSince(i, read)'
  <2> SUFFICES ASSUME i \in DOMAIN items', ~items'[i].available PROVE read < offAt'[i]
    BY DEF OffSince
  <2>1. CASE i \in DOMAIN items /\ ~items[i].available /\ offAt'[i] = offAt[i]
    BY <1>2, <2>1 DEF OffSince
  <2>2. CASE offAt'[i] = clock + 1
    BY <2>2, <1>1
  <2> QED BY <2>1, <2>2
<1> QED BY <1>1, <1>2 DEF Later, RowsRight

LEMMA OffAtIsDated ==
    ASSUME RowsRight, NEW i \in Items, NEW on
    PROVE  /\ OffAt(i, on) \in [Items -> Nat]
           /\ \A x \in Items \ {i} : OffAt(i, on)[x] = offAt[x]
           /\ ~on => OffAt(i, on)[i] = clock + 1
BY DEF RowsRight, OffAt

LEMMA SetAvailableIsLater ==
    ASSUME RowsRight, CatsRight, NEW r \in Requests, RequestRight(req[r]), req[r] # Free,
           SetAvailable(r)
    PROVE  Later /\ RowsRight' /\ CatsRight'
<1> DEFINE i == req[r].change.item
           on == req[r].change.to
<1>1. /\ req[r].change.op = "available" /\ i \in Items /\ on \in BOOLEAN
      /\ i \in DOMAIN items /\ clock' = clock + 1
      /\ items' = [items EXCEPT ![i].available = on]
      /\ offAt' = IF items[i].available THEN OffAt(i, on) ELSE offAt
      /\ cats' = cats
  BY DEF SetAvailable, Written, Possible, RequestRight, ChangeOK
<1>2. DOMAIN items' = DOMAIN items
  BY <1>1
<1>3. ASSUME NEW x \in DOMAIN items
      PROVE  /\ items'[x] = [cat |-> items[x].cat, version |-> items[x].version,
                             available |-> IF x = i THEN on ELSE items[x].available]
  <2>1. CASE x = i
    BY <1>1, <2>1 DEF RowsRight, DishOK
  <2>2. CASE x # i
    BY <1>1, <2>2 DEF RowsRight, DishOK
  <2> QED BY <2>1, <2>2
<1>4. \A x \in DOMAIN items' :
         /\ DishOK(items'[x])
         /\ items'[x].cat = items[x].cat
         /\ items'[x].available = IF x = i THEN on ELSE items[x].available
  BY <1>1, <1>2, <1>3 DEF RowsRight, DishOK
<1>5. offAt' \in [Items -> Nat]
  BY <1>1, OffAtIsDated DEF RowsRight
<1>6. ASSUME NEW x \in DOMAIN items', ~items'[x].available
      PROVE  \/ x \in DOMAIN items /\ ~items[x].available /\ offAt'[x] = offAt[x]
             \/ offAt'[x] = clock + 1
  <2>1. x \in Items
    BY <1>2 DEF RowsRight
  <2>2. CASE x = i
    <3>1. ~on
      BY <1>4, <1>6, <2>2
    <3> QED BY <1>1, <1>2, <2>2, <3>1, OffAtIsDated
  <2>3. CASE x # i
    <3>1. ~items[x].available
      BY <1>4, <1>6, <2>3
    <3>2. offAt'[x] = offAt[x]
      BY <1>1, <2>1, <2>3, OffAtIsDated
    <3> QED BY <1>2, <3>1, <3>2
  <2> QED BY <2>2, <2>3
<1>7. Later /\ RowsRight'
  BY <1>1, <1>2, <1>4, <1>5, <1>6, DatedIsLater DEF RowsRight
<1>8. CatsRight'
  BY <1>1, <1>2, <1>4 DEF CatsRight
<1> QED BY <1>7, <1>8

LEMMA SaveItemIsLater ==
    ASSUME RowsRight, CatsRight, NEW r \in Requests, RequestRight(req[r]), req[r] # Free,
           SaveItem(r)
    PROVE  Later /\ RowsRight' /\ CatsRight'
<1> DEFINE change == req[r].change
           i == change.item
           new == [cat |-> change.cat, available |-> change.to, version |-> clock + 1]
<1>1. /\ change.op \in {"edit", "create"} /\ i \in Items
      /\ change.cat \in DOMAIN cats /\ clock' = clock + 1
      /\ change.op = "edit" => i \in DOMAIN items
      /\ change.op = "create" => change.to
      /\ change.to \in BOOLEAN
      /\ items' = With(items, i, new)
      /\ offAt' = IF i \in DOMAIN items /\ items[i].available
                  THEN OffAt(i, change.to) ELSE offAt
      /\ cats' = cats
  BY DEF SaveItem, Written, Possible, RequestRight, ChangeOK, EditRight
<1> HIDE DEF change, i
<1>2. /\ DOMAIN items' = DOMAIN items \cup {i}
      /\ items'[i] = new
      /\ \A x \in DOMAIN items : x # i => items'[x] = items[x]
  BY <1>1 DEF With
<1>3. \A x \in DOMAIN items' : DishOK(items'[x]) /\ items'[x].cat \in DOMAIN cats
  BY <1>1, <1>2 DEF RowsRight, CatsRight, DishOK
<1>4. offAt' \in [Items -> Nat]
  BY <1>1, OffAtIsDated DEF RowsRight
<1>5. ASSUME NEW x \in DOMAIN items', ~items'[x].available
      PROVE  \/ x \in DOMAIN items /\ ~items[x].available /\ offAt'[x] = offAt[x]
             \/ offAt'[x] = clock + 1
  <2>1. CASE x = i
    <3>1. ~change.to
      BY <1>2, <1>5, <2>1
    <3>2. i \in DOMAIN items
      BY <1>1, <3>1
    <3> QED BY <1>1, <2>1, <3>1, <3>2, OffAtIsDated
  <2>2. CASE x # i
    <3>1. x \in DOMAIN items /\ items'[x] = items[x] /\ x \in Items
      BY <1>2, <2>2 DEF RowsRight
    <3>2. offAt'[x] = offAt[x]
      BY <1>1, <2>2, <3>1, OffAtIsDated
    <3> QED BY <1>5, <3>1, <3>2
  <2> QED BY <2>1, <2>2
<1>6. DOMAIN items' \subseteq Items
  BY <1>1, <1>2 DEF RowsRight
<1>7. Later /\ RowsRight'
  BY <1>1, <1>3, <1>4, <1>5, <1>6, DatedIsLater
<1>8. CatsRight'
  BY <1>1, <1>3 DEF CatsRight
<1> QED BY <1>7, <1>8

LEMMA DeleteItemIsLater ==
    ASSUME RowsRight, CatsRight, NEW r \in Requests, RequestRight(req[r]), req[r] # Free,
           DeleteItem(r)
    PROVE  Later /\ RowsRight' /\ CatsRight' /\ ordered' \subseteq ordered
<1> DEFINE i == req[r].change.item
           gone == items' = Without(items, i)
<1>1. /\ req[r].change.op = "remove" /\ i \in DOMAIN items /\ i \in Items
      /\ clock' = clock + 1 /\ cats' = cats
      /\ gone \/ items' = [items EXCEPT ![i].available = FALSE]
      /\ ordered' = ordered \/ ordered' = ordered \ {i}
      /\ offAt' = IF items[i].available THEN OffAt(i, FALSE) ELSE offAt
  BY DEF DeleteItem, Written, Possible, RowsRight
<1> HIDE DEF i
<1>2. /\ DOMAIN items' \subseteq DOMAIN items
      /\ \A x \in DOMAIN items' :
            items'[x] = [cat |-> items[x].cat, version |-> items[x].version,
                         available |-> IF x = i THEN FALSE ELSE items[x].available]
  <2>1. CASE gone
    BY <1>1, <2>1 DEF Without, RowsRight, DishOK
  <2>2. CASE items' = [items EXCEPT ![i].available = FALSE]
    <3>1. DOMAIN items' = DOMAIN items
      BY <2>2
    <3>2. ASSUME NEW x \in DOMAIN items
          PROVE  items'[x] = [cat |-> items[x].cat, version |-> items[x].version,
                              available |-> IF x = i THEN FALSE ELSE items[x].available]
      <4>1. CASE x = i
        <5>1. PICK cat, v, on : items[i] = [cat |-> cat, version |-> v, available |-> on]
          BY <1>1 DEF RowsRight, DishOK
        <5>2. items'[i] = [items[i] EXCEPT !.available = FALSE]
          BY <1>1, <2>2
        <5> QED BY <4>1, <5>1, <5>2
      <4>2. CASE x # i
        BY <1>1, <2>2, <4>2 DEF RowsRight, DishOK
      <4> QED BY <4>1, <4>2
    <3> QED BY <3>1, <3>2
  <2> QED BY <1>1, <2>1, <2>2
<1>3. \A x \in DOMAIN items' :
         /\ DishOK(items'[x])
         /\ items'[x].cat = items[x].cat
         /\ x # i => items'[x].available = items[x].available
  <2> TAKE x \in DOMAIN items'
  <2>1. PICK on : items'[x] = [cat |-> items[x].cat, version |-> items[x].version,
                              available |-> on]
                   /\ (IF x = i THEN on = FALSE ELSE on = items[x].available)
    BY <1>2
  <2>2. on \in BOOLEAN
    BY <1>2, <2>1 DEF RowsRight, DishOK
  <2> QED BY <2>1, <2>2 DEF DishOK
<1>4. offAt' \in [Items -> Nat]
  BY <1>1, OffAtIsDated DEF RowsRight
<1>5. ASSUME NEW x \in DOMAIN items', ~items'[x].available
      PROVE  \/ x \in DOMAIN items /\ ~items[x].available /\ offAt'[x] = offAt[x]
             \/ offAt'[x] = clock + 1
  <2>1. CASE x = i
    BY <1>1, <1>2, <2>1, OffAtIsDated
  <2>2. CASE x # i
    <3>1. x \in DOMAIN items /\ ~items[x].available /\ x \in Items
      BY <1>2, <1>3, <1>5, <2>2 DEF RowsRight
    <3>2. OffAt(i, FALSE)[x] = offAt[x]
      BY <2>2, <3>1 DEF OffAt, RowsRight
    <3>3. offAt'[x] = offAt[x]
      BY <1>1, <3>2
    <3> QED BY <3>1, <3>3
  <2> QED BY <2>1, <2>2
<1>6. DOMAIN items' \subseteq Items
  BY <1>2 DEF RowsRight
<1>7. Later /\ RowsRight'
  BY <1>1, <1>3, <1>4, <1>5, <1>6, DatedIsLater
<1>8. CatsRight'
  BY <1>1, <1>2, <1>3 DEF CatsRight
<1> QED BY <1>1, <1>7, <1>8

\* The handlers of a category leave the dishes alone; one that dishes are in stays.
LEMMA CategoryWritesAreLater ==
    ASSUME RowsRight, CatsRight, NEW r \in Requests,
           PatchCategory(r) \/ CreateCategory(r) \/ DeleteCategory(r)
    PROVE  Later /\ RowsRight' /\ CatsRight' /\ UNCHANGED ordered
<1> DEFINE c == req[r].change.cat
<1>1. UNCHANGED <<items, offAt, ordered>> /\ clock' = clock + 1
  BY DEF PatchCategory, CreateCategory, DeleteCategory, Written
<1>2. Later /\ RowsRight'
  BY <1>1 DEF Later, RowsRight, OffSince
<1>3. \/ DOMAIN cats \subseteq DOMAIN cats'
      \/ ItemsOf(c) = {} /\ DOMAIN cats' = DOMAIN cats \ {c}
  <2>1. CASE PatchCategory(r)
    <3> DEFINE v == IF req[r].change.op = "hide"
                    THEN [cats[c] EXCEPT !.active = req[r].change.to]
                    ELSE [cats[c] EXCEPT !.version = clock + 1]
    <3>1. cats' = [cats EXCEPT ![c] = v]
      BY <2>1 DEF PatchCategory
    <3> HIDE DEF v
    <3> QED BY <3>1
  <2>2. CASE CreateCategory(r)
    <3> DEFINE v == [active |-> TRUE, version |-> clock + 1]
    <3>1. cats' = With(cats, c, v)
      BY <2>2 DEF CreateCategory
    <3> HIDE DEF v
    <3> QED BY <3>1 DEF With
  <2>3. CASE DeleteCategory(r)
    BY <2>3 DEF DeleteCategory, Without, Written, Possible
  <2> QED BY <2>1, <2>2, <2>3
<1>4. CatsRight'
  BY <1>1, <1>3 DEF CatsRight, ItemsOf
<1> QED BY <1>1, <1>2, <1>4

\* Every step of a handler: the rows, and the request that made it.
LEMMA HandleIsLater ==
    ASSUME RowsRight, CatsRight, RequestsRight, NEW r \in Requests,
           Check(r) \/ Write(r) \/ Announced(r)
    PROVE  /\ Later /\ RowsRight' /\ CatsRight' /\ ordered' \subseteq ordered
           /\ \E s \in Stages : \E k, o :
                 /\ req' = [req EXCEPT ![r] = Moved(req[r], s, k, o)]
                 /\ s = "write" => req[r].stage = "check" /\ k = Counted(req[r].change)
<1>0. req[r] # Free /\ RequestRight(req[r])
  <2>1. req[r].stage \in {"check", "write", "publish"}
    BY DEF Check, Write, SetAvailable, SaveItem, DeleteItem, PatchCategory, CreateCategory,
           DeleteCategory, Written, WriteFails, Announced
  <2> QED BY <2>1 DEF RequestsRight, Free
<1>1. CASE Check(r)
  <2>1. Later /\ RowsRight' /\ CatsRight' /\ ordered' = ordered
    BY <1>1, SameRowsAreLater DEF Check, menu, CatsRight
  <2> DEFINE k == Counted(req[r].change)
  <2>2. PICK s \in Stages : req' = [req EXCEPT ![r].stage = s, ![r].kept = k]
    BY <1>1 DEF Check, Stages
  <2> HIDE DEF k
  <2>3. req' = [req EXCEPT ![r] = Moved(req[r], s, k, req[r].ok)]
    <3>1. [req[r] EXCEPT !.stage = s, !.kept = k] = Moved(req[r], s, k, req[r].ok)
      BY <1>0, StageAndKeptMove
    <3> QED BY <2>2, <3>1
  <2>4. s = "write" => req[r].stage = "check" /\ k = Counted(req[r].change)
    BY <1>1 DEF Check, k
  <2> QED BY <2>1, <2>3, <2>4
<1>2. CASE Announced(r)
  <2>1. Later /\ RowsRight' /\ CatsRight' /\ ordered' = ordered
    BY <1>2, SameRowsAreLater DEF Announced, menu, CatsRight
  <2> DEFINE s == "answer"
             v == TRUE
  <2>2. req' = [req EXCEPT ![r].stage = s, ![r].ok = v]
    BY <1>2 DEF Announced
  <2>3. s \in Stages /\ s # "write"
    BY DEF Stages
  <2> HIDE DEF s, v
  <2>4. req' = [req EXCEPT ![r] = Moved(req[r], s, req[r].kept, v)]
    <3>1. [req[r] EXCEPT !.stage = s, !.ok = v] = Moved(req[r], s, req[r].kept, v)
      BY <1>0, StageAndOkMove
    <3> QED BY <2>2, <3>1
  <2> QED BY <2>1, <2>3, <2>4
<1>3. CASE WriteFails(r)
  <2>1. Later /\ RowsRight' /\ CatsRight' /\ ordered' = ordered
    BY <1>3, SameRowsAreLater DEF WriteFails, menu, CatsRight
  <2>2. req' = [req EXCEPT ![r] = Moved(req[r], "answer", req[r].kept, req[r].ok)]
    BY <1>0, <1>3, StageMoves DEF WriteFails
  <2> QED BY <2>1, <2>2 DEF Stages
<1>4. ASSUME Written(r)
      PROVE  req' = [req EXCEPT ![r] = Moved(req[r], "publish", req[r].kept, req[r].ok)]
  BY <1>0, <1>4, StageMoves DEF Written
<1>5. CASE SetAvailable(r)
  BY <1>0, <1>4, <1>5, SetAvailableIsLater DEF SetAvailable, Stages
<1>6. CASE SaveItem(r)
  BY <1>0, <1>4, <1>6, SaveItemIsLater DEF SaveItem, Stages
<1>7. CASE DeleteItem(r)
  BY <1>0, <1>4, <1>7, DeleteItemIsLater DEF DeleteItem, Stages
<1>8. CASE PatchCategory(r) \/ CreateCategory(r) \/ DeleteCategory(r)
  BY <1>4, <1>8, CategoryWritesAreLater DEF PatchCategory, CreateCategory, DeleteCategory, Stages
<1> QED BY <1>1, <1>2, <1>3, <1>5, <1>6, <1>7, <1>8 DEF Write

-----------------------------------------------------------------------------
(* The tabs *)

\* One tab changes and nothing of the menu does.
LEMMA OneTab ==
    ASSUME RowsRight, TabsRight, UNCHANGED <<items, clock, offAt>>, NEW a \in Tabs,
           DOMAIN tab' = Tabs, \A b \in Tabs : b # a => tab'[b] = tab[b], TabRight(a)'
    PROVE  TabsRight'
BY SameRowsAreLater, TabStays DEF TabsRight

\* A list that is fetched now is right about every dish on sale.
LEMMA ReloadKeepsIt ==
    ASSUME RowsRight, TabsRight, NEW a \in Tabs, Reload(a)
    PROVE  TabsRight'
<1>1. /\ tab[a].latest = None
      /\ tab' = [tab EXCEPT ![a].rows = [items |-> items, cats |-> cats], ![a].read = clock]
      /\ UNCHANGED <<items, clock, offAt>>
  BY DEF Reload, rows, menu
<1> DEFINE n == [rows |-> [items |-> items, cats |-> cats], read |-> clock,
                 committed |-> tab[a].committed, latest |-> None, form |-> tab[a].form]
<1>2. DOMAIN tab' = Tabs /\ \A b \in Tabs : b # a => tab'[b] = tab[b]
  BY <1>1 DEF TabsRight
<1>3. tab'[a] = n
  <2> DEFINE l == [items |-> items, cats |-> cats]
  <2>1. tab'[a] = [tab[a] EXCEPT !.rows = l, !.read = clock]
    BY <1>1 DEF TabsRight
  <2>2. TabOK(tab[a])
    BY DEF TabsRight, TabRight, TabOK
  <2> HIDE DEF l
  <2>3. tab'[a] = [x \in TabFields |-> IF x = "rows" THEN l ELSE IF x = "read" THEN clock
                                       ELSE tab[a][x]]
    BY <2>1, <2>2 DEF TabOK, TabFields
  <2> QED BY <1>1, <2>3 DEF TabFields, l
<1>4. TabRight(a)'
  <2>1. Believed(a)' = [items |-> items, cats |-> cats] /\ tab'[a].rows = Believed(a)'
    BY <1>3 DEF Believed
  <2>2. /\ Believed(a)'.items = items' /\ tab'[a].rows.items = items' /\ tab'[a].read = clock'
    BY <1>1, <1>3, <2>1
  <2>3. ListOK(tab'[a].rows) /\ Believed(a)' = tab'[a].rows
    <3>1. PICK l : l = [items |-> items, cats |-> cats]
      OBVIOUS
    <3>2. ListOK(l)
      BY <3>1 DEF ListOK, RowsRight
    <3> QED BY <1>1, <2>1, <3>1, <3>2
  <2>4. \A i \in DOMAIN items' : items'[i].available => OffSince(i, clock)'
    BY DEF OffSince
  <2>5. ListRight(a)'
    BY <2>2, <2>3, <2>4 DEF ListRight
  <2>6. FormRight(tab[a].form)'
    BY <1>1, <1>3 DEF TabsRight, TabRight, FormRight, OffSince
  <2>7. TabOK(tab[a])' /\ tab'[a].read \in 0..clock'
    BY <1>1, <1>3 DEF TabOK, RowsRight
  <2> QED BY <2>5, <2>6, <2>7 DEF TabRight
<1> QED BY <1>1, <1>2, <1>4, OneTab

\* Only the form of a tab changes.
LEMMA FormSet ==
    ASSUME RowsRight, TabsRight, UNCHANGED <<items, clock, offAt>>, NEW a \in Tabs,
           NEW f, FormRight(f), tab' = [tab EXCEPT ![a].form = f]
    PROVE  TabsRight'
<1>1. DOMAIN tab' = Tabs /\ \A b \in Tabs : b # a => tab'[b] = tab[b]
  BY DEF TabsRight
<1>2. TabOK(tab[a]) /\ tab'[a] = [tab[a] EXCEPT !.form = f]
  BY DEF TabsRight, TabRight
<1>3. tab'[a] = [rows |-> tab[a].rows, read |-> tab[a].read, committed |-> tab[a].committed,
                 latest |-> tab[a].latest, form |-> f]
  <2>1. PICK r0, r1, c0, l0, f0 : tab[a] = [rows |-> r0, read |-> r1, committed |-> c0,
                                          latest |-> l0, form |-> f0]
    BY <1>2 DEF TabOK
  <2> QED BY <1>2, <2>1
<1>4. TabOK(tab[a])'
  BY <1>3 DEF TabOK
<1>5. ListRight(a)'
  <2>1. Believed(a)' = Believed(a)
    BY <1>3 DEF Believed
  <2>2. ListRight(a)
    BY DEF TabsRight, TabRight
  <2> QED BY <1>3, <2>1, <2>2 DEF ListRight, OffSince
<1>6. FormRight(tab[a].form)'
  BY <1>3 DEF FormRight, OffSince
<1>7. TabRight(a)'
  BY <1>3, <1>4, <1>5, <1>6 DEF TabsRight, TabRight
<1> QED BY <1>1, <1>7, OneTab

LEMMA NoneFormRight == FormRight(None)
BY DEF FormRight

\* A form is as right as the list it is filled from.
LEMMA OpenEditorKeepsIt ==
    ASSUME RowsRight, TabsRight, NEW a \in Tabs, NEW i, NEW c, OpenEditor(a, i, c)
    PROVE  TabsRight'
<1> DEFINE old == tab[a].rows.items
           guess == /\ tab[a].latest # None
                    /\ i \in DOMAIN old \cap DOMAIN tab[a].committed.items
                    /\ old[i].available # tab[a].committed.items[i].available
           f == [item |-> i, cat |-> c, read |-> tab[a].read,
                 to |-> i \in DOMAIN old => old[i].available,
                 guess |-> guess]
<1>1. /\ i \in DOMAIN old \cup {None}
      /\ tab' = [tab EXCEPT ![a].form = f]
      /\ UNCHANGED <<items, clock, offAt>>
  BY DEF OpenEditor, rows, menu
<1>2. ListRight(a) /\ tab[a].read \in 0..clock
  BY DEF TabsRight, TabRight
<1>3. i # None => i \in Items /\ i \in DOMAIN old /\ i \in DOMAIN Believed(a).items
  BY <1>1, <1>2 DEF ListRight, ListOK
<1>4. i = None => i \notin DOMAIN old
  BY <1>2 DEF ListRight, ListOK
<1>5. i # None /\ f.to /\ ~f.guess => OffSince(i, tab[a].read)
  <2> SUFFICES ASSUME i # None, old[i].available, ~guess PROVE OffSince(i, tab[a].read)
    BY <1>3
  <2>1. old[i].available \in BOOLEAN /\ Believed(a).items[i].available \in BOOLEAN
    BY <1>2, <1>3 DEF ListRight, ListOK, DishOK
  <2>2. Believed(a).items[i].available
    <3>1. CASE tab[a].latest = None
      BY <3>1 DEF Believed
    <3>2. CASE tab[a].latest # None
      BY <1>3, <2>1, <3>2 DEF Believed
    <3> QED BY <3>1, <3>2
  <2> QED BY <1>2, <1>3, <2>2 DEF ListRight
<1>6. FormRight(f)
  BY <1>2, <1>3, <1>4, <1>5 DEF FormRight
<1> QED BY <1>1, <1>6, FormSet

LEMMA CloseEditorKeepsIt ==
    ASSUME RowsRight, TabsRight, NEW a \in Tabs, CloseEditor(a)
    PROVE  TabsRight'
BY NoneFormRight, FormSet DEF CloseEditor, rows, menu

\* The list a switch starts from is the one the tab fell back on.
LEMMA ToggleKeepsIt ==
    ASSUME RowsRight, TabsRight, NEW a \in Tabs, NEW i, NEW r \in Requests, Toggle(a, i, r)
    PROVE  TabsRight'
<1> DEFINE base == Believed(a)
           next == ~tab[a].rows.items[i].available
           shown == [base EXCEPT !.items[i].available = next]
<1>1. /\ i \in DOMAIN tab[a].rows.items
      /\ tab' = [tab EXCEPT ![a] = [tab[a] EXCEPT !.committed = base, !.latest = r,
                                                  !.rows = shown]]
      /\ UNCHANGED <<items, clock, offAt>>
  BY DEF Toggle, rest, Believed
<1>2. DOMAIN tab' = Tabs /\ \A b \in Tabs : b # a => tab'[b] = tab[b]
  BY <1>1 DEF TabsRight
<1>3. ListRight(a) /\ TabOK(tab[a]) /\ tab[a].read \in 0..clock /\ FormRight(tab[a].form)
  BY DEF TabsRight, TabRight
<1>4. i \in DOMAIN base.items /\ ListOK(base)
  BY <1>1, <1>3 DEF ListRight
<1>5. DOMAIN shown.items = DOMAIN base.items /\ ListOK(shown)
  <2>1. PICK d, cs : base = [items |-> d, cats |-> cs]
    BY <1>4 DEF ListOK
  <2> DEFINE d1 == [d EXCEPT ![i].available = next]
  <2>2. shown = [items |-> d1, cats |-> cs]
    BY <2>1
  <2>3. DOMAIN d1 = DOMAIN d
    OBVIOUS
  <2>4. \A x \in DOMAIN d : x \in Items /\ DishOK(d[x])
    BY <1>4, <2>1 DEF ListOK
  <2>5. next \in BOOLEAN
    OBVIOUS
  <2> HIDE DEF next
  <2>6. DishOK([d[i] EXCEPT !.available = next])
    <3>1. PICK x, y, z : d[i] = [cat |-> x, available |-> y, version |-> z]
      BY <1>4, <2>1, <2>4 DEF DishOK
    <3>2. [d[i] EXCEPT !.available = next] = [cat |-> x, available |-> next, version |-> z]
      BY <3>1
    <3> QED BY <2>5, <3>2 DEF DishOK
  <2>7. \A x \in DOMAIN d1 : d1[x] = IF x = i THEN [d[i] EXCEPT !.available = next] ELSE d[x]
    BY <1>4, <2>1
  <2>8. \A x \in DOMAIN d1 : x \in Items /\ DishOK(d1[x])
    BY <2>3, <2>4, <2>6, <2>7
  <2> HIDE DEF d1, shown
  <2> QED BY <2>1, <2>2, <2>3, <2>8 DEF ListOK
<1> HIDE DEF base, shown
<1>6. tab'[a] = [rows |-> shown, read |-> tab[a].read, committed |-> base,
                 latest |-> r, form |-> tab[a].form]
  <2>1. tab'[a] = [x \in TabFields |-> IF x = "rows" THEN shown
                                       ELSE IF x = "committed" THEN base
                                       ELSE IF x = "latest" THEN r ELSE tab[a][x]]
    BY <1>1, <1>3 DEF TabsRight, TabOK, TabFields
  <2> QED BY <2>1 DEF TabFields
<1>7. ListRight(a)'
  <2>1. Believed(a)' = base
    BY <1>6 DEF Believed
  <2>2. ListOK(tab'[a].rows) /\ ListOK(Believed(a)')
    BY <1>4, <1>5, <1>6, <2>1
  <2> QED BY <1>1, <1>3, <1>5, <1>6, <2>1, <2>2 DEF ListRight, OffSince, base
<1>8. FormRight(tab[a].form)'
  BY <1>1, <1>3, <1>6 DEF FormRight, OffSince
<1>9. TabRight(a)'
  BY <1>1, <1>3, <1>6, <1>7, <1>8 DEF TabRight, TabOK
<1> QED BY <1>1, <1>2, <1>9, OneTab

LEMMA AnsweredKeepsTabs ==
    ASSUME RowsRight, TabsRight, RequestsRight, NEW r \in Requests, Answered(r)
    PROVE  TabsRight'
<1>0. PICK a \in Tabs : a = req[r].tab
  BY DEF Answered, RequestsRight, RequestRight, Free
<1>1. /\ UNCHANGED <<items, clock, offAt>>
      /\ \/ UNCHANGED tab
         \/ tab' = [tab EXCEPT ![a].form = None]
         \/ /\ tab[a].latest = r
            /\ tab' = [tab EXCEPT ![a].rows = tab[a].committed, ![a].committed = None,
                                  ![a].latest = None]
  BY <1>0 DEF Answered, menu
<1>2. CASE UNCHANGED tab
  BY <1>1, <1>2, SameRowsAreLater, TabsStay
<1>3. CASE tab' = [tab EXCEPT ![a].form = None]
  BY <1>1, <1>3, NoneFormRight, FormSet
<1>4. CASE /\ tab[a].latest = r
           /\ tab' = [tab EXCEPT ![a].rows = tab[a].committed, ![a].committed = None,
                                 ![a].latest = None]
  <2>1. DOMAIN tab' = Tabs /\ \A b \in Tabs : b # a => tab'[b] = tab[b]
    BY <1>4 DEF TabsRight
  <2>2. ListRight(a) /\ TabOK(tab[a]) /\ tab[a].read \in 0..clock /\ FormRight(tab[a].form)
    BY <1>1 DEF TabsRight, TabRight
  <2>3. tab'[a] = [x \in TabFields |-> IF x = "rows" THEN tab[a].committed
                                       ELSE IF x \in {"committed", "latest"} THEN None
                                       ELSE tab[a][x]]
    BY <1>1, <1>4, <2>2 DEF TabsRight, TabOK, TabFields
  <2>4. tab'[a] = [rows |-> tab[a].committed, read |-> tab[a].read, committed |-> None,
                   latest |-> None, form |-> tab[a].form]
    BY <2>3 DEF TabFields
  <2>5. Believed(a)' = Believed(a) /\ tab'[a].rows = Believed(a)
    BY <1>4, <2>4 DEF Believed
  <2>6. ListRight(a)'
    BY <1>1, <2>2, <2>4, <2>5 DEF ListRight, OffSince
  <2>7. FormRight(tab[a].form)'
    BY <1>1, <2>2, <2>4 DEF FormRight, OffSince
  <2>8. TabRight(a)'
    BY <1>1, <2>2, <2>4, <2>6, <2>7 DEF TabRight, TabOK
  <2> QED BY <1>1, <2>1, <2>8, OneTab
<1> QED BY <1>1, <1>2, <1>3, <1>4

-----------------------------------------------------------------------------
(* The requests of the tabs *)

\* A request that comes in starts with its check.
LEMMA RequestedIsRight ==
    ASSUME RowsRight, RequestsRight, RacesRight, UNCHANGED <<items, clock, offAt>>,
           NEW a \in Tabs, NEW r \in Requests, NEW change, ChangeOK(change), EditRight(change),
           Requested(a, r, change), UNCHANGED <<ordered, raced>>
    PROVE  (RequestsRight /\ RacesRight)'
<1> DEFINE q == [stage |-> "check", tab |-> a, change |-> change, kept |-> FALSE, ok |-> FALSE]
<1>1. RequestRight(q)
  BY DEF RequestRight, Stages
<1>2. req' = [req EXCEPT ![r] = q] /\ q.stage # "write"
  BY DEF Requested
<1> HIDE DEF q
<1>3. RequestsRight'
  BY <1>1, <1>2, SameRowsAreLater, OneRequest
<1>4. RacesRight'
  BY <1>2, RacesStay DEF RequestsRight
<1> QED BY <1>3, <1>4

LEMMA ToggleKeepsRequests ==
    ASSUME RowsRight, RequestsRight, TabsRight, RacesRight, NEW a \in Tabs, NEW i,
           NEW r \in Requests, Toggle(a, i, r)
    PROVE  (RequestsRight /\ RacesRight)'
<1> DEFINE change == [op |-> "available", item |-> i, to |-> ~tab[a].rows.items[i].available]
<1>1. Requested(a, r, change) /\ UNCHANGED <<items, clock, offAt, ordered, raced>>
  BY DEF Toggle, rest, history
<1>2. i \in Items
  BY DEF Toggle, TabsRight, TabRight, ListRight, ListOK
<1>3. ChangeOK(change) /\ EditRight(change)
  BY <1>2 DEF ChangeOK, EditRight
<1> QED BY <1>1, <1>3, RequestedIsRight

LEMMA SaveFormKeepsRequests ==
    ASSUME RowsRight, RequestsRight, TabsRight, RacesRight, NEW a \in Tabs,
           NEW r \in Requests, SaveForm(a, r)
    PROVE  (RequestsRight /\ RacesRight)'
<1> DEFINE form == tab[a].form
           change(i) == [op |-> IF form.item = None THEN "create" ELSE "edit",
                         item |-> i, cat |-> form.cat, to |-> form.to,
                         read |-> form.read, guess |-> form.guess]
<1>1. PICK i \in IF form.item = None THEN Items \ used ELSE {form.item} :
           Requested(a, r, change(i))
  BY DEF SaveForm
<1>2. UNCHANGED <<items, clock, offAt, ordered, raced>> /\ form # None
  BY DEF SaveForm, rest, history
<1>3. FormRight(form)
  BY DEF TabsRight, TabRight
<1>4. /\ i \in Items
      /\ form.item # None => i = form.item
      /\ form.read \in 0..clock /\ form.to \in BOOLEAN /\ form.guess \in BOOLEAN
      /\ form.item = None => form.to
      /\ form.item # None /\ form.to /\ ~form.guess => OffSince(form.item, form.read)
  BY <1>1, <1>2, <1>3 DEF FormRight
<1> HIDE DEF form
<1>5. ChangeOK(change(i)) /\ EditRight(change(i))
  BY <1>4 DEF ChangeOK, EditRight
<1> HIDE DEF change
<1> QED BY <1>1, <1>2, <1>5, RequestedIsRight

LEMMA CallsKeepRequests ==
    ASSUME RowsRight, RequestsRight, TabsRight, RacesRight, NEW a \in Tabs,
           NEW r \in Requests,
           \/ \E i \in Items : RemoveItem(a, i, r)
           \/ \E c \in Cats : ChangeCategory(a, c, r) \/ AddCategory(a, c, r)
    PROVE  (RequestsRight /\ RacesRight)'
<1>1. PICK change : /\ Called(a, r, change)
                    /\ change.op \in {"remove", "hide", "rename", "removeCategory",
                                      "addCategory"}
                    /\ change.op = "remove" => change.item \in Items
  <2>1. CASE \E i \in Items : RemoveItem(a, i, r)
    BY <2>1 DEF RemoveItem
  <2>2. ASSUME NEW c \in Cats, ChangeCategory(a, c, r)
        PROVE  \E change : /\ Called(a, r, change)
                           /\ change.op \in {"hide", "rename", "removeCategory"}
    BY <2>2 DEF ChangeCategory
  <2>3. CASE \E c \in Cats : AddCategory(a, c, r)
    BY <2>3 DEF AddCategory
  <2> QED BY <2>1, <2>2, <2>3
<1>2. Requested(a, r, change) /\ UNCHANGED <<items, clock, offAt, ordered, raced>>
  BY <1>1 DEF Called, rest, history
<1>3. ChangeOK(change) /\ EditRight(change)
  BY <1>1 DEF ChangeOK, EditRight
<1> QED BY <1>2, <1>3, RequestedIsRight

\* A request that is over, or that the server's end cuts short, leaves nothing due.
LEMMA AnsweredKeepsRequests ==
    ASSUME RowsRight, RequestsRight, RacesRight, NEW r \in Requests, Answered(r)
    PROVE  (RequestsRight /\ RacesRight)'
<1>1. /\ req' = [req EXCEPT ![r] = Free]
      /\ UNCHANGED <<items, clock, offAt, ordered, raced>>
  BY DEF Answered, menu, history
<1>2. RequestRight(Free) /\ Free.stage # "write"
  BY DEF RequestRight, Free
<1>3. RequestsRight'
  BY <1>1, <1>2, SameRowsAreLater, OneRequest
<1>4. RacesRight'
  BY <1>1, <1>2, RacesStay DEF RequestsRight
<1> QED BY <1>3, <1>4

LEMMA RestartKeepsRequests ==
    ASSUME RowsRight, RequestsRight, RacesRight, BoardRestart
    PROVE  (RequestsRight /\ RacesRight)'
<1>1. req' = Cut /\ UNCHANGED <<items, clock, offAt, ordered, raced>>
  BY DEF BoardRestart, menu, history
<1>2. Later /\ RowsRight'
  BY <1>1, SameRowsAreLater
<1>3. ASSUME NEW x \in Requests
      PROVE  /\ RequestRight(req[x])'
             /\ req'[x].stage # "write"
  <2>1. CASE req[x] = Free
    <3>1. req'[x] = Free
      BY <1>1, <2>1 DEF Cut
    <3> QED BY <3>1 DEF RequestRight, Free
  <2>2. CASE req[x] # Free
    <3>1. req'[x] = Moved(req[x], "answer", req[x].kept, req[x].ok)
      BY <1>1, <2>2, StageMoves DEF Cut, RequestsRight
    <3>2. PICK q : q = Moved(req[x], "answer", req[x].kept, req[x].ok)
      OBVIOUS
    <3>3. RequestRight(q)
      BY <2>2, <3>2, MovedIsRight DEF RequestsRight, Stages
    <3>4. RequestRight(q)'
      BY <1>2, <3>3, RequestStays
    <3>5. q.stage = "answer"
      BY <3>2 DEF Moved
    <3> QED BY <3>1, <3>2, <3>4, <3>5
  <2> QED BY <2>1, <2>2
<1>4. DOMAIN req' = Requests
  BY <1>1 DEF Cut
<1>5. RacesRight'
  BY <1>1, <1>3, RacesStay
<1> QED BY <1>3, <1>4, <1>5 DEF RequestsRight

\* A deletion that has counted none comes before the order it does not see.
LEMMA OrderKeepsRaces ==
    ASSUME RowsRight, RequestsRight, RacesRight, NEW i \in Items, Order(i)
    PROVE  (RequestsRight /\ RacesRight)' /\ raced \subseteq raced'
<1>1. /\ UNCHANGED <<items, clock, offAt, req>>
      /\ ordered' = ordered \cup {i}
      /\ raced' = IF \E r \in Requests : Deleting(r, i) THEN raced \cup {i} ELSE raced
  BY DEF Order, menu
<1>2. RequestsRight'
  BY <1>1 DEF RequestsRight, RequestRight, ChangeOK, EditRight, OffSince
<1>3. \A r \in Requests : \A x : Deleting(r, x)' <=> Deleting(r, x)
  BY <1>1 DEF Deleting
<1>4. RacesRight'
  BY <1>1, <1>3 DEF RacesRight
<1> QED BY <1>1, <1>2, <1>4

LEMMA HandleKeepsRequests ==
    ASSUME RowsRight, CatsRight, RequestsRight, RacesRight, NEW r \in Requests,
           BoardHandle(r)
    PROVE  (RequestsRight /\ RacesRight)'
<1>1. Check(r) \/ Write(r) \/ Announced(r)
  BY DEF BoardHandle
<1>2. Later /\ RowsRight' /\ ordered' \subseteq ordered
  BY <1>1, HandleIsLater
<1>3. PICK s \in Stages : \E k, o :
           /\ req' = [req EXCEPT ![r] = Moved(req[r], s, k, o)]
           /\ s = "write" => req[r].stage = "check" /\ k = Counted(req[r].change)
  BY <1>1, HandleIsLater
<1>a. PICK k, o :
           /\ req' = [req EXCEPT ![r] = Moved(req[r], s, k, o)]
           /\ s = "write" => req[r].stage = "check" /\ k = Counted(req[r].change)
  BY <1>3
<1>4. req[r] # Free /\ RequestRight(req[r])
  <2>1. req[r].stage \in {"check", "write", "publish"}
    BY <1>1 DEF Check, Write, SetAvailable, SaveItem, DeleteItem, PatchCategory,
                CreateCategory, DeleteCategory, Written, WriteFails, Announced
  <2> QED BY <2>1 DEF RequestsRight, Free
<1>5. RequestRight(Moved(req[r], s, k, o))
  BY <1>4, MovedIsRight
<1>6. RequestsRight'
  BY <1>2, <1>a, <1>5, OneRequest
<1>7. RacesRight'
  <2> SUFFICES ASSUME NEW x \in Requests, NEW i \in ordered', Deleting(x, i)'
               PROVE  i \in raced
    BY DEF RacesRight, BoardHandle
  <2>1. CASE x # r
    <3>1. req'[x] = req[x]
      BY <1>a, <2>1 DEF RequestsRight
    <3> QED BY <1>2, <3>1 DEF RacesRight, Deleting
  <2>2. CASE x = r
    <3>1. req'[r] = Moved(req[r], s, k, o)
      BY <1>a DEF RequestsRight
    <3>2. s = "write" /\ ~k /\ req[r].change.op = "remove" /\ req[r].change.item = i
      BY <2>2, <3>1 DEF Deleting, Moved
    <3>3. i \in ordered
      BY <1>2
    <3> QED BY <1>a, <3>2, <3>3 DEF Counted
  <2> QED BY <2>1, <2>2
<1> QED BY <1>6, <1>7

-----------------------------------------------------------------------------
(* The histories *)

LEMMA HandleKeepsHistories ==
    ASSUME RequestsRight, RacesRight, CatsRight, OnlyStaleFormRevives, orphaned \subseteq raced,
           NEW r \in Requests, BoardHandle(r)
    PROVE  OnlyStaleFormRevives' /\ (orphaned \subseteq raced)'
<1>1. (orphaned \subseteq raced)'
  BY DEF BoardHandle, RacesRight
<1>2. ASSUME Revives(r)
      PROVE  \/ req[r].change.read < offAt[req[r].change.item]
             \/ req[r].change.guess
  <2>1. /\ req[r].stage = "write" /\ req[r].change.op = "edit" /\ req[r].change.to
        /\ req[r].change.item \in DOMAIN items
        /\ ~items[req[r].change.item].available
    BY <1>2 DEF Revives, Possible
  <2>2. EditRight(req[r].change)
    BY <2>1 DEF RequestsRight, RequestRight, Free
  <2> QED BY <2>1, <2>2 DEF EditRight, OffSince
<1>3. OnlyStaleFormRevives'
  <2> DEFINE v == [read |-> req[r].change.read, guess |-> req[r].change.guess,
                   off |-> offAt[req[r].change.item]]
  <2>1. revived' = IF Revives(r) THEN revived \cup {v} ELSE revived
    BY DEF BoardHandle
  <2>2. Revives(r) => v.read < v.off \/ v.guess
    BY <1>2
  <2> HIDE DEF v
  <2> QED BY <2>1, <2>2 DEF OnlyStaleFormRevives
<1> QED BY <1>1, <1>3

-----------------------------------------------------------------------------
(* The theorems about the tabs *)

LEMMA BoardInitHolds == BoardInit => BoardFacts
<1> SUFFICES ASSUME BoardInit PROVE BoardFacts
  OBVIOUS
<1>1. RowsRight
  BY DEF BoardInit, RowsInit, RowsRight, DishOK
<1>2. RequestsRight /\ RacesRight
  BY DEF BoardInit, RowsInit, RequestsRight, RequestRight, RacesRight
<1>3. TabsRight
  <2> SUFFICES ASSUME NEW a \in Tabs PROVE TabRight(a)
    BY DEF BoardInit, TabsRight
  <2> DEFINE l == [items |-> items, cats |-> cats]
  <2>1. tab[a] = [rows |-> l, read |-> 0, committed |-> None, latest |-> None, form |-> None]
    BY DEF BoardInit
  <2>2. ListOK(l)
    BY <1>1 DEF ListOK, RowsRight
  <2>3. l.items = items
    OBVIOUS
  <2>4. \A i \in DOMAIN items : items[i].available
    BY DEF BoardInit, RowsInit
  <2> HIDE DEF l
  <2>5. tab[a].rows = l /\ Believed(a) = l
    BY <2>1 DEF Believed
  <2>6. ListRight(a)
    BY <2>2, <2>3, <2>4, <2>5 DEF ListRight, OffSince
  <2>7. FormRight(tab[a].form)
    BY <2>1, NoneFormRight
  <2> QED BY <2>1, <2>6, <2>7 DEF TabRight, TabOK, BoardInit, RowsInit
<1>4. OnlyStaleFormRevives /\ orphaned \subseteq raced /\ CatsRight
  BY DEF BoardInit, RowsInit, OnlyStaleFormRevives, CatsRight
<1> QED BY <1>1, <1>2, <1>3, <1>4 DEF BoardFacts

\* What a step that leaves the rows of the menu and the histories alone keeps.
LEMMA SameMenu ==
    ASSUME BoardFacts, UNCHANGED <<items, cats, clock, offAt, history>>
    PROVE  (RowsRight /\ CatsRight /\ OnlyStaleFormRevives /\ orphaned \subseteq raced)'
BY DEF BoardFacts, RowsRight, CatsRight, OnlyStaleFormRevives, history

\* A step of a tab that sends no request.
LEMMA SameRows ==
    ASSUME BoardFacts, UNCHANGED rows, UNCHANGED history
    PROVE  (RowsRight /\ CatsRight /\ OnlyStaleFormRevives /\ orphaned \subseteq raced
            /\ RequestsRight /\ RacesRight)'
<1>1. UNCHANGED <<items, cats, clock, offAt, history, req, ordered, raced>>
  BY DEF rows, menu, history
<1>2. RequestsRight'
  BY <1>1 DEF BoardFacts, RequestsRight, RequestRight, ChangeOK, EditRight, OffSince
<1>3. RacesRight'
  BY <1>1 DEF BoardFacts, RacesRight, Deleting
<1> QED BY <1>1, <1>2, <1>3, SameMenu

LEMMA AdminKeepsIt ==
    ASSUME BoardFacts, Admin
    PROVE  BoardFacts'
<1>0. PICK a \in Tabs :
        \/ Reload(a) \/ CloseEditor(a)
        \/ \E i \in Items \cup {None}, c \in Cats : OpenEditor(a, i, c)
        \/ \E r \in Requests :
              \/ SaveForm(a, r)
              \/ \E i \in Items : Toggle(a, i, r) \/ RemoveItem(a, i, r)
              \/ \E c \in Cats : ChangeCategory(a, c, r) \/ AddCategory(a, c, r)
  BY DEF Admin
<1>1. CASE Reload(a)
  BY <1>1, SameRows, ReloadKeepsIt DEF BoardFacts, Reload
<1>2. CASE CloseEditor(a)
  BY <1>2, SameRows, CloseEditorKeepsIt DEF BoardFacts, CloseEditor
<1>3. ASSUME NEW i, NEW c, OpenEditor(a, i, c) PROVE BoardFacts'
  BY <1>3, SameRows, OpenEditorKeepsIt DEF BoardFacts, OpenEditor
<1>4. ASSUME NEW r \in Requests, SaveForm(a, r) PROVE BoardFacts'
  <2>1. UNCHANGED <<items, cats, clock, offAt, history, tab>>
    BY <1>4 DEF SaveForm, rest
  <2>2. TabsRight'
    BY <2>1, SameRowsAreLater, TabsStay DEF BoardFacts
  <2> QED BY <1>4, <2>1, <2>2, SameMenu, SaveFormKeepsRequests DEF BoardFacts
<1>5. ASSUME NEW r \in Requests, NEW i, Toggle(a, i, r) PROVE BoardFacts'
  <2>1. UNCHANGED <<items, cats, clock, offAt, history>>
    BY <1>5 DEF Toggle, rest
  <2> QED BY <1>5, <2>1, SameMenu, ToggleKeepsIt, ToggleKeepsRequests DEF BoardFacts
<1>6. ASSUME NEW r \in Requests,
             \/ \E i \in Items : RemoveItem(a, i, r)
             \/ \E c \in Cats : ChangeCategory(a, c, r) \/ AddCategory(a, c, r)
      PROVE  BoardFacts'
  <2>1. UNCHANGED <<items, cats, clock, offAt, history, tab>>
    BY <1>6 DEF RemoveItem, ChangeCategory, AddCategory, Called, rest
  <2>2. TabsRight'
    BY <2>1, SameRowsAreLater, TabsStay DEF BoardFacts
  <2> QED BY <1>6, <2>1, <2>2, SameMenu, CallsKeepRequests DEF BoardFacts
<1> QED BY <1>0, <1>1, <1>2, <1>3, <1>4, <1>5, <1>6

LEMMA ServerKeepsIt ==
    ASSUME BoardFacts,
           \/ \E r \in Requests : BoardHandle(r) \/ Answered(r)
           \/ \E i \in Items : Order(i)
           \/ BoardRestart
    PROVE  BoardFacts'
<1>1. ASSUME NEW r \in Requests, BoardHandle(r) PROVE BoardFacts'
  <2>1. /\ Check(r) \/ Write(r) \/ Announced(r)
        /\ UNCHANGED tab
    BY <1>1 DEF BoardHandle
  <2>2. Later /\ RowsRight' /\ CatsRight'
    BY <2>1, HandleIsLater DEF BoardFacts
  <2>3. TabsRight'
    BY <2>1, <2>2, TabsStay DEF BoardFacts
  <2>4. (RequestsRight /\ RacesRight)'
    BY <1>1, HandleKeepsRequests DEF BoardFacts
  <2>5. (OnlyStaleFormRevives /\ orphaned \subseteq raced)'
    BY <1>1, HandleKeepsHistories DEF BoardFacts
  <2> QED BY <2>2, <2>3, <2>4, <2>5 DEF BoardFacts
<1>2. ASSUME NEW r \in Requests, Answered(r) PROVE BoardFacts'
  <2>1. UNCHANGED <<items, cats, clock, offAt, history>>
    BY <1>2 DEF Answered, menu
  <2> QED BY <1>2, <2>1, SameMenu, AnsweredKeepsTabs, AnsweredKeepsRequests DEF BoardFacts
<1>3. ASSUME NEW i \in Items, Order(i) PROVE BoardFacts'
  <2>1. UNCHANGED <<items, cats, clock, offAt, tab, revived, orphaned>>
    BY <1>3 DEF Order, menu
  <2>2. (RequestsRight /\ RacesRight)' /\ raced \subseteq raced'
    BY <1>3, OrderKeepsRaces DEF BoardFacts
  <2>3. RowsRight' /\ TabsRight'
    BY <2>1, SameRowsAreLater, TabsStay DEF BoardFacts
  <2>4. (CatsRight /\ OnlyStaleFormRevives /\ orphaned \subseteq raced)'
    BY <2>1, <2>2 DEF BoardFacts, CatsRight, OnlyStaleFormRevives
  <2> QED BY <2>2, <2>3, <2>4 DEF BoardFacts
<1>4. ASSUME BoardRestart PROVE BoardFacts'
  <2>1. UNCHANGED <<items, cats, clock, offAt, history, tab>>
    BY <1>4 DEF BoardRestart, menu
  <2>2. TabsRight'
    BY <2>1, SameRowsAreLater, TabsStay DEF BoardFacts
  <2> QED BY <1>4, <2>1, <2>2, SameMenu, RestartKeepsRequests DEF BoardFacts
<1> QED BY <1>1, <1>2, <1>3, <1>4

LEMMA BoardStepHolds == BoardFacts /\ [BoardNext]_boardVars => BoardFacts'
<1> SUFFICES ASSUME BoardFacts, [BoardNext]_boardVars PROVE BoardFacts'
  OBVIOUS
<1>1. CASE Admin
  BY <1>1, AdminKeepsIt
<1>2. CASE \/ \E r \in Requests : BoardHandle(r) \/ Answered(r)
           \/ \E i \in Items : Order(i)
           \/ BoardRestart
  BY <1>2, ServerKeepsIt
<1>3. CASE UNCHANGED boardVars
  <2>1. UNCHANGED <<items, cats, clock, offAt, history, tab>> /\ UNCHANGED rows
    BY <1>3 DEF boardVars, rows, menu
  <2>2. TabsRight'
    BY <2>1, SameRowsAreLater, TabsStay DEF BoardFacts
  <2> QED BY <2>1, <2>2, SameRows DEF BoardFacts
<1> QED BY <1>1, <1>2, <1>3 DEF BoardNext

\* The strengthening holds in every state: what a tab, a form and a request know
\* of a dish is never newer than the last time the dish went off sale.
THEOREM BoardInvariance == BoardSpec => []BoardInvariant
<1>1. BoardInit => BoardFacts
  BY BoardInitHolds
<1>2. BoardFacts /\ [BoardNext]_boardVars => BoardFacts'
  BY BoardStepHolds
<1>3. BoardFacts => BoardInvariant
  BY BoardParts
<1> QED BY <1>1, <1>2, <1>3, PTL DEF BoardSpec

\* An edit puts a dish that was taken off sale back only from a list fetched before
\* or a switch nobody had answered, whatever the tabs, the requests and the restarts.
THEOREM OnlyStaleFormRevivesHolds == BoardSpec => []OnlyStaleFormRevives
<1>1. BoardInvariant => OnlyStaleFormRevives
  BY DEF BoardInvariant
<1> QED BY <1>1, BoardInvariance, PTL

\* A dish is deleted from under an order only if the order raced the deletion, and
\* every dish has its category.
THEOREM ReferencesHoldHolds == BoardSpec => []ReferencesHold
<1>1. BoardInvariant => ReferencesHold
  BY DEF BoardInvariant
<1> QED BY <1>1, BoardInvariance, PTL

=============================================================================
