----------------------- MODULE OrderPlacement_proofs -----------------------
(***************************************************************************)
(* Theorems about OrderPlacement, for any number of phones, of submissions *)
(* at work and of dishes, and for any limits.                              *)
(***************************************************************************)
EXTENDS OrderPlacement, FiniteSetTheorems, TLAPS

USE RequestsAssumption, LimitsAssumption, NoneAssumption

\* The two halves of the inductive invariant: what the pages hold, and what
\* the server does.
PageInvariant ==
    /\ CartsApart
    /\ KeysDrawn
    /\ SentApart
    /\ SentFromCart
    /\ AwaitsItsOwn
    /\ ClearedWasOrdered

ServerInvariant ==
    /\ NumbersHaveNoGaps
    /\ OneOrderForAKey
    /\ OkMeansOrdered
    /\ TriesHaveRivals
    /\ FailsOnlyForRivals
    /\ PassedTogether

LEMMA Halves == InductiveInvariant <=> TypeOK /\ PageInvariant /\ ServerInvariant
BY DEF InductiveInvariant, PageInvariant, ServerInvariant

-----------------------------------------------------------------------------
(* Lemmas about the data *)

\* A request that is at work holds a submission.
LEMMA AtWork ==
    ASSUME TypeOK, NEW r \in Requests
    PROVE  /\ req[r] # Free => req[r] \in Submissions
           /\ \A stage \in Stages : At(r, stage) => req[r] \in Submissions /\ req[r] # Free
BY DEF TypeOK, At, Free, Stages, Submissions

\* The stage of an answered submission is "answer", not "free".
LEMMA FreeIsNoSubmission == Free \notin Submissions
BY DEF Free, Submissions, Stages

\* What was sent has a session, a key and dishes.
LEMMA SentTypes ==
    ASSUME TypeOK
    PROVE  /\ \A m \in Sent : m.session \in Nat /\ m.key \in Nat /\ m.dishes \in SUBSET Dishes
           /\ \A i \in DOMAIN orders : Body(orders[i]) \in Sent
           /\ \A r \in Requests : req[r] # Free => Body(req[r]) \in Sent
<1>1. \A i \in DOMAIN orders : orders[i] \in Orders
  BY DEF TypeOK
<1>2. \A r \in Requests : req[r] # Free => req[r] \in Submissions
  BY AtWork
<1> QED BY <1>1, <1>2 DEF Sent, Body, Orders, Submissions

\* The highest number, when no number is skipped, is the number of orders.
LEMMA HighestIsLength ==
    ASSUME TypeOK, NumbersHaveNoGaps
    PROVE  Highest = Len(orders)
<1> DEFINE numbers == {orders[i].number : i \in DOMAIN orders}
<1>1. Len(orders) \in Nat /\ DOMAIN orders = 1..Len(orders)
  BY DEF TypeOK
<1>2. numbers = 1..Len(orders)
  BY <1>1 DEF NumbersHaveNoGaps
<1>3. Highest = IF numbers = {} THEN 0 ELSE CHOOSE n \in numbers : \A m \in numbers : m <= n
  BY DEF Highest
<1> HIDE DEF numbers
<1>4. CASE Len(orders) = 0
  BY <1>1, <1>2, <1>3, <1>4
<1>5. CASE Len(orders) # 0
  <2>1. Len(orders) \in numbers /\ \A m \in numbers : m <= Len(orders)
    BY <1>1, <1>2, <1>5
  <2>2. Highest = CHOOSE n \in numbers : \A m \in numbers : m <= n
    BY <1>3, <2>1
  <2>3. Highest \in numbers /\ \A m \in numbers : m <= Highest
    BY <2>1, <2>2
  <2>4. Highest \in 1..Len(orders) /\ Len(orders) <= Highest
    BY <1>2, <2>1, <2>3
  <2>5. \A k \in Nat : \A n \in 1..k : k <= n => n = k
    OBVIOUS
  <2> QED BY <1>1, <2>4, <2>5
<1> QED BY <1>4, <1>5

\* What the cap is about can be counted.
LEMMA FiniteTables ==
    ASSUME TypeOK
    PROVE  /\ open \in Nat /\ revived \in Nat /\ revived <= open
           /\ Passed \subseteq Requests
           /\ IsFiniteSet(Passed) /\ Cardinality(Passed) \in Nat
           /\ Cardinality(Passed) <= Cardinality(Requests)
           /\ Cardinality(Requests) \in Nat
<1>1. Len(orders) \in Nat /\ open \in 0..Len(orders) /\ revived \in 0..open
  BY DEF TypeOK
<1>3. open \in Nat /\ revived \in Nat /\ revived <= open
  BY <1>1
<1>4. Passed \subseteq Requests
  BY DEF Passed
<1>5. IsFiniteSet(Passed) /\ Cardinality(Passed) <= Cardinality(Requests)
  BY <1>4, FS_Subset
<1> QED BY <1>3, <1>4, <1>5, FS_CardinalityType

-----------------------------------------------------------------------------
(* Steps that leave most of the state alone *)

\* A step that adds nothing to what was sent, and touches no cart and no key.
LEMMA NothingSent ==
    ASSUME PageInvariant, Sent' \subseteq Sent,
           UNCHANGED <<cart, key, session, lastKey, history>>
    PROVE  CartsApart' /\ KeysDrawn' /\ SentApart' /\ SentFromCart'
<1>1. CartsApart' /\ KeysDrawn'
  BY DEF PageInvariant, CartsApart, KeysDrawn, history
<1>2. SentApart'
  BY DEF PageInvariant, SentApart, history
<1>3. SentFromCart'
  BY DEF PageInvariant, SentFromCart, history
<1> QED BY <1>1, <1>2, <1>3

\* A step of the pages only.
LEMMA ServerIdle ==
    ASSUME ServerInvariant, UNCHANGED <<orders, open, revived, req>>
    PROVE  ServerInvariant'
BY DEF ServerInvariant, NumbersHaveNoGaps, OneOrderForAKey, OkMeansOrdered, TriesHaveRivals,
       FailsOnlyForRivals, PassedTogether, Passed, At

\* A step of the handler of r that inserts nothing.
LEMMA HandlerStep ==
    ASSUME InductiveInvariant,
           NEW r \in Requests, req[r] # Free,
           NEW q \in Submissions,
           req' = [req EXCEPT ![r] = q],
           UNCHANGED <<server, phones, counters, history>>,
           q.phone = req[r].phone, q.session = req[r].session,
           q.key = req[r].key, q.dishes = req[r].dishes,
           q.stage = "answer" /\ q.answer = "ok" =>
               \E i \in DOMAIN orders : orders[i].key = q.key,
           q.stage = "answer" /\ q.answer = "order_failed" => Len(orders) >= NUMBER_RETRIES,
           q.stage = "insert" => q.tries <= q.last /\ q.last <= Len(orders),
           q.tries <= Len(orders),
           q.stage \in {"menu", "number", "insert"} =>
               \/ r \in Passed
               \/ open < MAX_OPEN_ORDERS_PER_TABLE
    PROVE  InductiveInvariant'
<1> USE Halves
<1>1. TypeOK'
  BY DEF TypeOK, server, phones, counters, history
<1>2. Sent' \subseteq Sent
  <2>1. \A s \in Requests : req'[s] # Free => req[s] # Free /\ Body(req'[s]) = Body(req[s])
    BY DEF TypeOK, Body
  <2> QED BY <2>1 DEF Sent, server
<1>3. CartsApart' /\ KeysDrawn' /\ SentApart' /\ SentFromCart'
  BY <1>2, NothingSent DEF phones, counters
<1>4. AwaitsItsOwn'
  BY DEF TypeOK, PageInvariant, AwaitsItsOwn, phones
<1>5. ClearedWasOrdered'
  BY DEF PageInvariant, ClearedWasOrdered, Ordered, server, history
<1>6. NumbersHaveNoGaps' /\ OneOrderForAKey'
  BY DEF ServerInvariant, NumbersHaveNoGaps, OneOrderForAKey, server
<1>7. OkMeansOrdered' /\ TriesHaveRivals' /\ FailsOnlyForRivals'
  BY FreeIsNoSubmission
     DEF TypeOK, ServerInvariant, OkMeansOrdered, TriesHaveRivals, FailsOnlyForRivals, At, server
<1>8. PassedTogether'
  <2>1. open' = open /\ revived' = revived
    BY DEF server
  <2>2. CASE open < MAX_OPEN_ORDERS_PER_TABLE
    <3>1. Passed' \subseteq Requests
      BY DEF Passed
    <3>2. Cardinality(Passed') \in Nat /\ Cardinality(Passed') <= Cardinality(Requests)
      BY <3>1, FS_Subset, FS_CardinalityType
    <3> QED BY <2>1, <2>2, <3>2, FiniteTables DEF PassedTogether
  <2>3. CASE ~ (open < MAX_OPEN_ORDERS_PER_TABLE)
    <3>1. Passed' \subseteq Passed
      BY <2>3 DEF Passed, TypeOK
    <3>2. Cardinality(Passed') \in Nat /\ Cardinality(Passed') <= Cardinality(Passed)
      BY <3>1, FiniteTables, FS_Subset, FS_CardinalityType
    <3>3. PassedTogether
      BY DEF ServerInvariant
    <3> QED BY <2>1, <3>2, <3>3, FiniteTables DEF PassedTogether
  <2> QED BY <2>2, <2>3
<1> QED BY <1>1, <1>3, <1>4, <1>5, <1>6, <1>7, <1>8 DEF InductiveInvariant

-----------------------------------------------------------------------------
(* The inductive invariant holds initially *)

LEMMA InitInvariant == Init => InductiveInvariant
<1> SUFFICES ASSUME Init PROVE InductiveInvariant
  OBVIOUS
<1>1. TypeOK
  BY DEF Init, TypeOK, Orders
<1>2. DOMAIN orders = {} /\ Len(orders) = 0 /\ Sent = {} /\ Passed = {}
  BY DEF Init, Sent, Passed, Free
<1>3. NumbersHaveNoGaps /\ OneOrderForAKey
  BY <1>2 DEF NumbersHaveNoGaps, OneOrderForAKey
<1>4. CartsApart /\ KeysDrawn /\ SentApart /\ SentFromCart /\ AwaitsItsOwn /\ ClearedWasOrdered
  BY <1>2 DEF Init, CartsApart, KeysDrawn, SentApart, SentFromCart, AwaitsItsOwn, ClearedWasOrdered
<1>5. OkMeansOrdered /\ TriesHaveRivals /\ FailsOnlyForRivals
  BY <1>2 DEF Init, OkMeansOrdered, TriesHaveRivals, FailsOnlyForRivals, At, Free
<1>6. PassedTogether
  <2>1. open = 0 /\ revived = 0 /\ Cardinality(Passed) = 0
    BY <1>2, FS_EmptySet DEF Init
  <2> QED BY <1>1, <2>1, FiniteTables DEF PassedTogether
<1> QED BY <1>1, <1>3, <1>4, <1>5, <1>6 DEF InductiveInvariant

-----------------------------------------------------------------------------
(* The page keeps it *)

LEMMA AddKeepsIt ==
    ASSUME InductiveInvariant, NEW p \in Phones, NEW d \in Dishes, Add(p, d)
    PROVE  InductiveInvariant'
<1> USE Halves DEF Add
<1>1. TypeOK'
  BY DEF TypeOK, server, counters
<1>2. ServerInvariant'
  BY ServerIdle DEF server
<1>3. Sent' = Sent
  BY DEF Sent, server
<1>4. \A m \in Sent : m.dishes \subseteq tapped
  BY DEF PageInvariant, SentApart
<1>5. CartsApart'
  BY DEF TypeOK, PageInvariant, CartsApart
<1>6. KeysDrawn'
  BY DEF PageInvariant, KeysDrawn, counters
<1>7. SentApart'
  BY <1>3 DEF PageInvariant, SentApart, counters
<1>8. SentFromCart'
  <2> SUFFICES ASSUME NEW x \in Phones, NEW m \in Sent
               PROVE  /\ m.key = key[x] => m.session = session[x] /\ cart'[x] \subseteq m.dishes \cup late'
                      /\ m.key # key[x] => m.dishes \cap cart'[x] \subseteq adrift
    BY <1>3 DEF SentFromCart
  <2>1. /\ m.key = key[x] => m.session = session[x] /\ cart[x] \subseteq m.dishes \cup late
        /\ m.key # key[x] => m.dishes \cap cart[x] \subseteq adrift
    BY DEF PageInvariant, SentFromCart
  <2>2. m.key \in Nat /\ d \notin m.dishes
    BY <1>4, SentTypes
  <2> QED BY <2>1, <2>2 DEF TypeOK
<1>9. AwaitsItsOwn'
  BY DEF PageInvariant, AwaitsItsOwn
<1>10. ClearedWasOrdered'
  BY DEF PageInvariant, ClearedWasOrdered, Ordered, server
<1> QED BY <1>1, <1>2, <1>5, <1>6, <1>7, <1>8, <1>9, <1>10
        DEF InductiveInvariant, ServerInvariant

LEMMA SubmitKeepsIt ==
    ASSUME InductiveInvariant, NEW p \in Phones, NEW r \in Requests, Submit(p, r)
    PROVE  InductiveInvariant'
<1> USE Halves DEF Submit
<1> DEFINE new == [session |-> session[p], key |-> NextKey(p), dishes |-> cart[p]]
<1>1. NextKey(p) \in Nat /\ lastKey \in Nat /\ lastKey' \in Nat /\ lastKey <= lastKey' /\ NextKey(p) <= lastKey'
  BY DEF TypeOK, NextKey
<1>2. key' = [key EXCEPT ![p] = NextKey(p)] /\ NextKey(p) # None
  BY <1>1
<1>3. \/ key[p] = None /\ NextKey(p) = lastKey + 1
      \/ key[p] # None /\ key[p] = NextKey(p)
  BY DEF NextKey
<1>4. TypeOK'
  BY <1>1 DEF TypeOK, server, history, Submissions, Stages, Answers
<1>5. Sent' \subseteq Sent \cup {new}
  <2>1. \A s \in Requests : s # r => req'[s] = req[s]
    BY DEF TypeOK
  <2>2. Body(req'[r]) = new
    BY DEF TypeOK, Body
  <2> QED BY <2>1, <2>2 DEF Sent, server
<1>6. \A m \in Sent : m.session \in Nat /\ m.key \in Nat /\ m.dishes \in SUBSET Dishes
  BY SentTypes
<1>7. \A m \in Sent : m.key <= lastKey /\ m.dishes \subseteq tapped
  BY DEF PageInvariant, SentApart
<1>8. CartsApart'
  BY DEF PageInvariant, CartsApart, history
<1>9. KeysDrawn'
  BY <1>1, <1>2, <1>3 DEF TypeOK, PageInvariant, KeysDrawn
<1>10. \A m \in Sent : /\ m.key = NextKey(p) => m.session = session[p]
                       /\ m.key # NextKey(p) => m.dishes \cap cart[p] \subseteq adrift
  BY <1>1, <1>3, <1>6, <1>7 DEF PageInvariant, SentFromCart
<1>11. SentApart'
  <2>1. new.key = NextKey(p) /\ new.session = session[p] /\ new.dishes = cart[p]
    OBVIOUS
  <2>2. cart[p] \subseteq tapped
    BY DEF PageInvariant, CartsApart
  <2> HIDE DEF new
  <2>3. \A m \in Sent' : m.key <= lastKey' /\ m.dishes \subseteq tapped
    BY <1>1, <1>5, <1>6, <1>7, <2>1, <2>2
  <2>4. \A m, n \in Sent' : m.key = n.key => m.session = n.session
    BY <1>5, <1>10, <2>1 DEF PageInvariant, SentApart
  <2>5. \A m, n \in Sent' : m.key # n.key => m.dishes \cap n.dishes \subseteq adrift
    BY <1>5, <1>10, <2>1 DEF PageInvariant, SentApart
  <2> QED BY <2>3, <2>4, <2>5 DEF SentApart, history
<1>12. SentFromCart'
  <2>1. new.key = NextKey(p) /\ new.session = session[p] /\ new.dishes = cart[p]
    OBVIOUS
  <2> HIDE DEF new
  <2> SUFFICES ASSUME NEW x \in Phones, NEW m \in Sent'
               PROVE  /\ m.key = key'[x] => m.session = session[x] /\ cart[x] \subseteq m.dishes \cup late
                      /\ m.key # key'[x] => m.dishes \cap cart[x] \subseteq adrift
    BY DEF SentFromCart, history
  <2>2. CASE x = p
    <3>1. key'[x] = NextKey(p)
      BY <1>2, <2>2 DEF TypeOK
    <3>2. CASE m = new
      BY <2>1, <2>2, <3>1, <3>2
    <3>3. CASE m \in Sent
      BY <1>1, <1>3, <1>7, <1>10, <2>2, <3>1, <3>3 DEF PageInvariant, SentFromCart
    <3> QED BY <1>5, <3>2, <3>3
  <2>3. CASE x # p
    <3>1. key'[x] = key[x] /\ key[x] # NextKey(p)
      BY <1>1, <1>2, <1>3, <2>3 DEF TypeOK, PageInvariant, KeysDrawn
    <3>2. CASE m = new
      <4>1. cart[p] \cap cart[x] = {}
        BY <2>3 DEF PageInvariant, CartsApart
      <4> QED BY <2>1, <3>1, <3>2, <4>1
    <3>3. CASE m \in Sent
      BY <3>1, <3>3 DEF PageInvariant, SentFromCart
    <3> QED BY <1>5, <3>2, <3>3
  <2> QED BY <2>2, <2>3
<1>13. AwaitsItsOwn'
  <2> SUFFICES ASSUME NEW x \in Phones, NEW s \in Requests, awaited'[x] = s, req'[s] # Free
               PROVE  req'[s].phone = x /\ req'[s].key = key'[x]
    BY DEF AwaitsItsOwn
  <2>1. CASE x = p
    BY <1>2, <2>1 DEF TypeOK
  <2>2. CASE x # p
    <3>1. awaited[x] = s /\ s # r /\ req'[s] = req[s] /\ key'[x] = key[x]
      BY <1>2, <2>2 DEF TypeOK
    <3> QED BY <3>1 DEF PageInvariant, AwaitsItsOwn
  <2> QED BY <2>1, <2>2
<1>14. ClearedWasOrdered'
  BY DEF PageInvariant, ClearedWasOrdered, Ordered, server, history
<1>15. NumbersHaveNoGaps' /\ OneOrderForAKey'
  BY DEF ServerInvariant, NumbersHaveNoGaps, OneOrderForAKey, server
<1>16. req'[r].stage = "session" /\ req'[r].tries = 0 /\ \A s \in Requests : s # r => req'[s] = req[s]
  BY DEF TypeOK
<1>17. OkMeansOrdered' /\ FailsOnlyForRivals'
  BY <1>16 DEF ServerInvariant, OkMeansOrdered, FailsOnlyForRivals, At, server
<1>18. TriesHaveRivals'
  <2>1. orders' = orders /\ Len(orders) \in Nat
    BY DEF TypeOK, server
  <2> QED BY <1>16, <2>1 DEF ServerInvariant, TriesHaveRivals, At
<1>19. PassedTogether'
  <2>1. Passed' = Passed
    BY <1>16 DEF Passed, Free
  <2> QED BY <2>1 DEF ServerInvariant, PassedTogether, server
<1> QED BY <1>4, <1>8, <1>9, <1>11, <1>12, <1>13, <1>14, <1>15, <1>17, <1>18, <1>19
        DEF InductiveInvariant

\* A load of the page takes its key away, which leaves its dishes adrift.
LEMMA LoadKeepsIt ==
    ASSUME InductiveInvariant, NEW p \in Phones, Load(p),
           UNCHANGED <<orders, open, revived, req, lastKey>>,
           \A q \in Phones : q # p => session'[q] = session[q],
           TypeOK'
    PROVE  InductiveInvariant'
<1> USE Halves DEF Load
<1>1. ServerInvariant'
  BY ServerIdle
<1>2. Sent' = Sent
  BY DEF Sent
<1>3. CartsApart'
  BY DEF PageInvariant, CartsApart
<1>4. KeysDrawn'
  BY DEF TypeOK, PageInvariant, KeysDrawn
<1>5. adrift \subseteq adrift'
  OBVIOUS
<1>6. SentApart'
  BY <1>2, <1>5 DEF PageInvariant, SentApart
<1>7. SentFromCart'
  <2> SUFFICES ASSUME NEW x \in Phones, NEW m \in Sent
               PROVE  /\ m.key = key'[x] => m.session = session'[x] /\ cart[x] \subseteq m.dishes \cup late'
                      /\ m.key # key'[x] => m.dishes \cap cart[x] \subseteq adrift'
    BY <1>2 DEF SentFromCart
  <2>1. /\ m.key = key[x] => m.session = session[x] /\ cart[x] \subseteq m.dishes \cup late
        /\ m.key # key[x] => m.dishes \cap cart[x] \subseteq adrift
    BY DEF PageInvariant, SentFromCart
  <2>2. m.key \in Nat
    BY SentTypes
  <2>3. CASE x = p
    <3>1. key'[x] = None
      BY <2>3 DEF TypeOK
    <3> QED BY <2>1, <2>2, <2>3, <3>1
  <2>4. CASE x # p
    <3>1. key'[x] = key[x] /\ session'[x] = session[x]
      BY <2>4 DEF TypeOK
    <3>2. cart[x] \cap cart[p] = {}
      BY <2>4 DEF PageInvariant, CartsApart
    <3> QED BY <1>5, <2>1, <3>1, <3>2
  <2> QED BY <2>3, <2>4
<1>8. AwaitsItsOwn'
  BY DEF TypeOK, PageInvariant, AwaitsItsOwn
<1>9. ClearedWasOrdered'
  BY DEF PageInvariant, CartsApart, ClearedWasOrdered, Ordered
<1> QED BY <1>1, <1>3, <1>4, <1>6, <1>7, <1>8, <1>9 DEF InductiveInvariant, ServerInvariant

LEMMA ReloadKeepsIt ==
    ASSUME InductiveInvariant, NEW p \in Phones, Reload(p)
    PROVE  InductiveInvariant'
<1>1. TypeOK'
  BY Halves DEF Reload, Load, TypeOK, server, counters
<1> QED BY <1>1, LoadKeepsIt DEF Reload, server, counters

LEMMA RescanKeepsIt ==
    ASSUME InductiveInvariant, NEW p \in Phones, Rescan(p)
    PROVE  InductiveInvariant'
<1>1. TypeOK /\ lastSession' = lastSession + 1
  BY Halves DEF Rescan
<1>2. ended \subseteq 0..lastSession'
  BY <1>1 DEF TypeOK
<1>3. TypeOK'
  BY <1>1, <1>2 DEF Rescan, Load, TypeOK, server
<1>4. \A q \in Phones : q # p => session'[q] = session[q]
  BY <1>1 DEF Rescan, TypeOK
<1> QED BY <1>3, <1>4, LoadKeepsIt DEF Rescan, server

LEMMA GiveUpKeepsIt ==
    ASSUME InductiveInvariant, NEW p \in Phones, GiveUp(p)
    PROVE  InductiveInvariant'
<1> USE Halves DEF GiveUp
<1>1. TypeOK'
  BY DEF TypeOK, server, counters, history
<1>2. ServerInvariant'
  BY ServerIdle DEF server
<1>3. Sent' = Sent
  BY DEF Sent, server
<1>4. CartsApart' /\ KeysDrawn' /\ SentApart' /\ SentFromCart'
  BY <1>3, NothingSent DEF counters
<1>5. AwaitsItsOwn'
  BY DEF TypeOK, PageInvariant, AwaitsItsOwn
<1>6. ClearedWasOrdered'
  BY DEF PageInvariant, ClearedWasOrdered, Ordered, server, history
<1> QED BY <1>1, <1>2, <1>4, <1>5, <1>6 DEF InductiveInvariant, ServerInvariant

\* A step that changes neither the pages' carts and keys nor the submissions:
\* the wall, the desk, the clock and the admin.
LEMMA BystanderKeepsIt ==
    ASSUME InductiveInvariant, TypeOK',
           UNCHANGED <<open, revived>> \/ open' - revived' <= open - revived,
           UNCHANGED <<orders, req, cart, key, awaited, session, counters, history>>
    PROVE  InductiveInvariant'
<1> USE Halves
<1>1. Sent' = Sent
  BY DEF Sent
<1>2. CartsApart' /\ KeysDrawn' /\ SentApart' /\ SentFromCart'
  BY <1>1, NothingSent DEF counters
<1>3. AwaitsItsOwn'
  BY DEF PageInvariant, AwaitsItsOwn
<1>4. ClearedWasOrdered'
  BY DEF PageInvariant, ClearedWasOrdered, Ordered, history
<1>5. NumbersHaveNoGaps' /\ OneOrderForAKey' /\ OkMeansOrdered' /\ TriesHaveRivals' /\ FailsOnlyForRivals'
  BY DEF ServerInvariant, NumbersHaveNoGaps, OneOrderForAKey, OkMeansOrdered, TriesHaveRivals,
         FailsOnlyForRivals, At
<1>6. PassedTogether'
  <2>1. Passed' = Passed
    BY DEF Passed
  <2>2. /\ open \in Nat /\ revived \in Nat
        /\ Cardinality(Passed) \in Nat /\ Cardinality(Requests) \in Nat
    BY FiniteTables
  <2>3. open' \in Nat /\ revived' \in Nat
    <3>1. Len(orders') \in Nat /\ open' \in 0..Len(orders') /\ revived' \in 0..open'
      BY DEF TypeOK
    <3> QED BY <3>1
  <2>4. (open - revived) + Cardinality(Passed) < MAX_OPEN_ORDERS_PER_TABLE + Cardinality(Requests)
    BY DEF ServerInvariant, PassedTogether
  <2>5. (open' - revived') + Cardinality(Passed) < MAX_OPEN_ORDERS_PER_TABLE + Cardinality(Requests)
    <3>1. CASE UNCHANGED <<open, revived>>
      BY <2>4, <3>1
    <3>2. CASE open' - revived' <= open - revived
      <4>1. \A a, b, c, d \in Int : a <= b /\ b + c < d => a + c < d
        OBVIOUS
      <4>2. /\ open - revived \in Int /\ open' - revived' \in Int
            /\ MAX_OPEN_ORDERS_PER_TABLE + Cardinality(Requests) \in Int
        BY <2>2, <2>3
      <4> QED BY <2>2, <2>4, <3>2, <4>1, <4>2
    <3> QED BY <3>1, <3>2
  <2> QED BY <2>1, <2>5 DEF PassedTogether
<1> QED BY <1>2, <1>3, <1>4, <1>5, <1>6 DEF InductiveInvariant

LEMMA NoticeEndKeepsIt ==
    ASSUME InductiveInvariant, NEW p \in Phones, NoticeEnd(p)
    PROVE  InductiveInvariant'
<1>1. TypeOK'
  BY Halves DEF NoticeEnd, TypeOK, server, counters, history
<1> QED BY <1>1, BystanderKeepsIt DEF NoticeEnd, server

\* An order that leaves was not counted if it had been brought back, and one
\* that is brought back is not counted.
LEMMA DeskKeepsIt ==
    ASSUME InductiveInvariant, Leave \/ Revive
    PROVE  InductiveInvariant'
<1>1. Len(orders) \in Nat /\ open \in 0..Len(orders) /\ revived \in 0..open
  BY Halves DEF TypeOK
<1>2. /\ open' \in 0..Len(orders) /\ revived' \in 0..open'
      /\ open' - revived' <= open - revived
  BY <1>1 DEF Leave, Revive
<1>3. UNCHANGED <<orders, recent, ended, phones, req, counters, history>>
  BY DEF Leave, Revive
<1>4. TypeOK'
  BY <1>2, <1>3, Halves DEF TypeOK, phones, counters, history
<1> QED BY <1>2, <1>3, <1>4, BystanderKeepsIt DEF phones

LEMMA AgeKeepsIt ==
    ASSUME InductiveInvariant, NEW i \in recent, Age(i)
    PROVE  InductiveInvariant'
<1>1. TypeOK'
  BY Halves DEF Age, TypeOK, phones, counters, history
<1> QED BY <1>1, BystanderKeepsIt DEF Age, phones

LEMMA EndSessionKeepsIt ==
    ASSUME InductiveInvariant, NEW s \in 1..lastSession, EndSession(s)
    PROVE  InductiveInvariant'
<1>1. TypeOK'
  BY Halves DEF EndSession, TypeOK, phones, counters, history
<1> QED BY <1>1, BystanderKeepsIt DEF EndSession, phones

-----------------------------------------------------------------------------
(* The handler keeps it *)

\* A submission that answers keeps what it was sent with.
LEMMA ReplyIsSubmission ==
    ASSUME NEW q \in Submissions, NEW answer \in Answers
    PROVE  /\ Reply(q, answer) \in Submissions
           /\ Reply(q, answer).phone = q.phone /\ Reply(q, answer).session = q.session
           /\ Reply(q, answer).key = q.key /\ Reply(q, answer).dishes = q.dishes
           /\ Reply(q, answer).stage = "answer" /\ Reply(q, answer).answer = answer
           /\ Reply(q, answer).tries = 0
BY DEF Reply, Submissions, Stages


\* An answer other than "ok" and "order_failed" needs no excuse.
LEMMA RefusalKeepsIt ==
    ASSUME InductiveInvariant, NEW r \in Requests, req[r] \in Submissions, req[r] # Free,
           NEW answer \in {"no_session", "rate_limited", "refused"}, Replies(r, answer),
           UNCHANGED <<server, phones, counters, history>>
    PROVE  InductiveInvariant'
<1> DEFINE q == Reply(req[r], answer)
<1>1. answer \in Answers /\ Len(orders) \in Nat
  BY Halves DEF Answers, TypeOK
<1>2. /\ q \in Submissions /\ q.stage = "answer" /\ q.answer = answer /\ q.tries = 0
      /\ q.phone = req[r].phone /\ q.session = req[r].session
      /\ q.key = req[r].key /\ q.dishes = req[r].dishes
  BY <1>1, ReplyIsSubmission
<1>3. req' = [req EXCEPT ![r] = q]
  BY DEF Replies
<1> HIDE DEF q
<1>4. /\ q.answer # "ok" /\ q.answer # "order_failed"
      /\ q.stage # "insert" /\ q.stage \notin {"menu", "number", "insert"}
      /\ q.tries <= Len(orders)
  BY <1>1, <1>2
<1> QED BY <1>2, <1>3, <1>4, HandlerStep

\* "ok" takes an order with the submission's key.
LEMMA OkKeepsIt ==
    ASSUME InductiveInvariant, NEW r \in Requests, req[r] \in Submissions, req[r] # Free,
           KeyTaken(r), Replies(r, "ok"), UNCHANGED <<server, phones, counters, history>>
    PROVE  InductiveInvariant'
<1> DEFINE q == Reply(req[r], "ok")
<1>1. "ok" \in Answers /\ Len(orders) \in Nat
  BY Halves DEF Answers, TypeOK
<1>2. /\ q \in Submissions /\ q.stage = "answer" /\ q.answer = "ok" /\ q.tries = 0
      /\ q.phone = req[r].phone /\ q.session = req[r].session
      /\ q.key = req[r].key /\ q.dishes = req[r].dishes
  BY <1>1, ReplyIsSubmission
<1>3. req' = [req EXCEPT ![r] = q]
  BY DEF Replies
<1>4. \E i \in DOMAIN orders : orders[i].key = req[r].key
  BY DEF KeyTaken
<1> HIDE DEF q
<1>5. /\ \E i \in DOMAIN orders : orders[i].key = q.key
      /\ q.answer # "order_failed"
      /\ q.stage # "insert" /\ q.stage \notin {"menu", "number", "insert"}
      /\ q.tries <= Len(orders)
  BY <1>1, <1>2, <1>4
<1> QED BY <1>2, <1>3, <1>5, HandlerStep

\* The handler goes on to a statement that is not its insert.
LEMMA GoingOnKeepsIt ==
    ASSUME InductiveInvariant, NEW r \in Requests, req[r] \in Submissions, req[r] # Free,
           NEW next \in {"replay", "recent", "menu", "number"}, Goes(r, next),
           UNCHANGED <<server, phones, counters, history>>,
           next \in {"menu", "number"} =>
               r \in Passed \/ open < MAX_OPEN_ORDERS_PER_TABLE
    PROVE  InductiveInvariant'
<1> DEFINE q == [req[r] EXCEPT !.stage = next]
<1>1. /\ q \in Submissions /\ q.stage = next /\ q.tries = req[r].tries
      /\ q.phone = req[r].phone /\ q.session = req[r].session
      /\ q.key = req[r].key /\ q.dishes = req[r].dishes
  BY DEF Submissions, Stages
<1>2. req[r].tries <= Len(orders)
  BY Halves DEF ServerInvariant, TriesHaveRivals
<1>3. req' = [req EXCEPT ![r] = q]
  BY DEF Goes
<1> HIDE DEF q
<1> QED BY <1>1, <1>2, <1>3, HandlerStep

LEMMA CheckSessionKeepsIt ==
    ASSUME InductiveInvariant, NEW r \in Requests, CheckSession(r)
    PROVE  InductiveInvariant'
<1>1. req[r] \in Submissions /\ req[r] # Free
  BY Halves, AtWork DEF CheckSession, Stages
<1>2. CASE req[r].session \in ended
  BY <1>1, <1>2, RefusalKeepsIt DEF CheckSession
<1>3. CASE req[r].session \notin ended
  BY <1>1, <1>3, GoingOnKeepsIt DEF CheckSession
<1> QED BY <1>2, <1>3

LEMMA LookForReplayKeepsIt ==
    ASSUME InductiveInvariant, NEW r \in Requests, LookForReplay(r)
    PROVE  InductiveInvariant'
<1>1. req[r] \in Submissions /\ req[r] # Free
  BY Halves, AtWork DEF LookForReplay, Stages
<1>2. CASE KeyTaken(r)
  BY <1>1, <1>2, OkKeepsIt DEF LookForReplay
<1>3. CASE ~KeyTaken(r)
  BY <1>1, <1>3, GoingOnKeepsIt DEF LookForReplay
<1> QED BY <1>2, <1>3

LEMMA CountRecentKeepsIt ==
    ASSUME InductiveInvariant, NEW r \in Requests, CountRecent(r)
    PROVE  InductiveInvariant'
<1> DEFINE full == Cardinality(OfWindow(req[r].session)) >= MAX_ORDERS_PER_SESSION_WINDOW
           q == [req[r] EXCEPT !.stage = "open", !.full = full]
<1>1. req[r] \in Submissions /\ req[r] # Free
  BY Halves, AtWork DEF CountRecent, Stages
<1>2. full \in BOOLEAN
  OBVIOUS
<1>3. req' = [req EXCEPT ![r] = q]
  BY DEF CountRecent
<1> HIDE DEF full
<1>4. /\ q \in Submissions /\ q.stage = "open" /\ q.tries = req[r].tries
      /\ q.phone = req[r].phone /\ q.session = req[r].session
      /\ q.key = req[r].key /\ q.dishes = req[r].dishes
  BY <1>1, <1>2 DEF Submissions, Stages
<1>5. req[r].tries <= Len(orders)
  BY <1>1, Halves DEF ServerInvariant, TriesHaveRivals
<1>6. UNCHANGED <<server, phones, counters, history>>
  BY DEF CountRecent
<1> HIDE DEF q
<1> QED BY <1>1, <1>3, <1>4, <1>5, <1>6, HandlerStep

LEMMA CountOpenKeepsIt ==
    ASSUME InductiveInvariant, NEW r \in Requests, CountOpen(r)
    PROVE  InductiveInvariant'
<1>1. req[r] \in Submissions /\ req[r] # Free
  BY Halves, AtWork DEF CountOpen, Stages
<1>2. CASE OverCap(r)
  BY <1>1, <1>2, RefusalKeepsIt DEF CountOpen
<1>3. CASE ~OverCap(r)
  <2>1. open < MAX_OPEN_ORDERS_PER_TABLE
    BY <1>3, Halves, FiniteTables DEF OverCap
  <2> QED BY <1>1, <1>3, <2>1, GoingOnKeepsIt DEF CountOpen
<1> QED BY <1>2, <1>3

LEMMA ReadMenuKeepsIt ==
    ASSUME InductiveInvariant, NEW r \in Requests, ReadMenu(r)
    PROVE  InductiveInvariant'
<1>1. req[r] \in Submissions /\ req[r] # Free /\ r \in Passed
  BY Halves, AtWork DEF ReadMenu, Stages, Passed, At
<1>2. CASE Replies(r, "refused")
  BY <1>1, <1>2, RefusalKeepsIt DEF ReadMenu
<1>3. CASE Goes(r, "number")
  BY <1>1, <1>3, GoingOnKeepsIt DEF ReadMenu
<1> QED BY <1>2, <1>3 DEF ReadMenu

LEMMA ReadNumberKeepsIt ==
    ASSUME InductiveInvariant, NEW r \in Requests, ReadNumber(r)
    PROVE  InductiveInvariant'
<1> DEFINE q == [req[r] EXCEPT !.stage = "insert", !.last = Highest]
<1>1. req[r] \in Submissions /\ req[r] # Free /\ r \in Passed
  BY Halves, AtWork DEF ReadNumber, Stages, Passed, At
<1>2. Highest = Len(orders) /\ Len(orders) \in Nat
  BY Halves, HighestIsLength DEF ServerInvariant, TypeOK
<1>3. /\ q \in Submissions /\ q.stage = "insert" /\ q.last = Highest /\ q.tries = req[r].tries
      /\ q.phone = req[r].phone /\ q.session = req[r].session
      /\ q.key = req[r].key /\ q.dishes = req[r].dishes
  BY <1>1, <1>2 DEF Submissions, Stages
<1>4. req[r].tries <= Len(orders)
  BY <1>1, Halves DEF ServerInvariant, TriesHaveRivals
<1>5. req' = [req EXCEPT ![r] = q] /\ UNCHANGED <<server, phones, counters, history>>
  BY DEF ReadNumber
<1> HIDE DEF q
<1>6. /\ q.stage # "answer"
      /\ q.tries <= q.last /\ q.last <= Len(orders) /\ q.tries <= Len(orders)
  BY <1>2, <1>3, <1>4
<1> QED BY <1>1, <1>3, <1>5, <1>6, HandlerStep

LEMMA InsertReplaysKeepsIt ==
    ASSUME InductiveInvariant, NEW r \in Requests, InsertReplays(r)
    PROVE  InductiveInvariant'
<1>1. req[r] \in Submissions /\ req[r] # Free
  BY Halves, AtWork DEF InsertReplays, Stages
<1> QED BY <1>1, OkKeepsIt DEF InsertReplays

\* A number that is taken lies between the one that was read and the number of
\* orders, so every collision finds one order more.
LEMMA InsertCollidesKeepsIt ==
    ASSUME InductiveInvariant, NEW r \in Requests, InsertCollides(r)
    PROVE  InductiveInvariant'
<1> DEFINE failed == Reply(req[r], "order_failed")
           again == [req[r] EXCEPT !.stage = "number", !.last = 0, !.tries = req[r].tries + 1]
<1>1. req[r] \in Submissions /\ req[r] # Free /\ r \in Passed /\ At(r, "insert")
  BY Halves, AtWork DEF InsertCollides, Stages, Passed, At
<1>2. Len(orders) \in Nat /\ req[r].last \in Nat /\ req[r].tries \in Nat
  BY <1>1, Halves DEF TypeOK, Submissions
<1>3. req[r].last + 1 <= Len(orders)
  <2>1. PICK i \in DOMAIN orders : orders[i].number = req[r].last + 1
    BY DEF InsertCollides, NumberTaken
  <2>2. i \in 1..Len(orders) /\ orders[i].number = i
    BY <2>1, Halves DEF ServerInvariant, NumbersHaveNoGaps, TypeOK
  <2> QED BY <1>2, <2>1, <2>2
<1>4. req[r].tries <= req[r].last
  BY <1>1, Halves DEF ServerInvariant, TriesHaveRivals
<1>5. req[r].tries + 1 <= Len(orders)
  BY <1>2, <1>3, <1>4
<1>6. UNCHANGED <<server, phones, counters, history>>
  BY DEF InsertCollides
<1>7. CASE req[r].tries + 1 = NUMBER_RETRIES
  <2>1. req' = [req EXCEPT ![r] = failed]
    BY <1>7 DEF InsertCollides
  <2>2. /\ failed \in Submissions /\ failed.stage = "answer" /\ failed.answer = "order_failed"
        /\ failed.phone = req[r].phone /\ failed.session = req[r].session /\ failed.tries = 0
        /\ failed.key = req[r].key /\ failed.dishes = req[r].dishes
    BY <1>1, ReplyIsSubmission DEF Answers
  <2> HIDE DEF failed
  <2>3. /\ failed.answer # "ok" /\ Len(orders) >= NUMBER_RETRIES
        /\ failed.stage # "insert" /\ failed.stage \notin {"menu", "number", "insert"}
        /\ failed.tries <= Len(orders)
    BY <1>2, <1>5, <1>7, <2>2
  <2> QED BY <1>1, <1>6, <2>1, <2>2, <2>3, HandlerStep
<1>8. CASE req[r].tries + 1 # NUMBER_RETRIES
  <2>1. req' = [req EXCEPT ![r] = again]
    BY <1>8 DEF InsertCollides
  <2>2. req[r].tries + 1 \in Nat
    BY <1>2
  <2>3. /\ again \in Submissions /\ again.stage = "number" /\ again.tries = req[r].tries + 1
        /\ again.phone = req[r].phone /\ again.session = req[r].session
        /\ again.key = req[r].key /\ again.dishes = req[r].dishes
    BY <1>1, <2>2 DEF Submissions, Stages
  <2> HIDE DEF again
  <2> QED BY <1>1, <1>5, <1>6, <2>1, <2>3, HandlerStep
<1> QED BY <1>7, <1>8

\* A number that is not taken, and is one more than the highest there was when
\* it was read, is one more than the highest there is; a key that is not taken
\* in the submission's session is not taken in any.
LEMMA InsertKeepsIt ==
    ASSUME InductiveInvariant, NEW r \in Requests, Insert(r)
    PROVE  InductiveInvariant'
<1> USE Halves
<1> DEFINE row == [session |-> req[r].session, key |-> req[r].key,
                   dishes |-> req[r].dishes, number |-> req[r].last + 1]
           q == Reply(req[r], "ok")
<1>1. TypeOK /\ req[r] \in Submissions /\ req[r] # Free /\ r \in Passed /\ At(r, "insert")
  BY AtWork DEF Insert, Stages, Passed, At
<1>2. Len(orders) \in Nat /\ DOMAIN orders = 1..Len(orders) /\ req[r].last \in Nat
  BY <1>1 DEF TypeOK, Submissions
<1>3. row \in Orders
  BY <1>1, <1>2 DEF Submissions, Orders
<1>4. orders' = Append(orders, row)
  BY DEF Insert
<1>5. /\ q \in Submissions /\ q.stage = "answer" /\ q.answer = "ok" /\ q.tries = 0
      /\ q.phone = req[r].phone /\ q.session = req[r].session
      /\ q.key = req[r].key /\ q.dishes = req[r].dishes
  BY <1>1, ReplyIsSubmission DEF Answers
<1>6. req' = [req EXCEPT ![r] = q]
  BY DEF Insert, Replies
<1>7. /\ row.session = req[r].session /\ row.key = req[r].key
      /\ row.dishes = req[r].dishes /\ row.number = req[r].last + 1
  OBVIOUS
<1> HIDE DEF row, q
<1>8. /\ Len(orders') = Len(orders) + 1 /\ DOMAIN orders' = 1..(Len(orders) + 1)
      /\ \A i \in DOMAIN orders : orders'[i] = orders[i]
      /\ orders'[Len(orders) + 1] = row
      /\ orders' \in Seq(Orders)
  BY <1>1, <1>2, <1>3, <1>4 DEF TypeOK
<1>9. \A i \in DOMAIN orders' : i \in DOMAIN orders \/ i = Len(orders) + 1
  BY <1>2, <1>8
<1>10. \A s \in Requests : req'[s] = IF s = r THEN q ELSE req[s]
  BY <1>1, <1>6 DEF TypeOK
<1>11. UNCHANGED <<ended, phones, counters, history>>
  BY DEF Insert
<1>12. TypeOK'
  <2>1. open' \in 0..Len(orders') /\ revived' \in 0..open' /\ recent' \subseteq DOMAIN orders'
    BY <1>1, <1>2, <1>8 DEF TypeOK, Insert
  <2> QED BY <1>1, <1>5, <1>6, <1>8, <1>11, <2>1 DEF TypeOK, phones, counters, history
<1>13. Body(row) = Body(req[r]) /\ Body(q) = Body(req[r])
  BY <1>5, <1>7 DEF Body
<1>14. Sent' \subseteq Sent
  <2>1. \A i \in DOMAIN orders' : Body(orders'[i]) \in Sent
    BY <1>1, <1>8, <1>9, <1>13, SentTypes
  <2>2. \A s \in Requests : req'[s] # Free => Body(req'[s]) \in Sent
    BY <1>1, <1>10, <1>13, SentTypes
  <2> QED BY <2>1, <2>2 DEF Sent
<1>15. CartsApart' /\ KeysDrawn' /\ SentApart' /\ SentFromCart'
  BY <1>11, <1>14, NothingSent DEF phones, counters
<1>16. AwaitsItsOwn'
  BY <1>1, <1>5, <1>10, <1>11 DEF PageInvariant, AwaitsItsOwn, phones
<1>17. ClearedWasOrdered'
  BY <1>2, <1>8, <1>11 DEF PageInvariant, ClearedWasOrdered, Ordered, history
<1>18. req[r].last = Len(orders)
  <2>1. req[r].last <= Len(orders)
    BY <1>1 DEF ServerInvariant, TriesHaveRivals
  <2>2. ~ (req[r].last < Len(orders))
    <3> SUFFICES ASSUME req[r].last < Len(orders) PROVE FALSE
      OBVIOUS
    <3>1. req[r].last + 1 \in DOMAIN orders
      BY <1>2
    <3>2. orders[req[r].last + 1].number = req[r].last + 1
      BY <3>1 DEF ServerInvariant, NumbersHaveNoGaps
    <3> QED BY <3>1, <3>2 DEF Insert, NumberTaken
  <2> QED BY <1>2, <2>1, <2>2
<1>19. NumbersHaveNoGaps'
  BY <1>7, <1>8, <1>9, <1>18 DEF ServerInvariant, NumbersHaveNoGaps
<1>20. \A i \in DOMAIN orders : orders[i].key # req[r].key
  <2> SUFFICES ASSUME NEW i \in DOMAIN orders, orders[i].key = req[r].key PROVE FALSE
    OBVIOUS
  <2>1. Body(orders[i]) \in Sent /\ Body(req[r]) \in Sent
    BY <1>1, SentTypes
  <2>2. Body(orders[i]).key = Body(req[r]).key
    BY DEF Body
  <2>3. Body(orders[i]).session = Body(req[r]).session
    BY <2>1, <2>2 DEF PageInvariant, SentApart
  <2>4. orders[i].session = req[r].session
    BY <2>3 DEF Body
  <2> QED BY <2>4 DEF Insert, KeyTaken
<1>21. OneOrderForAKey'
  BY <1>2, <1>7, <1>8, <1>9, <1>20 DEF ServerInvariant, OneOrderForAKey
<1>22. OkMeansOrdered'
  <2> SUFFICES ASSUME NEW s \in Requests, req'[s].stage = "answer", req'[s].answer = "ok"
               PROVE  \E i \in DOMAIN orders' : orders'[i].key = req'[s].key
    BY DEF OkMeansOrdered, At
  <2>1. CASE s = r
    BY <1>2, <1>5, <1>7, <1>8, <1>10, <2>1
  <2>2. CASE s # r
    <3>1. PICK i \in DOMAIN orders : orders[i].key = req[s].key
      BY <1>10, <2>2 DEF ServerInvariant, OkMeansOrdered, At
    <3> QED BY <1>2, <1>8, <1>10, <2>2, <3>1
  <2> QED BY <2>1, <2>2
<1>23. TriesHaveRivals'
  <2> SUFFICES ASSUME NEW s \in Requests
               PROVE  /\ req'[s].stage = "insert" =>
                           req'[s].tries <= req'[s].last /\ req'[s].last <= Len(orders')
                      /\ req'[s] # Free => req'[s].tries <= Len(orders')
    BY DEF TriesHaveRivals, At
  <2>1. CASE s = r
    BY <1>2, <1>5, <1>8, <1>10, <2>1
  <2>2. CASE s # r
    <3>1. /\ req[s].stage = "insert" => req[s].tries <= req[s].last /\ req[s].last <= Len(orders)
          /\ req[s] # Free => req[s].tries <= Len(orders)
      BY DEF ServerInvariant, TriesHaveRivals, At
    <3>2. req[s].stage = "insert" => req[s] # Free
      BY DEF Free
    <3>3. req[s] # Free => req[s].tries \in Nat /\ req[s].last \in Nat
      BY <1>1, AtWork DEF Submissions
    <3> QED BY <1>2, <1>8, <1>10, <2>2, <3>1, <3>2, <3>3
  <2> QED BY <2>1, <2>2
<1>24. FailsOnlyForRivals'
  <2>1. \A s \in Requests : At(s, "answer")' /\ req'[s].answer = "order_failed" =>
            s # r /\ At(s, "answer") /\ req[s].answer = "order_failed"
    BY <1>5, <1>10 DEF At
  <2> QED BY <1>2, <1>8, <2>1 DEF ServerInvariant, FailsOnlyForRivals
<1>25. PassedTogether'
  <2>1. Passed' = Passed \ {r}
    BY <1>5, <1>10 DEF Passed
  <2>2. Cardinality(Passed') = Cardinality(Passed) - 1
    BY <1>1, <2>1, FiniteTables, FS_RemoveElement
  <2>4. open' = open + 1 /\ revived' = revived
    BY DEF Insert
  <2>5. PassedTogether
    BY DEF ServerInvariant
  <2> QED BY <1>1, <2>2, <2>4, <2>5, FiniteTables DEF PassedTogether
<1> QED BY <1>12, <1>15, <1>16, <1>17, <1>19, <1>21, <1>22, <1>23, <1>24, <1>25
        DEF InductiveInvariant

-----------------------------------------------------------------------------
(* Answers and deaths *)

\* The end of a submission leaves the server's half as it is.
LEMMA RequestGone ==
    ASSUME InductiveInvariant, NEW r \in Requests, req' = [req EXCEPT ![r] = Free], UNCHANGED server
    PROVE  ServerInvariant' /\ Sent' \subseteq Sent
<1> USE Halves
<1>1. \A s \in Requests : req'[s] = IF s = r THEN Free ELSE req[s]
  BY DEF TypeOK
<1>2. Sent' \subseteq Sent
  BY <1>1 DEF Sent, server
<1>3. NumbersHaveNoGaps' /\ OneOrderForAKey' /\ OkMeansOrdered' /\ TriesHaveRivals' /\ FailsOnlyForRivals'
  BY <1>1 DEF ServerInvariant, NumbersHaveNoGaps, OneOrderForAKey, OkMeansOrdered,
              TriesHaveRivals, FailsOnlyForRivals, At, Free, server
<1>4. PassedTogether'
  <2>1. Passed' \subseteq Passed /\ open' = open /\ revived' = revived
    BY <1>1 DEF Passed, Free, server
  <2>2. Cardinality(Passed') \in Nat /\ Cardinality(Passed') <= Cardinality(Passed)
    BY <2>1, FiniteTables, FS_Subset, FS_CardinalityType
  <2>3. PassedTogether
    BY DEF ServerInvariant
  <2> QED BY <2>1, <2>2, <2>3, FiniteTables DEF PassedTogether
<1> QED BY <1>2, <1>3, <1>4 DEF ServerInvariant

LEMMA RequestEndsKeepsIt ==
    ASSUME InductiveInvariant, NEW r \in Requests, AnswerDropped(r) \/ Dies(r)
    PROVE  InductiveInvariant'
<1> USE Halves
<1>1. req' = [req EXCEPT ![r] = Free] /\ UNCHANGED <<server, phones, counters, history>>
  BY DEF AnswerDropped, Dies
<1>2. TypeOK'
  BY <1>1 DEF TypeOK, server, phones, counters, history
<1>3. ServerInvariant' /\ Sent' \subseteq Sent
  BY <1>1, RequestGone
<1>4. CartsApart' /\ KeysDrawn' /\ SentApart' /\ SentFromCart'
  BY <1>1, <1>3, NothingSent DEF phones, counters
<1>5. AwaitsItsOwn'
  BY <1>1 DEF TypeOK, PageInvariant, AwaitsItsOwn, phones
<1>6. ClearedWasOrdered'
  BY <1>1 DEF PageInvariant, ClearedWasOrdered, Ordered, server, history
<1> QED BY <1>2, <1>3, <1>4, <1>5, <1>6 DEF InductiveInvariant, ServerInvariant

\* The order a good answer stands for covers the cart it clears.
LEMMA AnswerHeardKeepsIt ==
    ASSUME InductiveInvariant, NEW r \in Requests, AnswerHeard(r)
    PROVE  InductiveInvariant'
<1> USE Halves
<1> DEFINE p == req[r].phone
           ok == req[r].answer = "ok"
<1>1. TypeOK /\ req[r] \in Submissions /\ req[r] # Free /\ At(r, "answer")
  BY AtWork DEF AnswerHeard, Stages
<1>2. p \in Phones /\ awaited[p] = r /\ req[r].key = key[p]
  BY <1>1 DEF AnswerHeard, Submissions, PageInvariant, AwaitsItsOwn
<1>3. /\ req' = [req EXCEPT ![r] = Free]
      /\ awaited' = [awaited EXCEPT ![p] = None]
      /\ key' = IF ok THEN [key EXCEPT ![p] = None] ELSE key
      /\ cart' = IF ok THEN [cart EXCEPT ![p] = {}] ELSE cart
      /\ wiped' = IF ok THEN wiped \cup cart[p] ELSE wiped
      /\ page' = page \/ page' = [page EXCEPT ![p] = "expired"]
      /\ UNCHANGED <<server, session, counters, tapped, late, adrift>>
  BY DEF AnswerHeard
<1>4. ok => \E i \in DOMAIN orders : orders[i].key = key[p]
  BY <1>1, <1>2 DEF ServerInvariant, OkMeansOrdered
<1> HIDE DEF p, ok
<1>5. TypeOK'
  BY <1>1, <1>2, <1>3 DEF TypeOK, server, counters
<1>6. ServerInvariant' /\ Sent' \subseteq Sent
  BY <1>3, RequestGone
<1>7. \A x \in Phones : /\ cart'[x] = cart[x] \/ cart'[x] = {}
                        /\ key'[x] = key[x] \/ (key'[x] = None /\ cart'[x] = {})
                        /\ x # p => cart'[x] = cart[x] /\ key'[x] = key[x]
  BY <1>1, <1>2, <1>3 DEF TypeOK
<1>8. CartsApart'
  <2>1. wiped' \subseteq tapped' /\ tapped' = tapped
    BY <1>2, <1>3 DEF PageInvariant, CartsApart
  <2>2. \A x \in Phones : cart'[x] \subseteq tapped' \ wiped'
    <3> SUFFICES ASSUME NEW x \in Phones PROVE cart'[x] \subseteq tapped' \ wiped'
      OBVIOUS
    <3>1. cart[x] \subseteq tapped \ wiped /\ (x # p => cart[x] \cap cart[p] = {})
      BY <1>2 DEF PageInvariant, CartsApart
    <3>2. ok /\ x = p => cart'[x] = {}
      BY <1>1, <1>2, <1>3 DEF TypeOK
    <3> QED BY <1>3, <1>7, <2>1, <3>1, <3>2
  <2> QED BY <1>7, <2>1, <2>2 DEF PageInvariant, CartsApart
<1>9. KeysDrawn'
  BY <1>3, <1>7 DEF PageInvariant, KeysDrawn, counters
<1>10. SentApart'
  BY <1>3, <1>6 DEF PageInvariant, SentApart, counters
<1>11. SentFromCart'
  <2> SUFFICES ASSUME NEW x \in Phones, NEW m \in Sent
               PROVE  /\ m.key = key'[x] => m.session = session[x] /\ cart'[x] \subseteq m.dishes \cup late
                      /\ m.key # key'[x] => m.dishes \cap cart'[x] \subseteq adrift
    BY <1>3, <1>6 DEF SentFromCart
  <2>1. /\ m.key = key[x] => m.session = session[x] /\ cart[x] \subseteq m.dishes \cup late
        /\ m.key # key[x] => m.dishes \cap cart[x] \subseteq adrift
    BY DEF PageInvariant, SentFromCart
  <2>2. m.key # None
    BY <1>1, SentTypes
  <2> QED BY <1>7, <2>1, <2>2
<1>12. AwaitsItsOwn'
  <2> SUFFICES ASSUME NEW x \in Phones, NEW s \in Requests, awaited'[x] = s, req'[s] # Free
               PROVE  req'[s].phone = x /\ req'[s].key = key'[x]
    BY DEF AwaitsItsOwn
  <2>1. x # p /\ awaited[x] = s
    BY <1>1, <1>2, <1>3 DEF TypeOK
  <2>2. s # r /\ req'[s] = req[s]
    BY <1>1, <1>3 DEF TypeOK
  <2> QED BY <1>7, <2>1, <2>2 DEF PageInvariant, AwaitsItsOwn
<1>13. ClearedWasOrdered'
  <2> SUFFICES ASSUME NEW d \in wiped' PROVE Ordered(d) \/ d \in late
    BY <1>3 DEF ClearedWasOrdered, Ordered, server
  <2>1. CASE d \in wiped
    BY <2>1 DEF PageInvariant, ClearedWasOrdered
  <2>2. CASE d \notin wiped
    <3>1. ok /\ d \in cart[p]
      BY <1>3, <2>2
    <3>2. PICK i \in DOMAIN orders : orders[i].key = key[p]
      BY <1>4, <3>1
    <3>3. Body(orders[i]) \in Sent /\ Body(orders[i]).key = key[p]
      BY <1>1, <3>2, SentTypes DEF Body
    <3>4. cart[p] \subseteq Body(orders[i]).dishes \cup late
      BY <1>2, <3>3 DEF PageInvariant, SentFromCart
    <3> QED BY <3>1, <3>4 DEF Body, Ordered
  <2> QED BY <2>1, <2>2
<1> QED BY <1>5, <1>6, <1>8, <1>9, <1>10, <1>11, <1>12, <1>13
        DEF InductiveInvariant, ServerInvariant

-----------------------------------------------------------------------------
(* The theorems *)

\* Every step of the pages, the handler, the desk, the clock and the admin
\* keeps the inductive invariant.
LEMMA NextKeepsIt == InductiveInvariant /\ [Next]_vars => InductiveInvariant'
<1> SUFFICES ASSUME InductiveInvariant, [Next]_vars PROVE InductiveInvariant'
  OBVIOUS
<1>1. ASSUME NEW p \in Phones, Page(p) PROVE InductiveInvariant'
  BY <1>1, AddKeepsIt, SubmitKeepsIt, GiveUpKeepsIt, ReloadKeepsIt, RescanKeepsIt, NoticeEndKeepsIt
     DEF Page
<1>2. ASSUME NEW r \in Requests, Handle(r) PROVE InductiveInvariant'
  BY <1>2, CheckSessionKeepsIt, LookForReplayKeepsIt, CountRecentKeepsIt, CountOpenKeepsIt,
     ReadMenuKeepsIt, ReadNumberKeepsIt, InsertKeepsIt, InsertReplaysKeepsIt,
     InsertCollidesKeepsIt, RequestEndsKeepsIt, AnswerHeardKeepsIt
     DEF Handle
<1>3. ASSUME NEW r \in Requests, Dies(r) PROVE InductiveInvariant'
  BY <1>3, RequestEndsKeepsIt
<1>4. CASE Leave \/ Revive
  BY <1>4, DeskKeepsIt
<1>5. ASSUME NEW i \in recent, Age(i) PROVE InductiveInvariant'
  BY <1>5, AgeKeepsIt
<1>6. ASSUME NEW s \in 1..lastSession, EndSession(s) PROVE InductiveInvariant'
  BY <1>6, EndSessionKeepsIt
<1>7. CASE UNCHANGED vars
  <2>1. TypeOK'
    BY <1>7, Halves DEF vars, TypeOK
  <2> QED BY <1>7, <2>1, BystanderKeepsIt DEF vars, counters, history
<1> QED BY <1>1, <1>2, <1>3, <1>4, <1>5, <1>6, <1>7 DEF Next

\* The invariant the other theorems follow from.
THEOREM Invariance == Spec => []InductiveInvariant
BY InitInvariant, NextKeepsIt, PTL DEF Spec

\* Type correctness of the page and of POST /api/orders.
THEOREM TypeCorrect == Spec => []TypeOK
<1>1. InductiveInvariant => TypeOK
  BY DEF InductiveInvariant
<1> QED BY <1>1, Invariance, PTL

\* createOrderWithNextNumber: no two orders share a ticket number, and none is
\* skipped, however many submissions are at work.
THEOREM NumbersHaveNoGapsHolds == Spec => []NumbersHaveNoGaps
<1>1. InductiveInvariant => NumbersHaveNoGaps
  BY DEF InductiveInvariant
<1> QED BY <1>1, Invariance, PTL

\* Two orders have different keys, so what they have in common is adrift.
LEMMA OrdersApart == InductiveInvariant => OrderedOnceUnlessAdrift
<1> SUFFICES ASSUME InductiveInvariant, NEW i \in DOMAIN orders, NEW j \in DOMAIN orders, i # j
             PROVE  orders[i].dishes \cap orders[j].dishes \subseteq adrift
  BY DEF OrderedOnceUnlessAdrift
<1>1. Body(orders[i]) \in Sent /\ Body(orders[j]) \in Sent
  BY SentTypes DEF InductiveInvariant
<1>2. orders[i].key # orders[j].key
  BY DEF InductiveInvariant, OneOrderForAKey
<1>3. Body(orders[i]).key # Body(orders[j]).key
  BY <1>2 DEF Body
<1>4. Body(orders[i]).dishes \cap Body(orders[j]).dishes \subseteq adrift
  BY <1>1, <1>3 DEF InductiveInvariant, SentApart
<1> QED BY <1>4 DEF Body

\* submitOrder and the (sessionId, idempotencyKey) index: a dish of a cart is
\* ordered once, unless the page was left while it held a key.
THEOREM OrderedOnceHolds == Spec => []OrderedOnceUnlessAdrift
BY OrdersApart, Invariance, PTL

\* submitOrder: the cart is cleared only of what has been ordered, and of what
\* was put into it after it was first submitted.
THEOREM ClearedWasOrderedHolds == Spec => []ClearedWasOrdered
<1>1. InductiveInvariant => ClearedWasOrdered
  BY DEF InductiveInvariant
<1> QED BY <1>1, Invariance, PTL

\* The cap on open orders, counted first and passed together, is exceeded by
\* fewer orders than there are submissions at work.
THEOREM OpenOrdersBoundedHolds == Spec => []OpenOrdersBounded
<1>1. InductiveInvariant => OpenOrdersBounded
  BY FiniteTables DEF InductiveInvariant, PassedTogether, OpenOrdersBounded
<1> QED BY <1>1, Invariance, PTL

\* createOrderWithNextNumber gives up only when other orders took the number
\* it was about to take at every attempt.
THEOREM FailsOnlyForRivalsHolds == Spec => []FailsOnlyForRivals
<1>1. InductiveInvariant => FailsOnlyForRivals
  BY DEF InductiveInvariant
<1> QED BY <1>1, Invariance, PTL

-----------------------------------------------------------------------------
(* OrderPlacement implements OrderBook *)

\* The page of the book with number n is the n-th order.
LEMMA PagesAreOrders ==
    ASSUME NEW list \in Seq(Orders), \A i \in DOMAIN list : list[i].number = i,
           NEW n \in 1..Len(list)
    PROVE  UNION {list[i].dishes : i \in {j \in DOMAIN list : list[j].number = n}}
             = list[n].dishes
<1>1. {j \in DOMAIN list : list[j].number = n} = {n}
  OBVIOUS
<1>2. {list[i].dishes : i \in {n}} = {list[n].dishes}
  OBVIOUS
<1> QED BY <1>1, <1>2

LEMMA BookOfOrders ==
    ASSUME TypeOK, NumbersHaveNoGaps
    PROVE  /\ Pages = [n \in 1..Len(orders) |-> orders[n].dishes]
           /\ \A d : Book!InBook(d) <=> Ordered(d)
<1>1. Pages = [n \in 1..Len(orders) |-> orders[n].dishes]
  BY PagesAreOrders DEF Pages, TypeOK, NumbersHaveNoGaps
<1>2. DOMAIN orders = 1..Len(orders)
  BY DEF TypeOK
<1> QED BY <1>1, <1>2 DEF Book!InBook, Ordered

\* A page that is loaded again drifts.
LEMMA LoadDrifts ==
    ASSUME InductiveInvariant, NEW p \in Phones, Load(p), UNCHANGED orders
    PROVE  Book!Next
<1> DEFINE lost == IF key[p] = None THEN {} ELSE cart[p]
<1>1. cart[p] \in SUBSET Dishes /\ lost \in SUBSET Dishes
  BY DEF InductiveInvariant, TypeOK
<1>2. cart[p] \cap wiped = {}
  BY DEF InductiveInvariant, CartsApart
<1>3. adrift' = adrift \cup lost /\ late' = late \ cart[p] /\ wiped' = wiped
  BY DEF Load
<1>4. Pages' = Pages
  BY DEF Pages
<1>5. Book!Drift(cart[p], lost)
  BY <1>2, <1>3, <1>4 DEF Book!Drift
<1> QED BY <1>1, <1>5 DEF Book!Next

\* A committed order is the book's next page.
LEMMA InsertTakes ==
    ASSUME InductiveInvariant, InductiveInvariant', NEW r \in Requests, Insert(r)
    PROVE  Book!Next
<1> DEFINE row == [session |-> req[r].session, key |-> req[r].key,
                   dishes |-> req[r].dishes, number |-> req[r].last + 1]
<1>1. /\ orders \in Seq(Orders) /\ row \in Orders /\ row.dishes \in SUBSET Dishes
      /\ orders' = Append(orders, row)
  <2>1. req[r] \in Submissions
    BY AtWork DEF InductiveInvariant, Insert, Stages
  <2> QED BY <2>1 DEF InductiveInvariant, TypeOK, Insert, Submissions, Orders
<1> HIDE DEF row
<1>2. Pages = [n \in 1..Len(orders) |-> orders[n].dishes]
  BY BookOfOrders DEF InductiveInvariant
<1>3. Pages' = [n \in 1..Len(orders') |-> orders'[n].dishes]
  <2>1. orders' \in Seq(Orders) /\ \A i \in DOMAIN orders' : orders'[i].number = i
    BY DEF InductiveInvariant, TypeOK, NumbersHaveNoGaps
  <2> QED BY <2>1, PagesAreOrders DEF Pages
<1>4. Pages' = Append(Pages, row.dishes)
  BY <1>1, <1>2, <1>3 DEF Orders
<1>5. OrderedOnceUnlessAdrift'
  BY OrdersApart, PTL
<1>6. \A n \in DOMAIN Pages : Pages[n] \cap row.dishes \subseteq adrift
  <2> SUFFICES ASSUME NEW n \in 1..Len(orders)
               PROVE  orders[n].dishes \cap row.dishes \subseteq adrift
    BY <1>2
  <2>1. orders'[n] = orders[n] /\ orders'[Len(orders) + 1] = row
    BY <1>1
  <2>2. n \in DOMAIN orders' /\ Len(orders) + 1 \in DOMAIN orders' /\ n # Len(orders) + 1
    BY <1>1
  <2>3. adrift' = adrift
    BY DEF Insert, history
  <2> QED BY <1>5, <2>1, <2>2, <2>3 DEF OrderedOnceUnlessAdrift
<1>7. Book!Take(row.dishes)
  BY <1>4, <1>6 DEF Book!Take, Insert, history
<1> QED BY <1>1, <1>7 DEF Book!Next

\* An answer that is heard clears what is in the book, or nothing.
LEMMA AnswerClears ==
    ASSUME InductiveInvariant, InductiveInvariant', NEW r \in Requests, AnswerHeard(r)
    PROVE  Book!Next \/ UNCHANGED Book!vars
<1> DEFINE p == req[r].phone
<1>1. UNCHANGED <<orders, late, adrift>> /\ Pages' = Pages
  BY DEF AnswerHeard, server, Pages
<1>2. CASE req[r].answer # "ok"
  BY <1>1, <1>2 DEF AnswerHeard, Book!vars
<1>3. CASE req[r].answer = "ok"
  <2>1. p \in Phones
    BY AtWork DEF InductiveInvariant, AnswerHeard, Stages, Submissions
  <2>2. wiped' = wiped \cup cart[p] /\ cart[p] \in SUBSET Dishes /\ cart[p] \cap wiped = {}
    BY <1>3, <2>1 DEF AnswerHeard, InductiveInvariant, TypeOK, CartsApart
  <2>3. \A d \in cart[p] : Ordered(d) \/ d \in late
    BY <1>1, <2>2 DEF InductiveInvariant, ClearedWasOrdered, Ordered
  <2>4. \A d : Book!InBook(d) <=> Ordered(d)
    BY BookOfOrders DEF InductiveInvariant
  <2>5. Book!Clear(cart[p])
    BY <1>1, <2>2, <2>3, <2>4 DEF Book!Clear
  <2> QED BY <2>2, <2>5 DEF Book!Next
<1> QED BY <1>2, <1>3

\* A dish that is added to a cart that was submitted is late, and new.
LEMMA AddIsLate ==
    ASSUME InductiveInvariant, NEW p \in Phones, NEW d \in Dishes, Add(p, d)
    PROVE  Book!Next \/ UNCHANGED Book!vars
<1>1. UNCHANGED <<orders, wiped, adrift>> /\ Pages' = Pages
  BY DEF Add, server, Pages
<1>2. d \notin wiped /\ ~Ordered(d)
  <2>1. d \notin tapped
    BY DEF Add
  <2>2. \A i \in DOMAIN orders : orders[i].dishes \subseteq tapped
    <3> SUFFICES ASSUME NEW i \in DOMAIN orders PROVE orders[i].dishes \subseteq tapped
      OBVIOUS
    <3>1. Body(orders[i]) \in Sent
      BY SentTypes DEF InductiveInvariant
    <3> QED BY <3>1 DEF InductiveInvariant, SentApart, Body
  <2> QED BY <2>1, <2>2 DEF InductiveInvariant, CartsApart, Ordered
<1>3. ~Book!InBook(d)
  BY <1>2, BookOfOrders DEF InductiveInvariant
<1>4. CASE key[p] = None
  BY <1>1, <1>4 DEF Add, Book!vars
<1>5. CASE key[p] # None
  <2>1. Book!AddLate(d)
    BY <1>1, <1>2, <1>3, <1>5 DEF Add, Book!AddLate
  <2> QED BY <2>1 DEF Book!Next
<1> QED BY <1>4, <1>5

\* Every other step leaves the book and its exceptions alone.
LEMMA OthersStutter == UNCHANGED <<orders, late, adrift, wiped>> => UNCHANGED Book!vars
BY DEF Book!vars, Pages

\* Every step of OrderPlacement is a step of OrderBook, or none of its business.
LEMMA StepsOfBook ==
    InductiveInvariant /\ InductiveInvariant' /\ [Next]_vars => Book!Next \/ UNCHANGED Book!vars
<1> SUFFICES ASSUME InductiveInvariant, InductiveInvariant', [Next]_vars
             PROVE  Book!Next \/ UNCHANGED Book!vars
  OBVIOUS
<1>1. ASSUME NEW p \in Phones, Page(p) PROVE Book!Next \/ UNCHANGED Book!vars
  <2>1. CASE Reload(p) \/ Rescan(p)
    BY <2>1, LoadDrifts DEF Reload, Rescan, server
  <2>2. CASE GiveUp(p) \/ NoticeEnd(p) \/ \E r \in Requests : Submit(p, r)
    BY <2>2, OthersStutter DEF GiveUp, NoticeEnd, Submit, server, history
  <2> QED BY <1>1, <2>1, <2>2, AddIsLate DEF Page
<1>2. ASSUME NEW r \in Requests, Handle(r) PROVE Book!Next \/ UNCHANGED Book!vars
  <2>1. CASE Insert(r)
    BY <2>1, InsertTakes
  <2>2. CASE AnswerHeard(r)
    BY <2>2, AnswerClears
  <2>3. CASE ~Insert(r) /\ ~AnswerHeard(r)
    BY <1>2, <2>3, OthersStutter
       DEF Handle, CheckSession, LookForReplay, CountRecent, CountOpen, ReadMenu, ReadNumber,
           InsertReplays, InsertCollides, AnswerDropped, server, history
  <2> QED BY <2>1, <2>2, <2>3
<1>3. CASE \E r \in Requests : Dies(r)
  BY <1>3, OthersStutter DEF Dies, server, history
<1>4. CASE Leave \/ Revive \/ (\E i \in recent : Age(i))
           \/ \E s \in 1..lastSession : EndSession(s)
  BY <1>4, OthersStutter DEF Leave, Revive, Age, EndSession, history
<1>5. CASE UNCHANGED vars
  BY <1>5, OthersStutter DEF vars
<1> QED BY <1>1, <1>2, <1>3, <1>4, <1>5 DEF Next

\* The page and POST /api/orders implement the promise of OrderBook: the next
\* number, a page never rewritten, a dish ordered once, a cart cleared of what
\* is in the book.
THEOREM ImplementsOrderBook == Spec => KeepsOrderBook
<1>1. Init => Book!Init
  BY DEF Init, Book!Init, Pages
<1>2. InductiveInvariant /\ InductiveInvariant' /\ [Next]_vars => [Book!Next]_(Book!vars)
  BY StepsOfBook
<1> QED BY <1>1, <1>2, Invariance, PTL DEF Spec, Book!Spec, KeepsOrderBook
=============================================================================
