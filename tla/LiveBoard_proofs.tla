-------------------------- MODULE LiveBoard_proofs --------------------------
(***************************************************************************)
(* Theorems about LiveBoard, for any number of changes, loads and faults.  *)
(***************************************************************************)
EXTENDS LiveBoard, TLAPS

USE BoundsAssumption

-----------------------------------------------------------------------------
(* Loading again *)

LEMMA ReloadSends ==
    ASSUME TypeOK, NEW V \in SUBSET Views, Reload(V)
    PROVE  /\ load' \in [Views -> [Slots -> Versions \union {Free, Sent}]]
           /\ \A v \in V : \E i \in Slots : load'[v][i] = Sent
           /\ \A v \in Views, i \in Slots :
                 load'[v][i] = load[v][i] \/ (load[v][i] = Free /\ load'[v][i] = Sent)
<1>1. ASSUME NEW v \in V PROVE FreeSlot(v) \in Slots /\ load[v][FreeSlot(v)] = Free
  <2>1. \E i \in Slots : load[v][i] = Free
    BY DEF Reload, Room
  <2> QED BY <2>1 DEF FreeSlot
<1>2. \A v \in Views : load[v] \in [Slots -> Versions \union {Free, Sent}]
  BY DEF TypeOK
<1>3. \A v \in Views : load'[v] = IF v \in V THEN [load[v] EXCEPT ![FreeSlot(v)] = Sent] ELSE load[v]
  BY DEF Reload
<1>4. \A v \in Views : load'[v] \in [Slots -> Versions \union {Free, Sent}]
  BY <1>2, <1>3
<1>5. load' \in [Views -> [Slots -> Versions \union {Free, Sent}]]
  BY <1>4 DEF Reload
<1>6. \A v \in V : load'[v][FreeSlot(v)] = Sent
  BY <1>1, <1>2, <1>3
<1> HIDE DEF FreeSlot
<1>7. ASSUME NEW v \in Views, NEW i \in Slots
      PROVE  load'[v][i] = load[v][i] \/ (load[v][i] = Free /\ load'[v][i] = Sent)
  BY <1>1, <1>2, <1>3
<1> QED BY <1>1, <1>5, <1>6, <1>7

\* A load brings hope, and takes none away.
LEMMA ReloadHopes ==
    ASSUME InductiveInvariant, NEW V \in SUBSET Views, Reload(V), UNCHANGED <<shown, ver>>
    PROVE  /\ NotAhead'
           /\ \A v \in V : Hope(v)'
           /\ \A v \in Views : (\E i \in Slots : load[v][i] \in {Sent, ver[v]}) =>
                                  (\E i \in Slots : load'[v][i] \in {Sent, ver'[v]})
           /\ \A v \in Views : (\E i \in Slots : load[v][i] # Free) =>
                                  (\E i \in Slots : load'[v][i] # Free)
<1>1. TypeOK
  BY DEF InductiveInvariant
<1>2. NotAhead'
  <2> SUFFICES ASSUME NEW v \in Views
               PROVE  shown'[v] <= ver'[v] /\ \A i \in Slots : load'[v][i] <= ver'[v]
    BY DEF NotAhead
  <2>1. ver[v] \in Nat
    BY <1>1 DEF TypeOK, Versions
  <2> QED BY <1>1, <2>1, ReloadSends DEF InductiveInvariant, NotAhead, Sent
<1>3. \A v \in V : Hope(v)'
  BY <1>1, ReloadSends DEF Hope
<1>4. \A v \in Views, i \in Slots : load[v][i] # Free => load'[v][i] = load[v][i]
  BY <1>1, ReloadSends
<1>5. \A v \in Views : ver[v] # Free
  BY <1>1 DEF TypeOK, Versions, Free
<1>6. Sent # Free
  BY DEF Sent, Free
<1> QED BY <1>2, <1>3, <1>4, <1>5, <1>6

LEMMA AboutViews ==
    /\ \A k \in Announced \union {"print"} : About(k) \subseteq Views
    /\ \A k \in Announced : About(k) \subseteq Reloads(k) /\ Reloads(k) \subseteq Views
    /\ "bill" \in Announced /\ "order" \in Announced /\ About("bill") = {"bills"}
    /\ About("order") = Views /\ About("print") = {"orders"}
BY DEF Announced, About, Views, Reloads

\* What each step has to show of a view that is not excused.
Told(v) == shown[v] = ver[v] \/ Hope(v)

-----------------------------------------------------------------------------
(* The server *)

LEMMA CommitHopes ==
    ASSUME InductiveInvariant, NEW k \in Announced \union {"print"}, Commit(k),
           UNCHANGED <<shown, load, inbox, loadError>>, press'.button = press.button
    PROVE  /\ ver' \in [Views -> Versions] /\ pub' \in [Announced -> Nat] /\ excused' \subseteq Views
           /\ NotAhead'
           /\ \A v \in Views \ excused' : Told(v)'
<1>1. ver' \in [Views -> Versions] /\ pub' \in [Announced -> Nat] /\ excused' \subseteq Views
  BY AboutViews DEF Commit, InductiveInvariant, TypeOK, Versions
<1>2. \A v \in Views : /\ ver[v] \in Nat
                       /\ ver'[v] = IF v \in About(k) THEN ver[v] + 1 ELSE ver[v]
  BY DEF Commit, InductiveInvariant, TypeOK, Versions
<1>3. NotAhead'
  <2> SUFFICES ASSUME NEW v \in Views
               PROVE  shown[v] <= ver'[v] /\ \A i \in Slots : load[v][i] <= ver'[v]
    BY DEF NotAhead
  <2>1. /\ shown[v] <= ver[v] /\ shown[v] \in Int
        /\ \A i \in Slots : load[v][i] <= ver[v] /\ load[v][i] \in Int
    BY DEF InductiveInvariant, NotAhead, TypeOK, Versions, Free, Sent, Guess
  <2> QED BY <1>2, <2>1
<1>4. ASSUME NEW v \in Views \ excused' PROVE Told(v)'
  <2>1. CASE v \in About(k)
    <3>1. k \in Announced
      BY <1>4, <2>1 DEF Commit
    <3>2. pub'[k] > 0
      BY <3>1 DEF Commit, InductiveInvariant, TypeOK
    <3> QED BY <2>1, <3>1, <3>2 DEF Told, Hope
  <2>2. CASE v \notin About(k)
    <3>1. v \notin excused /\ (shown[v] = ver[v] \/ Hope(v))
      BY <1>4 DEF Commit, InductiveInvariant
    <3>2. \A a \in Announced : pub[a] > 0 => pub'[a] > 0
      BY DEF Commit, InductiveInvariant, TypeOK
    <3>3. ver'[v] = ver[v]
      BY <1>2, <2>2
    <3> QED BY <3>1, <3>2, <3>3 DEF Told, Hope
  <2> QED BY <2>1, <2>2
<1> QED BY <1>1, <1>3, <1>4

LEMMA ChangeKeepsIt ==
    ASSUME InductiveInvariant, NEW k \in Announced \union {"print"}, Change(k)
    PROVE  InductiveInvariant'
<1>1. Commit(k) /\ UNCHANGED <<shown, load, inbox, stream, connected, loadError, press, faults, cut>>
  BY DEF Change
<1>2. TypeOK'
  BY <1>1, CommitHopes DEF InductiveInvariant, TypeOK
<1> QED BY <1>1, <1>2, CommitHopes DEF InductiveInvariant, GuessIsReconciled, Told

LEMMA ServePressKeepsIt ==
    ASSUME InductiveInvariant, ServePress
    PROVE  InductiveInvariant'
<1>0. press \in [button : Buttons \union {"none"},
                 answer : {"none", "waiting", "done", "stale", "refused"}]
  BY DEF InductiveInvariant, TypeOK
<1>1. /\ press'.button = press.button
      /\ press' \in [button : Buttons \union {"none"},
                     answer : {"none", "waiting", "done", "stale", "refused"}]
  BY <1>0 DEF ServePress, Refusals
<1>2. UNCHANGED <<shown, load, inbox, stream, connected, loadError, faults, cut>>
  BY DEF ServePress
<1>3. CASE Commit(Changes(press.button))
  <2>1. Changes(press.button) \in Announced
    BY DEF Changes, Announced
  <2>2. TypeOK'
    BY <1>1, <1>2, <1>3, <2>1, CommitHopes DEF InductiveInvariant, TypeOK
  <2> QED BY <1>1, <1>2, <1>3, <2>1, <2>2, CommitHopes
          DEF InductiveInvariant, GuessIsReconciled, Told
<1>4. CASE UNCHANGED <<ver, pub, excused>>
  <2>1. TypeOK'
    BY <1>1, <1>2, <1>4 DEF InductiveInvariant, TypeOK
  <2> QED BY <1>1, <1>2, <1>4, <2>1
          DEF InductiveInvariant, GuessIsReconciled, NotAhead, Hope
<1> QED BY <1>3, <1>4 DEF ServePress

LEMMA PublishKeepsIt ==
    ASSUME InductiveInvariant, NEW k \in Announced, Publish(k)
    PROVE  InductiveInvariant'
<1>1. UNCHANGED <<ver, shown, load, stream, connected, loadError, press, faults, cut>>
  BY DEF Publish
<1>2. TypeOK'
  BY <1>1, AboutViews DEF Publish, InductiveInvariant, TypeOK
<1>3. \A a \in Announced : pub[a] > 0 => pub'[a] > 0 \/ a = k
  BY DEF Publish, InductiveInvariant, TypeOK
<1>4. \A a \in Announced : inbox[a] > 0 => inbox'[a] > 0
  BY DEF Publish, InductiveInvariant, TypeOK
<1>5. (inbox'[k] > 0 \/ About(k) \subseteq excused') /\ excused \subseteq excused'
  BY DEF Publish, InductiveInvariant, TypeOK
<1>6. ASSUME NEW v \in Views \ excused' PROVE Told(v)'
  <2>1. shown[v] = ver[v] \/ Hope(v)
    BY <1>5, <1>6 DEF InductiveInvariant
  <2> QED BY <1>1, <1>3, <1>4, <1>5, <2>1 DEF Told, Hope
<1> QED BY <1>1, <1>2, <1>6 DEF InductiveInvariant, GuessIsReconciled, NotAhead, Told

LEMMA ServeLoadKeepsIt ==
    ASSUME InductiveInvariant, NEW v \in Views, NEW i \in Slots, ServeLoad(v, i)
    PROVE  InductiveInvariant'
<1>1. UNCHANGED <<ver, shown, pub, inbox, stream, connected, loadError, press, faults, excused, cut>>
  BY DEF ServeLoad
<1>2. ver[v] \in Versions /\ load[v] \in [Slots -> Versions \union {Free, Sent}]
  BY DEF InductiveInvariant, TypeOK
<1>3. \A w \in Views, j \in Slots : load'[w][j] = IF w = v /\ j = i THEN ver[v] ELSE load[w][j]
  BY <1>2 DEF ServeLoad, InductiveInvariant, TypeOK
<1>4. TypeOK'
  BY <1>1, <1>2 DEF ServeLoad, InductiveInvariant, TypeOK
<1>5. NotAhead'
  BY <1>1, <1>2, <1>3 DEF InductiveInvariant, NotAhead, Versions
<1>6. ver[v] # Free
  BY <1>2 DEF Versions, Free
<1>7. GuessIsReconciled'
  <2>1. \A j \in Slots : load["orders"][j] # Free => load'["orders"][j] # Free
    BY <1>3, <1>6 DEF Views
  <2> QED BY <1>1, <2>1 DEF InductiveInvariant, GuessIsReconciled
<1>8. ASSUME NEW w \in Views \ excused' PROVE Told(w)'
  <2>1. shown[w] = ver[w] \/ Hope(w)
    BY <1>1, <1>8 DEF InductiveInvariant
  <2>2. \A j \in Slots : load[w][j] \in {Sent, ver[w]} => load'[w][j] \in {Sent, ver[w]}
    BY <1>3
  <2> QED BY <1>1, <2>1, <2>2 DEF Told, Hope
<1> QED BY <1>4, <1>5, <1>7, <1>8 DEF InductiveInvariant, Told

-----------------------------------------------------------------------------
(* The screen *)

LEMMA ShowKeepsIt ==
    ASSUME InductiveInvariant, NEW v \in Views, NEW i \in Slots, Show(v, i)
    PROVE  InductiveInvariant'
<1>1. /\ UNCHANGED <<ver, pub, inbox, stream, connected, press, faults>>
      /\ (cut' <=> v # "orders" /\ cut) /\ cut' \in BOOLEAN
  BY DEF Show
<1>2. /\ ver \in [Views -> Versions] /\ load[v] \in [Slots -> Versions \union {Free, Sent}]
      /\ load[v][i] \in Versions /\ load[v][i] <= ver[v] /\ shown[v] <= ver[v]
      /\ shown \in [Views -> Versions \union {Guess}]
      /\ loadError \in BOOLEAN
  BY DEF Show, InductiveInvariant, TypeOK, NotAhead
<1>3. \A w \in Views, j \in Slots : load'[w][j] = IF w = v /\ j = i THEN Free ELSE load[w][j]
  BY <1>2 DEF Show, InductiveInvariant, TypeOK
<1>4. \A w \in Views : shown'[w] = IF w = v THEN load[v][i] ELSE shown[w]
  BY <1>2 DEF Show
<1>5. TypeOK'
  BY <1>1, <1>2 DEF Show, InductiveInvariant, TypeOK
<1>6. NotAhead'
  BY <1>1, <1>2, <1>3, <1>4 DEF InductiveInvariant, NotAhead, Versions, Free
<1>7. GuessIsReconciled'
  <2>1. CASE v = "orders"
    BY <1>2, <1>4, <2>1 DEF GuessIsReconciled, Versions, Guess
  <2>2. CASE v # "orders"
    <3>1. \A j \in Slots : load'["orders"][j] = load["orders"][j]
      BY <1>3, <2>2 DEF Views
    <3>2. loadError' = loadError /\ shown'["orders"] = shown["orders"]
      BY <1>2, <1>4, <2>2 DEF Show, Views
    <3>3. press' = press /\ (cut => cut')
      BY <1>1, <2>2
    <3>4. GuessIsReconciled
      BY DEF InductiveInvariant
    <3> QED BY <3>1, <3>2, <3>3, <3>4, Zenon DEF GuessIsReconciled
  <2> QED BY <2>1, <2>2
<1>8. ASSUME NEW w \in Views \ excused' PROVE Told(w)'
  <2>1. CASE w # v
    <3>1. w \notin excused /\ (shown[w] = ver[w] \/ Hope(w))
      BY <1>8, <2>1 DEF Show, InductiveInvariant
    <3>2. \A j \in Slots : load'[w][j] = load[w][j]
      BY <1>3, <2>1
    <3>3. w = "orders" => loadError' = loadError
      BY <1>2, <2>1 DEF Show
    <3> QED BY <1>1, <1>4, <2>1, <3>1, <3>2, <3>3 DEF Told, Hope
  <2>2. CASE w = v /\ load[v][i] = ver[v]
    BY <1>1, <1>4, <2>2 DEF Told
  <2>3. CASE w = v /\ load[v][i] # ver[v]
    <3>1. v \notin excused /\ ~(shown[v] > load[v][i]) /\ ~loadError
      BY <1>8, <2>3 DEF Show
    <3>2. shown[v] # ver[v]
      BY <1>2, <2>3, <3>1 DEF Versions
    <3>3. Hope(v)
      BY <3>1, <3>2 DEF InductiveInvariant
    <3>4. \A j \in Slots : load[v][j] \in {Sent, ver[v]} => load'[v][j] = load[v][j]
      BY <1>2, <1>3, <2>3 DEF Versions, Sent
    <3> QED BY <1>1, <2>3, <3>1, <3>3, <3>4 DEF Told, Hope
  <2> QED BY <2>1, <2>2, <2>3
<1> QED BY <1>5, <1>6, <1>7, <1>8 DEF InductiveInvariant, Told

\* A step that only loads again.
LEMMA LoadsKeepIt ==
    ASSUME InductiveInvariant, NEW V \in SUBSET Views, Reload(V),
           UNCHANGED <<ver, shown, pub, loadError, excused, cut>>,
           TypeOK',
           \A k \in Announced : inbox[k] > 0 => inbox'[k] > 0 \/ About(k) \subseteq V,
           press.button = "move" => press'.button = "move" \/ "orders" \in V
    PROVE  InductiveInvariant'
<1>1. GuessIsReconciled'
  <2>1. "orders" \in V => \E i \in Slots : load'["orders"][i] # Free
    BY ReloadSends DEF InductiveInvariant, Sent, Free
  <2>2. "orders" \in Views
    BY DEF Views
  <2> QED BY <2>1, <2>2, ReloadHopes DEF InductiveInvariant, GuessIsReconciled
<1>2. ASSUME NEW v \in Views \ excused' PROVE Told(v)'
  <2>1. shown[v] = ver[v] \/ Hope(v)
    BY <1>2 DEF InductiveInvariant
  <2>2. CASE v \in V
    BY <2>2, ReloadHopes DEF Told
  <2>3. CASE v \notin V
    BY <2>1, <2>3, ReloadHopes DEF Told, Hope
  <2> QED BY <2>2, <2>3
<1> QED BY <1>1, <1>2, ReloadHopes DEF InductiveInvariant, Told

LEMMA HintKeepsIt ==
    ASSUME InductiveInvariant, NEW k \in Announced, Hint(k)
    PROVE  InductiveInvariant'
<1>1. /\ UNCHANGED <<ver, shown, pub, stream, connected, loadError, press, faults, excused, cut>>
      /\ Reload(Reloads(k)) /\ Reloads(k) \in SUBSET Views /\ About(k) \subseteq Reloads(k)
  BY AboutViews DEF Hint
<1>2. \A a \in Announced : inbox[a] > 0 => inbox'[a] > 0 \/ a = k
  BY DEF Hint, InductiveInvariant, TypeOK
<1>3. TypeOK'
  BY <1>1, ReloadSends DEF Hint, InductiveInvariant, TypeOK
<1> QED BY <1>1, <1>2, <1>3, LoadsKeepIt

LEMMA PollKeepsIt ==
    ASSUME InductiveInvariant, Poll
    PROVE  InductiveInvariant'
<1>1. TypeOK'
  BY ReloadSends DEF Poll, InductiveInvariant, TypeOK
<1> QED BY <1>1, LoadsKeepIt DEF Poll

LEMMA AfterViews ==
    ASSUME NEW b, NEW answer
    PROVE  After(b, answer) \subseteq Views /\ After("move", answer) = {"orders"}
<1>1. After("move", answer) = {"orders"}
  BY DEF After
<1>2. After(b, answer) \in {{"orders"}, {"bills"}, Views, {}}
  BY DEF After
<1> QED BY <1>1, <1>2 DEF Views

LEMMA AnsweredKeepsIt ==
    ASSUME InductiveInvariant, Answered
    PROVE  InductiveInvariant'
<1> DEFINE V == After(press.button, press.answer)
<1>1. V \in SUBSET Views /\ (press.button = "move" => "orders" \in V)
  BY AfterViews
<1>2. NoPress \in [button : Buttons \union {"none"},
                   answer : {"none", "waiting", "done", "stale", "refused"}]
  BY DEF NoPress
<1>3. /\ UNCHANGED <<ver, shown, pub, inbox, stream, connected, loadError, faults, excused, cut>>
      /\ Reload(V) /\ press' = NoPress
  BY DEF Answered
<1> HIDE DEF V
<1>4. TypeOK'
  BY <1>1, <1>2, <1>3, ReloadSends DEF InductiveInvariant, TypeOK
<1> QED BY <1>1, <1>3, <1>4, LoadsKeepIt

LEMMA PressKeepsIt ==
    ASSUME InductiveInvariant, NEW b \in Buttons, Press(b)
    PROVE  InductiveInvariant'
<1>1. /\ UNCHANGED <<ver, load, pub, inbox, stream, connected, loadError, faults, excused>>
      /\ (cut' <=> b # "move" /\ cut) /\ cut' \in BOOLEAN
  BY DEF Press
<1>2. press.button = "none" /\ press'.button = b
  BY DEF Press, NoPress
<1>3. /\ \A v \in Views : shown'[v] = shown[v] \/ (b = "move" /\ v = "orders" /\ shown'[v] = Guess)
      /\ shown' \in [Views -> Versions \union {Guess}]
  BY DEF Press, InductiveInvariant, TypeOK, Views
<1>4. TypeOK'
  BY <1>1, <1>3 DEF Press, InductiveInvariant, TypeOK
<1>5. NotAhead'
  BY <1>1, <1>3 DEF InductiveInvariant, NotAhead, TypeOK, Versions, Guess
<1>6. GuessIsReconciled'
  BY <1>1, <1>2, <1>3 DEF InductiveInvariant, GuessIsReconciled, Views
<1>7. ASSUME NEW v \in Views \ excused' PROVE Told(v)'
  BY <1>1, <1>2, <1>3, <1>7 DEF InductiveInvariant, Told, Hope
<1> QED BY <1>4, <1>5, <1>6, <1>7 DEF InductiveInvariant, Told

-----------------------------------------------------------------------------
(* Faults *)

LEMMA FaultCounts == ASSUME InductiveInvariant, Fault PROVE faults' \in 0..MaxFaults
BY DEF InductiveInvariant, TypeOK, Fault

LEMMA PressLostKeepsIt ==
    ASSUME InductiveInvariant, PressLost
    PROVE  InductiveInvariant'
<1> DEFINE V == After(press.button, "lost")
<1>1. V \in SUBSET Views
  BY AfterViews
<1>2. NoPress \in [button : Buttons \union {"none"},
                   answer : {"none", "waiting", "done", "stale", "refused"}]
  BY DEF NoPress
<1>3. /\ UNCHANGED <<ver, shown, pub, inbox, stream, connected, excused, cut>>
      /\ Reload(V) /\ press' = NoPress /\ faults' \in 0..MaxFaults
      /\ loadError' = (loadError \/ press.button = "move")
  BY FaultCounts DEF PressLost
<1> HIDE DEF V
<1>4. (loadError' <=> loadError \/ press.button = "move") /\ loadError' \in BOOLEAN
  BY <1>3
<1>5. TypeOK'
  BY <1>1, <1>2, <1>3, <1>4, ReloadSends DEF InductiveInvariant, TypeOK
<1>6. GuessIsReconciled'
  BY <1>1, <1>3, <1>4, ReloadHopes DEF InductiveInvariant, GuessIsReconciled, Views
<1>7. ASSUME NEW v \in Views \ excused' PROVE Told(v)'
  <2>1. shown[v] = ver[v] \/ Hope(v)
    BY <1>3, <1>7 DEF InductiveInvariant
  <2> QED BY <1>1, <1>3, <1>4, <2>1, ReloadHopes DEF Told, Hope
<1> QED BY <1>1, <1>3, <1>5, <1>6, <1>7, ReloadHopes DEF InductiveInvariant, Told

LEMMA LoadFailsKeepsIt ==
    ASSUME InductiveInvariant, NEW v \in Views, NEW i \in Slots, LoadFails(v, i)
    PROVE  InductiveInvariant'
<1>1. UNCHANGED <<ver, shown, pub, inbox, stream, connected, press, cut>> /\ faults' \in 0..MaxFaults
  BY FaultCounts DEF LoadFails
<1>2. /\ load' \in [Views -> [Slots -> Versions \union {Free, Sent}]]
      /\ \A w \in Views, j \in Slots : load'[w][j] = IF w = v /\ j = i THEN Free ELSE load[w][j]
  BY DEF LoadFails, InductiveInvariant, TypeOK
<1>3. (loadError' <=> loadError \/ v = "orders") /\ loadError' \in BOOLEAN
  BY DEF LoadFails
<1>4. excused' = IF v = "bills" THEN excused \union {v} ELSE excused
  BY DEF LoadFails
<1>5. TypeOK'
  BY <1>1, <1>2, <1>3, <1>4 DEF InductiveInvariant, TypeOK
<1>6. NotAhead'
  <2>1. \A w \in Views : ver[w] \in Nat
    BY DEF InductiveInvariant, TypeOK, Versions
  <2> QED BY <1>1, <1>2, <2>1 DEF InductiveInvariant, NotAhead, Free
<1>7. GuessIsReconciled'
  <2>1. v # "orders" => \A j \in Slots : load'["orders"][j] = load["orders"][j]
    BY <1>2 DEF Views
  <2> QED BY <1>1, <1>3, <2>1 DEF InductiveInvariant, GuessIsReconciled
<1>8. ASSUME NEW w \in Views \ excused' PROVE Told(w)'
  <2>1. shown[w] = ver[w] \/ Hope(w)
    BY <1>4, <1>8 DEF InductiveInvariant
  <2>2. CASE w = v
    BY <1>3, <1>4, <1>8, <2>2 DEF Views, Told, Hope
  <2>3. CASE w # v
    <3>1. \A j \in Slots : load'[w][j] = load[w][j]
      BY <1>2, <2>3
    <3> QED BY <1>1, <1>3, <2>1, <3>1 DEF Told, Hope
  <2> QED BY <2>2, <2>3
<1> QED BY <1>5, <1>6, <1>7, <1>8 DEF InductiveInvariant, Told

LEMMA LoadCutKeepsIt ==
    ASSUME InductiveInvariant, NEW v \in Views, NEW i \in Slots, LoadCut(v, i)
    PROVE  InductiveInvariant'
<1>1. /\ UNCHANGED <<ver, shown, pub, inbox, stream, connected, loadError, press>>
      /\ faults' \in 0..MaxFaults
  BY FaultCounts DEF LoadCut
<1>2. /\ load' \in [Views -> [Slots -> Versions \union {Free, Sent}]]
      /\ \A w \in Views, j \in Slots : load'[w][j] = IF w = v /\ j = i THEN Free ELSE load[w][j]
  BY DEF LoadCut, InductiveInvariant, TypeOK
<1>3. /\ excused' = excused \union {v} /\ cut' \in BOOLEAN
      /\ cut' <=> cut \/ (v = "orders" /\ shown[v] = Guess)
  BY DEF LoadCut
<1>4. TypeOK'
  BY <1>1, <1>2, <1>3 DEF InductiveInvariant, TypeOK
<1>5. NotAhead'
  <2>1. \A w \in Views : ver[w] \in Nat
    BY DEF InductiveInvariant, TypeOK, Versions
  <2> QED BY <1>1, <1>2, <2>1 DEF InductiveInvariant, NotAhead, Free
<1>6. GuessIsReconciled'
  <2>1. v # "orders" => \A j \in Slots : load'["orders"][j] = load["orders"][j]
    BY <1>2 DEF Views
  <2> QED BY <1>1, <1>3, <2>1 DEF InductiveInvariant, GuessIsReconciled
<1>7. ASSUME NEW w \in Views \ excused' PROVE Told(w)'
  <2>1. w # v /\ (shown[w] = ver[w] \/ Hope(w))
    BY <1>3, <1>7 DEF InductiveInvariant
  <2>2. \A j \in Slots : load'[w][j] = load[w][j]
    BY <1>2, <2>1
  <2> QED BY <1>1, <2>1, <2>2 DEF Told, Hope
<1> QED BY <1>4, <1>5, <1>6, <1>7 DEF InductiveInvariant, Told

\* A step that loses events, but excuses what they were about.
LEMMA LossKeepsIt ==
    ASSUME InductiveInvariant, TypeOK', excused \subseteq excused',
           UNCHANGED <<ver, shown, load, loadError, press, cut>>,
           \A k \in Announced : \/ About(k) \subseteq excused'
                                \/ (pub[k] > 0 \/ inbox[k] > 0) => (pub'[k] > 0 \/ inbox'[k] > 0)
    PROVE  InductiveInvariant'
BY DEF InductiveInvariant, GuessIsReconciled, NotAhead, Hope

LEMMA UnheardViews ==
    ASSUME NEW counts \in [Announced -> Nat]
    PROVE  /\ Unheard(counts) \subseteq Views
           /\ \A k \in Announced : counts[k] > 0 => About(k) \subseteq Unheard(counts)
BY AboutViews DEF Unheard

LEMMA DropKeepsIt ==
    ASSUME InductiveInvariant, Drop
    PROVE  InductiveInvariant'
<1>1. inbox \in [Announced -> Nat] /\ pub \in [Announced -> Nat] /\ faults' \in 0..MaxFaults
  BY FaultCounts DEF Drop, InductiveInvariant, TypeOK
<1>2. TypeOK'
  BY <1>1, UnheardViews DEF Drop, InductiveInvariant, TypeOK
<1>3. \A k \in Announced : \/ About(k) \subseteq excused'
                           \/ (pub[k] > 0 \/ inbox[k] > 0) => (pub'[k] > 0 \/ inbox'[k] > 0)
  BY <1>1, UnheardViews DEF Drop
<1> QED BY <1>2, <1>3, LossKeepsIt DEF Drop

LEMMA RestartKeepsIt ==
    ASSUME InductiveInvariant, Restart
    PROVE  InductiveInvariant'
<1>1. inbox \in [Announced -> Nat] /\ pub \in [Announced -> Nat] /\ faults' \in 0..MaxFaults
  BY FaultCounts DEF Restart, InductiveInvariant, TypeOK
<1>2. TypeOK'
  BY <1>1, UnheardViews DEF Restart, InductiveInvariant, TypeOK
<1>3. \A k \in Announced : \/ About(k) \subseteq excused'
                           \/ (pub[k] > 0 \/ inbox[k] > 0) => (pub'[k] > 0 \/ inbox'[k] > 0)
  BY <1>1, UnheardViews DEF Restart
<1> QED BY <1>2, <1>3, LossKeepsIt DEF Restart

LEMMA ConnectionKeepsIt ==
    ASSUME InductiveInvariant, Notice \/ Open
    PROVE  InductiveInvariant'
<1>1. TypeOK'
  BY DEF Notice, Open, InductiveInvariant, TypeOK
<1> QED BY <1>1, LossKeepsIt DEF Notice, Open

\* The hints it drops are made good by the loads it sends.
LEMMA ShowAllKeepsIt ==
    ASSUME InductiveInvariant, ShowAll
    PROVE  InductiveInvariant'
<1>1. /\ UNCHANGED <<ver, shown, pub, connected, loadError, press, excused, cut>>
      /\ Reload(Views) /\ faults' \in 0..MaxFaults
  BY FaultCounts DEF ShowAll
<1>2. TypeOK'
  BY <1>1, ReloadSends DEF ShowAll, InductiveInvariant, TypeOK
<1>3. \A k \in Announced : About(k) \subseteq Views
  BY AboutViews
<1> QED BY <1>1, <1>2, <1>3, LoadsKeepIt

-----------------------------------------------------------------------------
(* The theorems *)

LEMMA InitInvariant == Init => InductiveInvariant
<1> SUFFICES ASSUME Init PROVE InductiveInvariant
  OBVIOUS
<1>1. NoPress \in [button : Buttons \union {"none"},
                   answer : {"none", "waiting", "done", "stale", "refused"}]
  BY DEF NoPress
<1>2. TypeOK
  <2>1. 0 \in Versions /\ ver \in [Views -> Versions] /\ shown \in [Views -> Versions \union {Guess}]
    BY DEF Init, Versions
  <2>2. load \in [Views -> [Slots -> Versions \union {Free, Sent}]]
    BY DEF Init
  <2>3. pub \in [Announced -> Nat] /\ inbox \in [Announced -> Nat]
    BY DEF Init
  <2>4. press \in [button : Buttons \union {"none"},
                   answer : {"none", "waiting", "done", "stale", "refused"}]
    BY <1>1 DEF Init
  <2>5. /\ stream \in {"opening", "up", "dead", "down"} /\ connected \in BOOLEAN /\ loadError \in BOOLEAN
    BY DEF Init
  <2>6. faults \in 0..MaxFaults /\ excused \subseteq Views
    BY DEF Init
  <2>7. cut \in BOOLEAN
    BY DEF Init
  <2> QED BY <2>1, <2>2, <2>3, <2>4, <2>5, <2>6, <2>7 DEF TypeOK
<1>3. NotAhead
  BY DEF Init, NotAhead, Free, Sent
<1> QED BY <1>2, <1>3 DEF Init, InductiveInvariant, GuessIsReconciled, Guess, Views

LEMMA NextKeepsIt == InductiveInvariant /\ [Next]_vars => InductiveInvariant'
<1> SUFFICES ASSUME InductiveInvariant, [Next]_vars PROVE InductiveInvariant'
  OBVIOUS
<1>1. CASE Server
  BY <1>1, ChangeKeepsIt, PublishKeepsIt, ServeLoadKeepsIt, ServePressKeepsIt DEF Server
<1>2. CASE Screen
  BY <1>2, ShowKeepsIt, HintKeepsIt, PollKeepsIt, PressKeepsIt, AnsweredKeepsIt,
     ShowAllKeepsIt DEF Screen
<1>3. CASE Network
  BY <1>3, PressLostKeepsIt, DropKeepsIt, RestartKeepsIt, ConnectionKeepsIt, LoadFailsKeepsIt,
     LoadCutKeepsIt DEF Network
<1>4. CASE UNCHANGED vars
  BY <1>4 DEF vars, InductiveInvariant, TypeOK, GuessIsReconciled, NotAhead, Hope
<1> QED BY <1>1, <1>2, <1>3, <1>4 DEF Next

\* The invariant the other theorems follow from.
THEOREM Invariance == Spec => []InductiveInvariant
BY InitInvariant, NextKeepsIt, PTL DEF Spec

\* Type correctness of the board, its loads and the events.
THEOREM TypeCorrect == Spec => []TypeOK
<1>1. InductiveInvariant => TypeOK
  BY DEF InductiveInvariant
<1> QED BY <1>1, Invariance, PTL

\* DeskBoard: with no banner and nothing under way, a view shows the database,
\* but for the named excuses.
THEOREM SilentScreenIsCurrentHolds == Spec => []SilentScreenIsCurrent
<1>1. InductiveInvariant => SilentScreenIsCurrent
  <2> SUFFICES ASSUME InductiveInvariant, Quiet, ~loadError, NEW v \in Views \ excused, Hope(v)
               PROVE  FALSE
    BY DEF SilentScreenIsCurrent, InductiveInvariant
  <2>1. ver[v] # Free /\ Sent # Free
    BY DEF InductiveInvariant, TypeOK, Versions, Free, Sent
  <2>2. press.button = "none"
    BY DEF Quiet, NoPress
  <2> QED BY <2>1, <2>2 DEF Quiet, Hope
<1> QED BY <1>1, Invariance, PTL

\* transition: a guess stands only while its request or a load of the orders is
\* under way, under the banner, or because such a load was cut off.
THEOREM GuessIsReconciledHolds == Spec => []GuessIsReconciled
<1>1. InductiveInvariant => GuessIsReconciled
  BY DEF InductiveInvariant
<1> QED BY <1>1, Invariance, PTL
=============================================================================
