------------------------ MODULE StaffAccounts_proofs ------------------------
(***************************************************************************)
(* Theorems about StaffAccounts, for any accounts and devices, any life of *)
(* a cache entry, any duration of a lookup and any number of changes.      *)
(* Steps turn the request of one device, replace its cookie, or write an   *)
(* account, which supersedes what lookups and the cache have of it.        *)
(***************************************************************************)
EXTENDS StaffAccounts, TLAPS

USE AdminsAssumption, TicksAssumption

Roles == {"none", "admin", "desk"}

-----------------------------------------------------------------------------
(* Lemmas about the data *)

\* What the program counter of a request says of its other fields.
LEMMA Shapes ==
    ASSUME NEW q \in Requests
    PROVE  /\ q.pc \in {"idle", "change", "in", "login", "lookup", "count", "write", "reissue",
                        "invalidate"}
           /\ q.pc = "idle" => q = Idle
           /\ q.pc = "login" => q \in Logins
           /\ q.pc = "lookup" => q \in LookUps
           /\ q.pc \in {"count", "write"} => q \in Updates
           /\ q.pc = "reissue" => q \in Reissues
           /\ q.pc = "invalidate" => q \in Invalidations
BY DEF Requests, Idle, Logins, LookUps, Updates, Reissues, Invalidations, Admitted

LEMMA AdmitIsRequest ==
    ASSUME NEW d \in Devices, NEW a \in Seen
    PROVE  Admit(d, a) \in Requests /\ Admit(d, a).pc \in {"idle", "in"}
BY DEF Admit, Idle, Requests, Admitted, Seen

\* A request that has nothing to go wrong.
LEMMA QuietIsGood ==
    ASSUME NEW d \in Devices, NEW q, q.pc \in {"idle", "in", "change", "count"},
           q.pc = "count" => staff[q.of].role # "none"
    PROVE  GoodRequest(d, q)
BY DEF GoodRequest, ReadRight, TokenRight, CountRight, TokenDue

LEMMA AgedEntry ==
    ASSUME NEW e \in Cached, 0 <= e.stale \/ e.stale = Fresh
    PROVE  /\ Aged(e) \in Cached
           /\ Aged(e).account = e.account /\ Aged(e).age = e.age /\ Aged(e).late = e.late
           /\ Aged(e).stale = IF e.stale = Fresh THEN 0 ELSE e.stale
BY DEF Aged, Cached, Stale, Fresh, Bound

LEMMA AgedLookUp ==
    ASSUME NEW e \in LookUps
    PROVE  /\ Aged(e) \in LookUps
           /\ Aged(e).pc = "lookup" /\ Aged(e).account = e.account /\ Aged(e).age = e.age
           /\ Aged(e).stale = IF e.stale = Fresh THEN 0 ELSE e.stale
BY DEF Aged, LookUps, Stale, Fresh, Bound

\* Patching an account.
LEMMA PatchedFields ==
    ASSUME NEW a \in Account, NEW p \in Patches, a.role # "none"
    PROVE  /\ Patched(a, p).role \in {"admin", "desk"} /\ Patched(a, p).active \in BOOLEAN
           /\ Patched(a, p).ver = IF Revokes(p) THEN a.ver + 1 ELSE a.ver
           /\ Patched(a, p).pw \in {a.pw, a.pw + 1}
           /\ ~Revokes(p) => Patched(a, p).pw = a.pw
           /\ IsAdmin(a) /\ ~Removes(p) => IsAdmin(Patched(a, p))
<1>1. /\ p.role \in {"-", "admin", "desk"} /\ p.active \in {"-", "on", "off"}
      /\ p.password \in BOOLEAN
      /\ p.active = "on" => p.password = FALSE
  <2>1. CASE p \in Edits
    BY <2>1 DEF Edits
  <2>2. CASE p \in [role : {"-"}, active : {"on", "off"}, password : {FALSE}]
    BY <2>2
  <2>3. CASE p = [role |-> "-", active |-> "-", password |-> FALSE]
    BY <2>3
  <2> QED BY <2>1, <2>2, <2>3 DEF Patches, ListActions
<1>2. /\ a.role \in {"admin", "desk"} /\ a.active \in BOOLEAN
      /\ a.ver \in Versions /\ a.pw \in Versions
  BY DEF Account
<1>3. Patched(a, p).role \in {"admin", "desk"} /\ Patched(a, p).active \in BOOLEAN
  BY <1>1, <1>2 DEF Patched
<1>4. /\ Patched(a, p).ver = IF Revokes(p) THEN a.ver + 1 ELSE a.ver
      /\ Patched(a, p).pw = IF p.password THEN a.pw + 1 ELSE a.pw
  BY DEF Patched
<1>5. IsAdmin(a) /\ ~Removes(p) => IsAdmin(Patched(a, p))
  BY <1>1, <1>2 DEF Patched, IsAdmin, Removes
<1> QED BY <1>1, <1>3, <1>4, <1>5 DEF Revokes

-----------------------------------------------------------------------------
(* The kinds of step *)

\* The request of one device turns into a good one.
LEMMA TurnKeepsIt ==
    ASSUME InductiveInvariant, NEW d \in Devices, NEW q \in Requests,
           req' = [req EXCEPT ![d] = q], UNCHANGED <<staff, cache, cookie, changes, crossed>>,
           req[d].pc # "invalidate",
           cookie[d] # None \/ q.pc \in {"idle", "login"},
           GoodRequest(d, q)
    PROVE  InductiveInvariant'
<1>1. \A e \in Devices : req'[e] = IF e = d THEN q ELSE req[e]
  BY DEF InductiveInvariant, TypeOK
<1>2. TypeOK'
  BY <1>1 DEF InductiveInvariant, TypeOK
<1>3. ASSUME NEW e \in Devices PROVE GoodRequest(e, req[e])'
  <2> DEFINE r == req'[e]
  <2>1. GoodRequest(e, r)
    BY <1>1 DEF InductiveInvariant
  <2> QED BY <2>1
       DEF GoodRequest, ReadRight, TokenRight, CountRight, FollowsPassword, Others, ActiveAdmins
<1>4. StaleOnlyByRace'
  BY <1>1 DEF InductiveInvariant, StaleOnlyByRace
<1>5. \A e \in Devices : cookie'[e] # None =>
        FollowsPassword(cookie[e].sub, cookie[e].ver, cookie[e].pw)'
  BY DEF InductiveInvariant, FollowsPassword
<1> QED BY <1>2, <1>3, <1>4, <1>5 DEF InductiveInvariant, VersionsCounted

\* The request of one device ends, and with it the cookie changes.
LEMMA CookieKeepsIt ==
    ASSUME InductiveInvariant, NEW d \in Devices,
           NEW k \in {None} \union [sub : Accounts, ver : Versions, pw : Versions],
           k # None => FollowsPassword(k.sub, k.ver, k.pw),
           req[d].pc # "invalidate",
           cookie' = [cookie EXCEPT ![d] = k], req' = [req EXCEPT ![d] = Idle],
           UNCHANGED <<staff, cache, changes, crossed>>
    PROVE  InductiveInvariant'
<1>0. Idle \in Requests /\ Idle.pc = "idle"
  BY DEF Idle, Requests
<1>1. \A e \in Devices : /\ req'[e] = IF e = d THEN Idle ELSE req[e]
                         /\ cookie'[e] = IF e = d THEN k ELSE cookie[e]
  BY DEF InductiveInvariant, TypeOK
<1>2. TypeOK'
  BY <1>0, <1>1 DEF InductiveInvariant, TypeOK
<1>3. ASSUME NEW e \in Devices PROVE GoodRequest(e, req[e])'
  <2> SUFFICES ASSUME NEW r, r = req'[e] PROVE GoodRequest(e, req[e])'
    OBVIOUS
  <2>1. GoodRequest(e, r)
    BY <1>0, <1>1, QuietIsGood DEF InductiveInvariant
  <2>2. r.pc = "idle" \/ cookie'[e] = cookie[e]
    BY <1>0, <1>1
  <2> QED BY <2>1, <2>2
       DEF GoodRequest, ReadRight, TokenRight, CountRight, FollowsPassword, Others, ActiveAdmins,
           TokenDue
<1>4. StaleOnlyByRace'
  BY <1>1 DEF InductiveInvariant, StaleOnlyByRace
<1>5. \A e \in Devices : cookie'[e] # None =>
        FollowsPassword(cookie[e].sub, cookie[e].ver, cookie[e].pw)'
  BY <1>1 DEF InductiveInvariant, FollowsPassword
<1> QED BY <1>2, <1>3, <1>4, <1>5 DEF InductiveInvariant, VersionsCounted

\* What is known of a device and of its request.
LEMMA RequestIsGood ==
    ASSUME InductiveInvariant, NEW d \in Devices
    PROVE  /\ req[d] \in Requests
           /\ cookie[d] = None => req[d].pc \in {"idle", "login"}
           /\ ReadRight(d, req[d]) /\ TokenRight(d, req[d]) /\ CountRight(req[d])
           /\ cookie[d] # None =>
                /\ cookie[d] \in [sub : Accounts, ver : Versions, pw : Versions]
                /\ FollowsPassword(cookie[d].sub, cookie[d].ver, cookie[d].pw)
BY DEF InductiveInvariant, TypeOK, GoodRequest

-----------------------------------------------------------------------------
(* Signing in and out, and getStaff *)

LEMMA LoginReadKeepsIt ==
    ASSUME InductiveInvariant, NEW d \in Devices, NEW u \in Accounts, LoginRead(d, u)
    PROVE  InductiveInvariant'
<1> DEFINE q == [pc |-> "login", sub |-> u, ver |-> staff[u].ver, pw |-> staff[u].pw]
<1>1. /\ q \in Requests /\ q.pc = "login" /\ q.sub = u
      /\ q.ver = staff[u].ver /\ q.pw = staff[u].pw
  BY DEF InductiveInvariant, TypeOK, Account, Requests, Logins
<1>2. req' = [req EXCEPT ![d] = q] /\ UNCHANGED <<staff, cache, cookie, changes, crossed>>
      /\ req[d].pc = "idle"
  BY DEF LoginRead, Idle
<1> HIDE DEF q
<1>3. staff[u].ver \in Versions
  BY DEF InductiveInvariant, TypeOK, Account
<1>4. GoodRequest(d, q)
  BY <1>1, <1>3
     DEF GoodRequest, ReadRight, TokenRight, CountRight, FollowsPassword, TokenDue, Versions
<1> QED BY <1>1, <1>2, <1>4, TurnKeepsIt

LEMMA LoginDoneKeepsIt ==
    ASSUME InductiveInvariant, NEW d \in Devices, LoginDone(d)
    PROVE  InductiveInvariant'
<1> DEFINE q == req[d]
           k == Token(q.sub, q.ver, q.pw)
<1>1. q \in Logins /\ q.pc = "login" /\ FollowsPassword(q.sub, q.ver, q.pw)
  BY RequestIsGood, Shapes DEF LoginDone, TokenRight
<1>2. /\ k \in [sub : Accounts, ver : Versions, pw : Versions]
      /\ k.sub = q.sub /\ k.ver = q.ver /\ k.pw = q.pw
  BY <1>1 DEF Token, Logins
<1>3. /\ cookie' = [cookie EXCEPT ![d] = k] /\ req' = [req EXCEPT ![d] = Idle]
      /\ UNCHANGED <<staff, cache, changes, crossed>>
  BY DEF LoginDone
<1> HIDE DEF k
<1> QED BY <1>1, <1>2, <1>3, CookieKeepsIt

LEMMA LeaveKeepsIt ==
    ASSUME InductiveInvariant, NEW d \in Devices, Leave(d)
    PROVE  InductiveInvariant'
<1> DEFINE k == IF req[d] = Idle THEN None ELSE cookie[d]
<1>1. /\ k \in {None} \union [sub : Accounts, ver : Versions, pw : Versions]
      /\ k # None => FollowsPassword(k.sub, k.ver, k.pw)
  BY RequestIsGood DEF InductiveInvariant, TypeOK
<1>2. /\ cookie' = [cookie EXCEPT ![d] = k] /\ req' = [req EXCEPT ![d] = Idle]
      /\ UNCHANGED <<staff, cache, changes, crossed>> /\ req[d].pc # "invalidate"
  BY DEF Leave, InductiveInvariant, TypeOK
<1> HIDE DEF k
<1> QED BY <1>1, <1>2, CookieKeepsIt

LEMMA CacheHitKeepsIt ==
    ASSUME InductiveInvariant, NEW d \in Devices, CacheHit(d)
    PROVE  InductiveInvariant'
<1> DEFINE a == cache[cookie[d].sub].account
           q == Admit(d, a)
<1>1. a \in Seen
  BY DEF CacheHit, InductiveInvariant, TypeOK, Cached
<1>2. q \in Requests /\ GoodRequest(d, q)
  BY <1>1, AdmitIsRequest, QuietIsGood
<1>3. /\ req' = [req EXCEPT ![d] = q] /\ UNCHANGED <<staff, cache, cookie, changes, crossed>>
      /\ req[d].pc = "idle" /\ cookie[d] # None
  BY DEF CacheHit, Idle
<1> HIDE DEF q
<1> QED BY <1>2, <1>3, TurnKeepsIt

LEMMA LookUpKeepsIt ==
    ASSUME InductiveInvariant, NEW d \in Devices, LookUp(d)
    PROVE  InductiveInvariant'
<1> DEFINE a == Shown(staff[cookie[d].sub])
           q == [pc |-> "lookup", account |-> a, age |-> 0, stale |-> Fresh]
<1>1. a \in Seen /\ a.ver = staff[cookie[d].sub].ver
  BY DEF LookUp, InductiveInvariant, TypeOK, Account, Seen, Shown
<1>2. /\ req' = [req EXCEPT ![d] = q] /\ UNCHANGED <<staff, cache, cookie, changes, crossed>>
      /\ req[d].pc = "idle" /\ cookie[d] # None
  BY DEF LookUp, Idle
<1> HIDE DEF a
<1>3. /\ q \in Requests /\ q.pc = "lookup" /\ q.account = a /\ q.age = 0 /\ q.stale = Fresh
  BY <1>1 DEF Requests, LookUps, Stale
<1> HIDE DEF q
<1>4. GoodRequest(d, q)
  BY <1>1, <1>3 DEF GoodRequest, ReadRight, TokenRight, CountRight, TokenDue, Fresh
<1> QED BY <1>2, <1>3, <1>4, TurnKeepsIt

LEMMA FillKeepsIt ==
    ASSUME InductiveInvariant, NEW d \in Devices, Fill(d)
    PROVE  InductiveInvariant'
<1> DEFINE l == req[d]
           u == cookie[d].sub
           q == Admit(d, l.account)
           e == [account |-> l.account, age |-> 0, stale |-> l.stale, late |-> l.stale # Fresh]
<1>1. /\ l \in LookUps /\ l.pc = "lookup" /\ l.stale <= l.age
      /\ l.stale = Fresh => l.account.ver = staff[u].ver
      /\ cookie[d] # None /\ u \in Accounts
  BY RequestIsGood, Shapes DEF Fill, ReadRight
<1>2. q \in Requests /\ q.pc \in {"idle", "in"}
  BY <1>1, AdmitIsRequest DEF LookUps
<1>3. e \in Cached /\ e.stale <= e.age + MaxRead
      /\ (~e.late => e.account.ver = staff[u].ver)
  <2>1. /\ l.account \in Seen /\ l.age \in 0..MaxRead /\ l.stale \in Stale
    BY <1>1 DEF LookUps
  <2>2. e.account = l.account /\ e.age = 0 /\ e.stale = l.stale /\ (e.late <=> l.stale # Fresh)
    OBVIOUS
  <2>3. e \in Cached
    BY <2>1 DEF Cached
  <2> HIDE DEF e, l
  <2>4. e.stale <= e.age + MaxRead
    BY <1>1, <2>1, <2>2 DEF Stale, Fresh, Bound
  <2>5. ~e.late => e.account.ver = staff[u].ver
    BY <1>1, <2>2
  <2> QED BY <2>3, <2>4, <2>5
<1>4. /\ cache' = [cache EXCEPT ![u] = e] /\ req' = [req EXCEPT ![d] = q]
      /\ UNCHANGED <<staff, cookie, changes, crossed>>
  BY DEF Fill
<1> HIDE DEF e, q, l
<1>5. /\ \A f \in Devices : req'[f] = IF f = d THEN q ELSE req[f]
      /\ \A w \in Accounts : cache'[w] = IF w = u THEN e ELSE cache[w]
  BY <1>4 DEF InductiveInvariant, TypeOK
<1>6. TypeOK'
  BY <1>1, <1>2, <1>3, <1>4, <1>5 DEF InductiveInvariant, TypeOK
<1>7. ASSUME NEW f \in Devices PROVE GoodRequest(f, req[f])'
  <2> SUFFICES ASSUME NEW r, r = req'[f] PROVE GoodRequest(f, req[f])'
    OBVIOUS
  <2>1. GoodRequest(f, r)
    BY <1>2, <1>5, QuietIsGood DEF InductiveInvariant
  <2> QED BY <1>4, <2>1
       DEF GoodRequest, ReadRight, TokenRight, CountRight, FollowsPassword, Others, ActiveAdmins
<1>8. StaleOnlyByRace'
  <2>1. ASSUME NEW f \in Devices, req[f].pc = "invalidate" PROVE req'[f] = req[f]
    BY <1>1, <1>5, <2>1 DEF l
  <2> QED BY <1>3, <1>4, <1>5, <2>1 DEF InductiveInvariant, StaleOnlyByRace
<1>9. \A f \in Devices : cookie'[f] # None =>
        FollowsPassword(cookie[f].sub, cookie[f].ver, cookie[f].pw)'
  BY <1>4 DEF InductiveInvariant, FollowsPassword
<1> QED BY <1>3, <1>4, <1>5, <1>6, <1>7, <1>8, <1>9 DEF InductiveInvariant, VersionsCounted

LEMMA QuietTurnKeepsIt ==
    ASSUME InductiveInvariant, NEW d \in Devices, NEW q \in {Idle, [pc |-> "change"]},
           req[d].pc = "in", req' = [req EXCEPT ![d] = q],
           UNCHANGED <<staff, cache, cookie, changes, crossed>>
    PROVE  InductiveInvariant'
<1>1. q \in Requests /\ q.pc \in {"idle", "change"} /\ cookie[d] # None
  BY RequestIsGood DEF Idle, Requests
<1>2. GoodRequest(d, q)
  BY <1>1, QuietIsGood
<1> QED BY <1>1, <1>2, TurnKeepsIt

-----------------------------------------------------------------------------
(* Managing accounts *)

LEMMA CreateKeepsIt ==
    ASSUME InductiveInvariant, NEW d \in Devices, NEW u \in Accounts,
           NEW role \in {"admin", "desk"}, Create(d, u, role)
    PROVE  InductiveInvariant'
<1>0. Idle \in Requests /\ Idle.pc = "idle" /\ req[d].pc = "in"
  BY DEF Idle, Requests, Create
<1>1. /\ \A e \in Devices : req'[e] = IF e = d THEN Idle ELSE req[e]
      /\ UNCHANGED <<cache, cookie, changes, crossed>>
  BY DEF Create, InductiveInvariant, TypeOK
<1>2. /\ staff' \in [Accounts -> Account]
      /\ \A w \in Accounts :
            /\ staff'[w].ver = staff[w].ver /\ staff'[w].pw = staff[w].pw
            /\ staff'[w].active = staff[w].active
            /\ staff[w].role # "none" => staff'[w].role = staff[w].role
            /\ staff[w].role = "none" => staff'[w].role \in {"none", "admin", "desk"}
  BY DEF Create, InductiveInvariant, TypeOK, Account
<1>3. TypeOK'
  BY <1>0, <1>1, <1>2 DEF Create, InductiveInvariant, TypeOK
<1>4. ASSUME NEW e \in Devices PROVE GoodRequest(e, req[e])'
  <2> SUFFICES ASSUME NEW r, r = req'[e] PROVE GoodRequest(e, req[e])'
    OBVIOUS
  <2>1. GoodRequest(e, r) /\ r \in Requests
    BY <1>0, <1>1, QuietIsGood DEF InductiveInvariant, TypeOK
  <2>2. r.pc \in {"lookup", "reissue", "invalidate"} => cookie[e].sub \in Accounts
    BY <1>0, <1>1, RequestIsGood
  <2>3. ReadRight(e, r)' /\ TokenRight(e, r)'
    BY <1>1, <1>2, <2>1, <2>2, Shapes
       DEF GoodRequest, ReadRight, TokenRight, FollowsPassword, TokenDue, DuePassword, Logins
  <2>4. CountRight(r)'
    <3> SUFFICES ASSUME r.pc \in {"count", "write"} PROVE CountRight(r)'
      BY DEF CountRight
    <3>1. r.of \in Accounts /\ staff[r.of].role # "none"
      BY <2>1, Shapes DEF Updates, GoodRequest, CountRight
    <3>2. IsAdmin(staff[r.of])' <=> IsAdmin(staff[r.of])
      BY <1>2, <3>1 DEF IsAdmin
    <3>3. Others(r.of) \subseteq Others(r.of)'
      BY <1>2 DEF Others, ActiveAdmins, IsAdmin
    <3> QED BY <1>2, <2>1, <3>1, <3>2, <3>3 DEF GoodRequest, CountRight
  <2> QED BY <2>3, <2>4 DEF GoodRequest, ReadRight, TokenRight, CountRight
<1>5. StaleOnlyByRace'
  BY <1>0, <1>1, <1>2 DEF InductiveInvariant, StaleOnlyByRace
<1>6. \A e \in Devices : cookie'[e] # None =>
        FollowsPassword(cookie[e].sub, cookie[e].ver, cookie[e].pw)'
  BY <1>1, <1>2, RequestIsGood DEF FollowsPassword
<1> QED BY <1>1, <1>2, <1>3, <1>4, <1>5, <1>6 DEF InductiveInvariant, VersionsCounted

LEMMA FindTargetKeepsIt ==
    ASSUME InductiveInvariant, NEW d \in Devices, NEW u \in Accounts, NEW p \in Patches,
           FindTarget(d, u, p)
    PROVE  InductiveInvariant'
<1> DEFINE pc == IF IsAdmin(staff[u]) /\ Removes(p) THEN "count" ELSE "write"
           q == [pc |-> pc, of |-> u, patch |-> p, overtaken |-> FALSE]
<1>1. /\ q \in Requests /\ q.pc = pc /\ q.of = u /\ q.patch = p /\ pc \in {"count", "write"}
  BY DEF Requests, Updates
<1>2. /\ req' = [req EXCEPT ![d] = q] /\ UNCHANGED <<staff, cache, cookie, changes, crossed>>
      /\ req[d].pc = "in" /\ staff[u].role # "none"
  BY DEF FindTarget
<1>3. cookie[d] # None
  BY <1>2, RequestIsGood
<1> HIDE DEF q
<1>4. GoodRequest(d, q)
  BY <1>1, <1>2 DEF GoodRequest, ReadRight, TokenRight, CountRight, TokenDue
<1> QED BY <1>1, <1>2, <1>3, <1>4, TurnKeepsIt

LEMMA CountOthersKeepsIt ==
    ASSUME InductiveInvariant, NEW d \in Devices, CountOthers(d)
    PROVE  InductiveInvariant'
<1> DEFINE l == req[d]
           q == IF Others(l.of) = {} THEN Idle ELSE [l EXCEPT !.pc = "write"]
<1>1. l \in Updates /\ l.pc = "count" /\ staff[l.of].role # "none" /\ cookie[d] # None
  BY RequestIsGood, Shapes DEF CountOthers, CountRight
<1>2. req' = [req EXCEPT ![d] = q] /\ UNCHANGED <<staff, cache, cookie, changes, crossed>>
  BY DEF CountOthers
<1>3. CASE Others(l.of) = {}
  <2>1. q = Idle /\ Idle \in Requests /\ Idle.pc = "idle"
    BY <1>3 DEF Idle, Requests
  <2>2. GoodRequest(d, Idle)
    BY <2>1, QuietIsGood
  <2> QED BY <1>1, <1>2, <2>1, <2>2, TurnKeepsIt
<1>4. CASE Others(l.of) # {}
  <2>1. q \in Requests /\ q.pc = "write" /\ q.of = l.of /\ q.patch = l.patch
    BY <1>1, <1>4 DEF Updates, Requests
  <2> HIDE DEF q
  <2>2. GoodRequest(d, q)
    BY <1>1, <1>4, <2>1 DEF GoodRequest, ReadRight, TokenRight, CountRight, TokenDue
  <2> QED BY <1>1, <1>2, <2>1, <2>2, TurnKeepsIt
<1> QED BY <1>3, <1>4

-----------------------------------------------------------------------------
(* Writing an account *)

\* A write that revokes account u, and leaves it as a: device d goes on to
\* invalidate the cache, and the other requests are as f says before what they
\* have looked up of u is superseded.
Accountlike == [role : {"none", "admin", "desk"}, active : BOOLEAN, ver : Nat, pw : Nat]

WritesAs(u, a) ==
    /\ a \in Accountlike
    /\ a.ver = staff[u].ver + 1
    /\ a.pw \in {staff[u].pw, staff[u].pw + 1}
    /\ staff[u].role # "none" => a.role # "none"

GoesOn(d, u, a, f) ==
    /\ req[d].pc \in {"write", "change"}
    /\ f \in [Devices -> Requests]
    /\ f[d].pc = "invalidate"
    /\ f[d].of = u
    /\ f[d].then # Idle => f[d].then.pw = a.pw /\ cookie[d].sub = u
    /\ \A e \in Devices \ {d} :
          \/ f[e] = req[e] /\ req[e].pc \notin {"count", "write"}
          \/ f[e] = req[e] /\ a.role = staff[u].role /\ a.active = staff[u].active
          \/ /\ f[e].pc = req[e].pc /\ f[e].pc \in {"count", "write"}
             /\ f[e].of = req[e].of /\ f[e].overtaken

Revoke(u, a, f) ==
    /\ changes < MaxChanges
    /\ changes' = changes + 1
    /\ staff' = [staff EXCEPT ![u] = a]
    /\ req' = Supersede(u, f)
    /\ cache' = SupersedeCache(u)
    /\ crossed' = crossed \union ({u} \intersect Reissuing)
    /\ UNCHANGED cookie

LEMMA RevokeKeepsIt ==
    ASSUME InductiveInvariant, NEW d \in Devices, NEW u \in Accounts, NEW a, NEW f,
           WritesAs(u, a), GoesOn(d, u, a, f), Revoke(u, a, f)
    PROVE  InductiveInvariant'
<1> USE DEF WritesAs, GoesOn, Revoke, Accountlike
<1>1. \A w \in Accounts : staff'[w] = IF w = u THEN a ELSE staff[w]
  BY DEF InductiveInvariant, TypeOK
<1>2. \A w \in Accounts : /\ staff[w].ver \in Versions /\ staff[w].pw \in Versions
                          /\ staff[w].ver <= changes /\ staff[w].pw <= changes
  BY DEF InductiveInvariant, TypeOK, Account, VersionsCounted
<1>3. VersionsCounted' /\ changes' \in Versions
  BY <1>1, <1>2 DEF VersionsCounted, InductiveInvariant, TypeOK, Versions
<1>4. a \in Account /\ staff' \in [Accounts -> Account]
  <2>1. a.ver \in Versions /\ a.pw \in Versions
    BY <1>1, <1>3 DEF VersionsCounted, Versions, InductiveInvariant, TypeOK
  <2>2. a \in Account
    BY <2>1 DEF Account
  <2> QED BY <2>2 DEF InductiveInvariant, TypeOK
<1>5. \A e \in Devices :
         req'[e] = IF f[e].pc = "lookup" /\ cookie[e].sub = u THEN Aged(f[e]) ELSE f[e]
  BY DEF Supersede
<1>6. \A e \in Devices : f[e].pc = "lookup" => e # d /\ f[e] = req[e] /\ f[e] \in LookUps
  BY Shapes DEF InductiveInvariant, TypeOK
<1>7. \A e \in Devices : req'[e] \in Requests /\ req'[e].pc = f[e].pc
  <2> SUFFICES ASSUME NEW e \in Devices PROVE req'[e] \in Requests /\ req'[e].pc = f[e].pc
    OBVIOUS
  <2>1. LookUps \subseteq Requests
    BY DEF Requests
  <2> QED BY <1>5, <1>6, <2>1, AgedLookUp
<1>8. \A w \in Accounts :
         /\ cache'[w] = IF w = u /\ cache[u] # None THEN Aged(cache[u]) ELSE cache[w]
         /\ cache[w] # None => cache[w] \in Cached
  BY DEF SupersedeCache, InductiveInvariant, TypeOK
<1>9. \A w \in Accounts : cache[w] # None =>
         /\ Aged(cache[w]) \in Cached
         /\ Aged(cache[w]).age = cache[w].age
         /\ Aged(cache[w]).stale = IF cache[w].stale = Fresh THEN 0 ELSE cache[w].stale
  <2>1. \A e \in Cached : 0 <= e.stale \/ e.stale = Fresh
    BY DEF Cached, Stale, Fresh, Bound
  <2> QED BY <1>8, <2>1, AgedEntry
<1>10. TypeOK'
  <2>1. req' \in [Devices -> Requests]
    BY <1>7 DEF Supersede
  <2>2. cache' \in [Accounts -> {None} \union Cached]
    BY <1>8, <1>9 DEF SupersedeCache, InductiveInvariant, TypeOK
  <2>3. \A e \in Devices : cookie'[e] = None => req'[e].pc \in {"idle", "login"}
    BY <1>7 DEF InductiveInvariant, TypeOK
  <2>4. crossed' \subseteq Accounts
    BY DEF InductiveInvariant, TypeOK
  <2> QED BY <1>3, <1>4, <2>1, <2>2, <2>3, <2>4 DEF InductiveInvariant, TypeOK
<1>11. ASSUME NEW w \in Accounts, NEW ver, NEW pw, FollowsPassword(w, ver, pw), ver \in Versions
       PROVE  FollowsPassword(w, ver, pw)'
  BY <1>1, <1>2, <1>11 DEF FollowsPassword, Versions
<1>12. \A e \in Devices : cookie'[e] # None =>
         FollowsPassword(cookie[e].sub, cookie[e].ver, cookie[e].pw)'
  BY <1>11, RequestIsGood
<1>13. ASSUME NEW e \in Devices PROVE GoodRequest(e, req[e])'
  <2> SUFFICES ASSUME NEW r, r = req'[e] PROVE GoodRequest(e, req[e])'
    OBVIOUS
  <2>0. /\ r \in Requests /\ req[e] \in Requests
        /\ r.pc \in {"lookup", "reissue", "invalidate"} => cookie[e].sub \in Accounts
    BY <1>7, <1>10, RequestIsGood DEF TypeOK
  <2>1. ReadRight(e, r)'
    <3> SUFFICES ASSUME r.pc = "lookup" PROVE ReadRight(e, r)'
      BY DEF ReadRight
    <3>1. /\ req[e] \in LookUps /\ req[e].stale <= req[e].age
          /\ req[e].stale = Fresh => req[e].account.ver = staff[cookie[e].sub].ver
          /\ f[e] = req[e]
      BY <1>6, <1>7, RequestIsGood DEF ReadRight
    <3>2. CASE cookie[e].sub = u
      BY <1>5, <1>7, <3>1, <3>2, AgedLookUp DEF ReadRight, LookUps, Fresh
    <3>3. CASE cookie[e].sub # u
      BY <1>1, <1>5, <2>0, <3>1, <3>3 DEF ReadRight
    <3> QED BY <3>2, <3>3
  <2>2. TokenRight(e, r)'
    <3>1. CASE e = d
      <4>1. r = f[d] /\ r.pc = "invalidate"
        BY <1>5, <3>1
      <4> QED BY <1>1, <3>1, <4>1 DEF TokenRight, TokenDue, DuePassword
    <3>2. CASE e # d /\ r.pc \in {"login", "reissue", "invalidate"}
      <4>1. r = req[e] /\ TokenRight(e, r)
        BY <1>5, <1>7, <3>2, RequestIsGood
      <4>2. r.pc = "login" => r.sub \in Accounts /\ r.ver \in Versions
        BY <2>0, Shapes DEF Logins
      <4>3. TokenDue(r) => cookie[e].sub \in Reissuing
        BY <4>1 DEF Reissuing
      <4>4. r.pc = "login" => FollowsPassword(r.sub, r.ver, r.pw)'
        BY <1>11, <4>1, <4>2 DEF TokenRight
      <4>5. TokenDue(r) => (DuePassword(r) = staff[cookie[e].sub].pw \/ cookie[e].sub \in crossed)'
        BY <1>1, <2>0, <3>2, <4>1, <4>3 DEF TokenRight, TokenDue, DuePassword
      <4> QED BY <4>4, <4>5 DEF TokenRight, TokenDue, DuePassword, FollowsPassword
    <3>3. CASE r.pc \notin {"login", "reissue", "invalidate"}
      BY <3>3 DEF TokenRight, TokenDue
    <3> QED BY <3>1, <3>2, <3>3
  <2>3. CountRight(r)'
    <3> SUFFICES ASSUME r.pc \in {"count", "write"} PROVE CountRight(r)'
      BY DEF CountRight
    <3>1. /\ r = f[e] /\ e # d /\ req[e].pc = r.pc /\ r.of = req[e].of /\ r.of \in Accounts
          /\ staff[r.of].role # "none" /\ CountRight(req[e])
      BY <1>5, <1>7, <2>0, RequestIsGood, Shapes DEF CountRight, Updates
    <3>2. staff'[r.of].role # "none"
      BY <1>1, <3>1
    <3>3. CASE r.overtaken
      BY <3>2, <3>3 DEF CountRight
    <3>4. CASE r = req[e] /\ a.role = staff[u].role /\ a.active = staff[u].active
      <4>1. \A w \in Accounts : IsAdmin(staff[w])' <=> IsAdmin(staff[w])
        BY <1>1, <3>4 DEF IsAdmin
      <4>2. Others(r.of)' = Others(r.of)
        BY <4>1 DEF Others, ActiveAdmins
      <4> QED BY <3>1, <3>2, <3>4, <4>1, <4>2 DEF CountRight
    <3> QED BY <3>1, <3>3, <3>4
  <2> QED BY <2>1, <2>2, <2>3 DEF GoodRequest, ReadRight, TokenRight, CountRight
<1>14. \A w \in Accounts : cache'[w] # None => cache'[w].stale <= cache'[w].age + MaxRead
  <2> SUFFICES ASSUME NEW w \in Accounts, cache'[w] # None
               PROVE  cache'[w].stale <= cache'[w].age + MaxRead
    OBVIOUS
  <2>1. cache[w] # None /\ cache[w] \in Cached /\ cache[w].stale <= cache[w].age + MaxRead
    BY <1>8 DEF InductiveInvariant
  <2>2. cache[w].age \in Nat
    BY <2>1 DEF Cached
  <2> QED BY <1>8, <1>9, <2>1, <2>2
<1>15. StaleOnlyByRace'
  <2> SUFFICES ASSUME NEW w \in Accounts, cache'[w] # None, cache'[w].account.ver # staff'[w].ver,
                      ~cache'[w].late
               PROVE  \E e \in Devices : req'[e].pc = "invalidate" /\ req'[e].of = w
    BY DEF StaleOnlyByRace
  <2>1. CASE w = u
    BY <1>5, <2>1
  <2>2. CASE w # u
    <3> PICK e \in Devices : req[e].pc = "invalidate" /\ req[e].of = w
      BY <1>1, <1>8, <2>2 DEF InductiveInvariant, StaleOnlyByRace
    <3>1. req'[e] = req[e]
      BY <1>5
    <3> QED BY <3>1
  <2> QED BY <2>1, <2>2
<1> QED BY <1>3, <1>10, <1>12, <1>13, <1>14, <1>15 DEF InductiveInvariant

LEMMA ChangedFields ==
    ASSUME NEW b \in Account
    PROVE  LET a == [b EXCEPT !.ver = @ + 1, !.pw = @ + 1] IN
           /\ a.role = b.role /\ a.active = b.active /\ a.ver = b.ver + 1 /\ a.pw = b.pw + 1
           /\ a \in Accountlike
<1> DEFINE a == [b EXCEPT !.ver = @ + 1, !.pw = @ + 1]
<1>1. b \in Accountlike /\ b.ver + 1 \in Nat /\ b.pw + 1 \in Nat
  BY DEF Account, Accountlike, Versions
<1>2. a.role = b.role /\ a.active = b.active /\ a.ver = b.ver + 1 /\ a.pw = b.pw + 1
  BY <1>1 DEF Accountlike
<1>3. a \in Accountlike
  BY <1>1 DEF Accountlike
<1> QED BY <1>2, <1>3

LEMMA ChangeKeepsIt ==
    ASSUME InductiveInvariant, NEW d \in Devices, Change(d)
    PROVE  InductiveInvariant'
<1> DEFINE u == cookie[d].sub
           t == [pc |-> "reissue", pw |-> staff[u].pw + 1]
           q == [pc |-> "invalidate", of |-> u, then |-> t]
           f == [req EXCEPT ![d] = q]
           a == [staff[u] EXCEPT !.ver = @ + 1, !.pw = @ + 1]
<1>1. /\ u \in Accounts /\ req[d].pc = "change" /\ changes < MaxChanges
      /\ staff[u] \in Account /\ staff[u].pw <= changes /\ changes \in Versions
  BY RequestIsGood DEF Change, InductiveInvariant, TypeOK, VersionsCounted
<1>2. staff[u].pw + 1 \in Versions
  BY <1>1 DEF Account, Versions
<1>3. t \in Reissues /\ t.pw = staff[u].pw + 1
  BY <1>2 DEF Reissues
<1>4. /\ a.role = staff[u].role /\ a.active = staff[u].active
      /\ a.ver = staff[u].ver + 1 /\ a.pw = staff[u].pw + 1 /\ a \in Accountlike
  BY <1>1, ChangedFields
<1>5. Revoke(u, a, f)
  BY DEF Change, Revoke
<1> HIDE DEF t
<1>6. q \in Requests /\ q.pc = "invalidate" /\ q.of = u /\ q.then = t
  BY <1>1, <1>3 DEF Requests, Invalidations
<1> HIDE DEF q
<1>7. /\ f \in [Devices -> Requests] /\ f[d] = q
      /\ \A e \in Devices \ {d} : f[e] = req[e]
  BY <1>6 DEF InductiveInvariant, TypeOK
<1> HIDE DEF f, a
<1>8. WritesAs(u, a)
  BY <1>4 DEF WritesAs
<1>9. GoesOn(d, u, a, f)
  BY <1>1, <1>3, <1>4, <1>6, <1>7 DEF GoesOn
<1> HIDE DEF u
<1> QED BY <1>1, <1>5, <1>8, <1>9, RevokeKeepsIt

\* What an update makes of the requests when it writes.
Overtakes(d, u, f) ==
    /\ f \in [Devices -> Requests]
    /\ f[d].pc = "invalidate" /\ f[d].of = u /\ f[d].then = Idle
    /\ \A e \in Devices \ {d} :
          \/ f[e] = req[e] /\ req[e].pc \notin {"count", "write"}
          \/ /\ f[e].pc = req[e].pc /\ f[e].pc \in {"count", "write"}
             /\ f[e].of = req[e].of /\ f[e].overtaken

LEMMA OvertakenFields ==
    ASSUME NEW q \in Updates
    PROVE  LET r == [q EXCEPT !.overtaken = TRUE] IN
           r \in Requests /\ r.pc = q.pc /\ r.of = q.of /\ r.overtaken
<1> DEFINE r == [q EXCEPT !.overtaken = TRUE]
<1>1. r \in Updates /\ r.pc = q.pc /\ r.of = q.of /\ r.overtaken
  BY DEF Updates
<1> QED BY <1>1 DEF Requests

LEMMA WriteOvertakes ==
    ASSUME InductiveInvariant, NEW d \in Devices, Write(d)
    PROVE  LET u == req[d].of
               p == req[d].patch
               a == Patched(staff[u], p) IN
           /\ req[d] \in Updates /\ u \in Accounts /\ p \in Patches
           /\ staff[u] \in Account /\ staff[u].role # "none"
           /\ a \in Accountlike
           /\ Overtakes(d, u, Overtaking(d))
<1> DEFINE u == req[d].of
           p == req[d].patch
           a == Patched(staff[u], p)
           q == [pc |-> "invalidate", of |-> u, then |-> Idle]
           f == Overtaking(d)
<1>1. req[d] \in Updates /\ req[d].pc = "write" /\ staff[u].role # "none"
  BY RequestIsGood, Shapes DEF Write, CountRight
<1>2. u \in Accounts /\ p \in Patches /\ staff[u] \in Account
  BY <1>1 DEF Updates, InductiveInvariant, TypeOK
<1>3. a \in Accountlike
  <2>1. /\ a.role \in {"admin", "desk"} /\ a.active \in BOOLEAN /\ a.ver \in Nat /\ a.pw \in Nat
    BY <1>1, <1>2, PatchedFields DEF Account, Versions
  <2>2. a = [role |-> a.role, active |-> a.active, ver |-> a.ver, pw |-> a.pw]
    BY DEF Patched
  <2> HIDE DEF a
  <2> QED BY <2>1, <2>2 DEF Accountlike
<1>4. q \in Requests /\ q.pc = "invalidate" /\ q.of = u /\ q.then = Idle
  BY <1>2 DEF Requests, Invalidations
<1>5. \A e \in Devices : f[e] = IF e = d THEN q
                                ELSE IF req[e].pc \in {"count", "write"}
                                     THEN [req[e] EXCEPT !.overtaken = TRUE]
                                     ELSE req[e]
  BY DEF Overtaking
<1>6. \A e \in Devices : /\ req[e] \in Requests
                         /\ req[e].pc \in {"count", "write"} => req[e] \in Updates
  BY RequestIsGood, Shapes
<1> HIDE DEF q
<1>7. f \in [Devices -> Requests]
  <2>1. \A e \in Devices : f[e] \in Requests
    BY <1>4, <1>5, <1>6, OvertakenFields
  <2> QED BY <2>1 DEF Overtaking
<1> HIDE DEF f, a
<1>8. Overtakes(d, u, f)
  <2>1. \A e \in Devices \ {d} :
          \/ f[e] = req[e] /\ req[e].pc \notin {"count", "write"}
          \/ /\ f[e].pc = req[e].pc /\ f[e].pc \in {"count", "write"}
             /\ f[e].of = req[e].of /\ f[e].overtaken
    <3> SUFFICES ASSUME NEW e \in Devices \ {d}
                 PROVE  \/ f[e] = req[e] /\ req[e].pc \notin {"count", "write"}
                        \/ /\ f[e].pc = req[e].pc /\ f[e].pc \in {"count", "write"}
                           /\ f[e].of = req[e].of /\ f[e].overtaken
      OBVIOUS
    <3> DEFINE r == [req[e] EXCEPT !.overtaken = TRUE]
    <3>1. CASE req[e].pc \in {"count", "write"}
      <4>1. f[e] = r
        BY <1>5, <3>1
      <4>2. req[e] \in Updates
        BY <1>6, <3>1
      <4>3. r.pc = req[e].pc /\ r.of = req[e].of /\ r.overtaken
        BY <4>2, OvertakenFields
      <4> HIDE DEF r
      <4> QED BY <3>1, <4>1, <4>3
    <3>2. CASE req[e].pc \notin {"count", "write"}
      <4>1. f[e] = req[e]
        BY <1>5, <3>2
      <4> QED BY <3>2, <4>1
    <3> QED BY <3>1, <3>2
  <2> QED BY <1>1, <1>4, <1>5, <1>7, <2>1 DEF Overtakes
<1> QED BY <1>1, <1>2, <1>3, <1>8 DEF f, a

LEMMA WriteKeepsIt ==
    ASSUME InductiveInvariant, NEW d \in Devices, Write(d)
    PROVE  InductiveInvariant'
<1> DEFINE u == req[d].of
           p == req[d].patch
           a == Patched(staff[u], p)
           f == Overtaking(d)
<1>1. /\ u \in Accounts /\ p \in Patches /\ staff[u] \in Account /\ staff[u].role # "none"
      /\ a \in Accountlike /\ Overtakes(d, u, f) /\ req[d].pc = "write"
  BY WriteOvertakes DEF Write
<1>2. staff' = [staff EXCEPT ![u] = a] /\ UNCHANGED cookie
  BY DEF Write
<1>3. CASE Revokes(p)
  <2>1. Revoke(u, a, f)
    BY <1>2, <1>3 DEF Write, Revoke
  <2>2. WritesAs(u, a)
    <3>1. a.ver = staff[u].ver + 1 /\ a.pw \in {staff[u].pw, staff[u].pw + 1} /\ a.role # "none"
      BY <1>1, <1>3, PatchedFields
    <3> QED BY <1>1, <3>1 DEF WritesAs
  <2>3. GoesOn(d, u, a, f)
    BY <1>1 DEF GoesOn, Overtakes
  <2> HIDE DEF u, p, a, f
  <2> QED BY <1>1, <2>1, <2>2, <2>3, RevokeKeepsIt
<1>4. CASE ~Revokes(p)
  <2>1. req' = f /\ UNCHANGED <<cache, changes, crossed>>
    BY <1>4 DEF Write
  <2>2. a.ver = staff[u].ver /\ a.pw = staff[u].pw /\ a.role # "none"
    BY <1>1, <1>4, PatchedFields
  <2> HIDE DEF u, p, a, f
  <2> USE DEF Overtakes
  <2>3. a \in Account
    BY <1>1, <2>2 DEF Account, Accountlike
  <2>4. /\ \A w \in Accounts : staff'[w] = IF w = u THEN a ELSE staff[w]
        /\ staff' \in [Accounts -> Account]
    BY <1>1, <1>2, <2>3 DEF InductiveInvariant, TypeOK
  <2>5. /\ req' \in [Devices -> Requests]
        /\ \A e \in Devices : req'[e].pc = req[e].pc \/ (req'[e].pc = "invalidate" /\ e = d)
    BY <1>1, <2>1
  <2>6. TypeOK'
    <3>1. \A e \in Devices : cookie'[e] = None => req'[e].pc \in {"idle", "login"}
      BY <1>1, <1>2, <2>5 DEF InductiveInvariant, TypeOK
    <3> QED BY <1>2, <2>1, <2>4, <2>5, <3>1 DEF InductiveInvariant, TypeOK
  <2>7. \A w \in Accounts : /\ staff'[w].ver = staff[w].ver /\ staff'[w].pw = staff[w].pw
                            /\ staff[w].role # "none" => staff'[w].role # "none"
    BY <2>2, <2>4
  <2>8. ASSUME NEW e \in Devices PROVE GoodRequest(e, req[e])'
    <3> SUFFICES ASSUME NEW r, r = req'[e] PROVE GoodRequest(e, req[e])'
      OBVIOUS
    <3>0. r \in Requests /\ (r.pc \in {"lookup", "reissue", "invalidate"} => cookie'[e].sub \in Accounts)
      BY <1>2, <2>5, <2>6, RequestIsGood DEF TypeOK
    <3>1. CASE r.pc \in {"count", "write"}
      <4>1. r.pc = req[e].pc /\ r.of = req[e].of /\ r.overtaken
        BY <1>1, <2>1, <3>1
      <4>2. staff[r.of].role # "none" /\ r.of \in Accounts
        BY <3>0, <3>1, <4>1, RequestIsGood, Shapes DEF CountRight, Updates
      <4> QED BY <2>7, <3>1, <4>1, <4>2 DEF GoodRequest, ReadRight, TokenRight, CountRight, TokenDue
    <3>2. CASE r.pc \notin {"count", "write"} /\ r = req[e]
      <4>1. ReadRight(e, r) /\ TokenRight(e, r)
        BY <3>2, RequestIsGood
      <4>2. ReadRight(e, r)' /\ TokenRight(e, r)'
        BY <1>2, <2>1, <2>7, <3>0, <4>1, Shapes
           DEF ReadRight, TokenRight, TokenDue, DuePassword, FollowsPassword, Logins
      <4> QED BY <3>2, <4>2 DEF GoodRequest, ReadRight, TokenRight, CountRight
    <3>3. CASE r.pc = "invalidate" /\ r.then = Idle
      BY <3>3 DEF GoodRequest, ReadRight, TokenRight, CountRight, TokenDue
    <3>4. (r.pc \in {"count", "write"}) \/ (r.pc \notin {"count", "write"} /\ r = req[e])
          \/ (r.pc = "invalidate" /\ r.then = Idle)
      BY <1>1, <2>1
    <3> QED BY <3>1, <3>2, <3>3, <3>4
  <2>9. \A e \in Devices : cookie'[e] # None =>
          FollowsPassword(cookie[e].sub, cookie[e].ver, cookie[e].pw)'
    BY <1>2, <2>1, <2>7, RequestIsGood DEF FollowsPassword
  <2>10. StaleOnlyByRace'
    <3> SUFFICES ASSUME NEW w \in Accounts, cache[w] # None, cache[w].account.ver # staff[w].ver,
                        ~cache[w].late
                 PROVE  \E e \in Devices : req'[e].pc = "invalidate" /\ req'[e].of = w
      BY <2>1, <2>7 DEF StaleOnlyByRace
    <3>1. PICK e \in Devices : req[e].pc = "invalidate" /\ req[e].of = w
      BY DEF InductiveInvariant, StaleOnlyByRace
    <3>2. e # d /\ req'[e] = req[e]
      BY <1>1, <2>1, <3>1
    <3> QED BY <3>1, <3>2
  <2> QED BY <2>1, <2>6, <2>7, <2>8, <2>9, <2>10 DEF InductiveInvariant, VersionsCounted
<1> QED BY <1>3, <1>4

LEMMA InvalidateKeepsIt ==
    ASSUME InductiveInvariant, NEW d \in Devices, Invalidate(d)
    PROVE  InductiveInvariant'
<1> DEFINE l == req[d]
           u == l.of
           q == l.then
<1>1. /\ l \in Invalidations /\ l.pc = "invalidate" /\ u \in Accounts /\ cookie[d] # None
      /\ TokenRight(d, l)
  BY RequestIsGood, Shapes DEF Invalidate, Invalidations
<1>2. q \in Requests /\ q.pc \in {"idle", "reissue"} /\ (q.pc = "reissue" <=> q # Idle)
  BY <1>1 DEF Invalidations, Reissues, Requests, Idle
<1>3. /\ cache' = [cache EXCEPT ![u] = None] /\ req' = [req EXCEPT ![d] = q]
      /\ UNCHANGED <<staff, cookie, changes, crossed>>
  BY DEF Invalidate
<1>4. /\ \A e \in Devices : req'[e] = IF e = d THEN q ELSE req[e]
      /\ \A w \in Accounts : cache'[w] = IF w = u THEN None ELSE cache[w]
  BY <1>3 DEF InductiveInvariant, TypeOK
<1>5. TypeOK'
  BY <1>1, <1>2, <1>3, <1>4 DEF InductiveInvariant, TypeOK
<1>6. TokenRight(d, q)
  BY <1>1, <1>2 DEF TokenRight, TokenDue, DuePassword
<1> HIDE DEF q
<1>7. GoodRequest(d, q)
  BY <1>2, <1>6 DEF GoodRequest, ReadRight, CountRight
<1>8. ASSUME NEW e \in Devices PROVE GoodRequest(e, req[e])'
  <2> SUFFICES ASSUME NEW r, r = req'[e] PROVE GoodRequest(e, req[e])'
    OBVIOUS
  <2>1. GoodRequest(e, r)
    BY <1>4, <1>7 DEF InductiveInvariant
  <2> QED BY <1>3, <2>1
       DEF GoodRequest, ReadRight, TokenRight, CountRight, FollowsPassword, Others, ActiveAdmins
<1>9. StaleOnlyByRace'
  BY <1>3, <1>4 DEF InductiveInvariant, StaleOnlyByRace
<1>10. \A e \in Devices : cookie'[e] # None =>
         FollowsPassword(cookie[e].sub, cookie[e].ver, cookie[e].pw)'
  BY <1>3 DEF InductiveInvariant, FollowsPassword
<1> QED BY <1>3, <1>4, <1>5, <1>8, <1>9, <1>10 DEF InductiveInvariant, VersionsCounted

LEMMA ReissueKeepsIt ==
    ASSUME InductiveInvariant, NEW d \in Devices, Reissue(d)
    PROVE  InductiveInvariant'
<1> DEFINE u == cookie[d].sub
           k == Token(u, staff[u].ver, req[d].pw)
<1>1. /\ req[d] \in Reissues /\ req[d].pc = "reissue" /\ u \in Accounts
      /\ TokenRight(d, req[d])
  BY RequestIsGood, Shapes DEF Reissue
<1>2. staff[u].ver \in Versions /\ req[d].pw \in Versions
  BY <1>1 DEF InductiveInvariant, TypeOK, Account, Reissues
<1>3. /\ k \in [sub : Accounts, ver : Versions, pw : Versions]
      /\ k.sub = u /\ k.ver = staff[u].ver /\ k.pw = req[d].pw
  BY <1>1, <1>2 DEF Token
<1>4. FollowsPassword(k.sub, k.ver, k.pw)
  BY <1>1, <1>2, <1>3 DEF TokenRight, TokenDue, DuePassword, FollowsPassword, Versions
<1>5. /\ cookie' = [cookie EXCEPT ![d] = k] /\ req' = [req EXCEPT ![d] = Idle]
      /\ UNCHANGED <<staff, cache, changes, crossed>>
  BY DEF Reissue
<1> HIDE DEF k
<1> QED BY <1>1, <1>3, <1>4, <1>5, CookieKeepsIt

-----------------------------------------------------------------------------
(* Time and crashes *)

LEMMA OlderLookUp ==
    ASSUME NEW q \in LookUps, q.age < MaxRead, q.stale <= q.age
    PROVE  /\ Older(q) \in LookUps /\ Older(q).pc = "lookup" /\ Older(q).account = q.account
           /\ Older(q).stale <= Older(q).age
           /\ Older(q).stale = Fresh => q.stale = Fresh
<1> DEFINE r == Older(q)
<1>1. /\ q.age \in 0..MaxRead /\ q.stale \in Stale /\ q.pc = "lookup" /\ q.account \in Seen
  BY DEF LookUps
<1>2. /\ r.pc = "lookup" /\ r.account = q.account /\ r.age = q.age + 1
      /\ r.stale = IF q.stale = Fresh THEN Fresh ELSE q.stale + 1
  BY DEF Older, LookUps
<1>3. r.age \in 0..MaxRead /\ r.stale \in Stale /\ r.stale <= r.age /\ (r.stale = Fresh => q.stale = Fresh)
  BY <1>1, <1>2 DEF Stale, Fresh, Bound
<1>4. r \in LookUps
  BY <1>1, <1>3 DEF Older, LookUps, Stale, Fresh, Bound
<1> QED BY <1>2, <1>3, <1>4

LEMMA OlderEntry ==
    ASSUME NEW e \in Cached, e.age + 1 < ACCOUNT_CACHE, e.stale <= e.age + MaxRead
    PROVE  /\ Older(e) \in Cached /\ Older(e).account = e.account /\ Older(e).late = e.late
           /\ Older(e).stale <= Older(e).age + MaxRead
<1> DEFINE r == Older(e)
<1>1. /\ e.age \in 0..(ACCOUNT_CACHE - 1) /\ e.stale \in Stale /\ e.account \in Seen
      /\ e.late \in BOOLEAN
  BY DEF Cached
<1>2. /\ r.account = e.account /\ r.late = e.late /\ r.age = e.age + 1
      /\ r.stale = IF e.stale = Fresh THEN Fresh ELSE e.stale + 1
  BY DEF Older, Cached
<1>3. r.age \in 0..(ACCOUNT_CACHE - 1) /\ r.stale \in Stale /\ r.stale <= r.age + MaxRead
  BY <1>1, <1>2 DEF Stale, Fresh, Bound
<1>4. r \in Cached
  BY <1>1, <1>2, <1>3 DEF Older, Cached
<1> QED BY <1>2, <1>3, <1>4

LEMMA TickKeepsIt ==
    ASSUME InductiveInvariant, Tick
    PROVE  InductiveInvariant'
<1>1. UNCHANGED <<staff, cookie, changes, crossed>>
  BY DEF Tick
<1>2. ASSUME NEW d \in Devices
      PROVE  /\ req'[d] \in Requests /\ req'[d].pc = req[d].pc
             /\ req[d].pc # "lookup" => req'[d] = req[d]
             /\ req[d].pc = "lookup" => /\ req'[d].stale <= req'[d].age
                                        /\ req'[d].account = req[d].account
                                        /\ req'[d].stale = Fresh => req[d].stale = Fresh
  <2>1. CASE req[d].pc = "lookup"
    <3>1. req[d] \in LookUps /\ req[d].age < MaxRead /\ req[d].stale <= req[d].age
      BY <2>1, RequestIsGood, Shapes DEF Tick, ReadRight
    <3>2. req'[d] = Older(req[d])
      BY <2>1 DEF Tick
    <3>3. LookUps \subseteq Requests
      BY DEF Requests
    <3> QED BY <2>1, <3>1, <3>2, <3>3, OlderLookUp
  <2>2. CASE req[d].pc # "lookup"
    BY <2>2, RequestIsGood DEF Tick
  <2> QED BY <2>1, <2>2
<1>3. ASSUME NEW u \in Accounts, cache'[u] # None
      PROVE  /\ cache[u] # None /\ cache'[u] \in Cached
             /\ cache'[u].account = cache[u].account /\ cache'[u].late = cache[u].late
             /\ cache'[u].stale <= cache'[u].age + MaxRead
  <2>1. cache[u] # None /\ cache[u].age + 1 < ACCOUNT_CACHE /\ cache'[u] = Older(cache[u])
    BY <1>3 DEF Tick
  <2>2. cache[u] \in Cached /\ cache[u].stale <= cache[u].age + MaxRead
    BY <2>1 DEF InductiveInvariant, TypeOK
  <2> QED BY <2>1, <2>2, OlderEntry
<1>4. TypeOK'
  <2>1. req' \in [Devices -> Requests]
    BY <1>2 DEF Tick
  <2>2. cache' \in [Accounts -> {None} \union Cached]
    BY <1>3 DEF Tick
  <2>3. \A d \in Devices : cookie'[d] = None => req'[d].pc \in {"idle", "login"}
    BY <1>1, <1>2 DEF InductiveInvariant, TypeOK
  <2> QED BY <1>1, <2>1, <2>2, <2>3 DEF InductiveInvariant, TypeOK
<1>5. ASSUME NEW e \in Devices PROVE GoodRequest(e, req[e])'
  <2> SUFFICES ASSUME NEW r, r = req'[e] PROVE GoodRequest(e, req[e])'
    OBVIOUS
  <2>1. GoodRequest(e, r)
    BY <1>2, RequestIsGood DEF GoodRequest, ReadRight, TokenRight, CountRight, TokenDue
  <2> QED BY <1>1, <2>1
       DEF GoodRequest, ReadRight, TokenRight, CountRight, FollowsPassword, Others, ActiveAdmins
<1>6. StaleOnlyByRace'
  <2> SUFFICES ASSUME NEW w \in Accounts, cache'[w] # None, cache'[w].account.ver # staff[w].ver,
                      ~cache'[w].late
               PROVE  \E e \in Devices : req'[e].pc = "invalidate" /\ req'[e].of = w
    BY <1>1 DEF StaleOnlyByRace
  <2>1. PICK e \in Devices : req[e].pc = "invalidate" /\ req[e].of = w
    BY <1>3 DEF InductiveInvariant, StaleOnlyByRace
  <2> QED BY <1>2, <2>1
<1>7. \A e \in Devices : cookie'[e] # None =>
        FollowsPassword(cookie[e].sub, cookie[e].ver, cookie[e].pw)'
  BY <1>1 DEF InductiveInvariant, FollowsPassword
<1> QED BY <1>1, <1>3, <1>4, <1>5, <1>6, <1>7 DEF InductiveInvariant, VersionsCounted

LEMMA RestartKeepsIt ==
    ASSUME InductiveInvariant, Restart
    PROVE  InductiveInvariant'
<1>1. /\ UNCHANGED <<staff, cookie, changes, crossed>>
      /\ \A e \in Devices : req'[e] = Idle
      /\ \A u \in Accounts : cache'[u] = None
  BY DEF Restart
<1>2. Idle \in Requests /\ Idle.pc = "idle"
  BY DEF Idle, Requests
<1>3. TypeOK'
  BY <1>1, <1>2 DEF Restart, InductiveInvariant, TypeOK
<1>4. ASSUME NEW e \in Devices PROVE GoodRequest(e, req[e])'
  BY <1>1, <1>2 DEF GoodRequest, ReadRight, TokenRight, CountRight, TokenDue
<1>5. \A e \in Devices : cookie'[e] # None =>
        FollowsPassword(cookie[e].sub, cookie[e].ver, cookie[e].pw)'
  BY <1>1 DEF InductiveInvariant, FollowsPassword
<1> QED BY <1>1, <1>3, <1>4, <1>5 DEF InductiveInvariant, VersionsCounted, StaleOnlyByRace

-----------------------------------------------------------------------------
(* The theorems *)

LEMMA InitInvariant == Init => InductiveInvariant
<1> SUFFICES ASSUME Init PROVE InductiveInvariant
  OBVIOUS
<1>1. Idle \in Requests /\ Idle.pc = "idle" /\ 0 \in Versions
  BY DEF Idle, Requests, Versions
<1>2. staff \in [Accounts -> Account]
  BY <1>1 DEF Init, Account
<1>3. TypeOK
  BY <1>1, <1>2 DEF Init, TypeOK
<1>4. \A d \in Devices : GoodRequest(d, req[d])
  BY <1>1 DEF Init, GoodRequest, ReadRight, TokenRight, CountRight, TokenDue
<1> QED BY <1>3, <1>4 DEF Init, InductiveInvariant, VersionsCounted, StaleOnlyByRace

LEMMA NextKeepsIt == InductiveInvariant /\ [Next]_vars => InductiveInvariant'
<1> SUFFICES ASSUME InductiveInvariant, [Next]_vars PROVE InductiveInvariant'
  OBVIOUS
<1>1. ASSUME NEW d \in Devices, SignIn(d) PROVE InductiveInvariant'
  BY <1>1, LoginReadKeepsIt, LoginDoneKeepsIt, LeaveKeepsIt DEF SignIn
<1>2. ASSUME NEW d \in Devices, GetStaff(d) PROVE InductiveInvariant'
  <2>1. CASE Done(d)
    BY <2>1, QuietTurnKeepsIt DEF Done
  <2> QED BY <1>2, <2>1, CacheHitKeepsIt, LookUpKeepsIt, FillKeepsIt DEF GetStaff
<1>3. ASSUME NEW d \in Devices, Manage(d) PROVE InductiveInvariant'
  BY <1>3, CreateKeepsIt, FindTargetKeepsIt, CountOthersKeepsIt, WriteKeepsIt, InvalidateKeepsIt
     DEF Manage, AddStaff, UpdateStaff
<1>4. ASSUME NEW d \in Devices, ChangePassword(d) PROVE InductiveInvariant'
  <2>1. CASE Compare(d)
    BY <2>1, QuietTurnKeepsIt DEF Compare
  <2> QED BY <1>4, <2>1, ChangeKeepsIt, ReissueKeepsIt DEF ChangePassword
<1>5. CASE UNCHANGED vars
  BY <1>5
     DEF vars, InductiveInvariant, TypeOK, VersionsCounted, GoodRequest, ReadRight, TokenRight,
         CountRight, FollowsPassword, Others, ActiveAdmins, StaleOnlyByRace
<1> QED BY <1>1, <1>2, <1>3, <1>4, <1>5, TickKeepsIt, RestartKeepsIt DEF Next

\* The invariant the other theorems follow from.
THEOREM Invariance == Spec => []InductiveInvariant
BY InitInvariant, NextKeepsIt, PTL DEF Spec

\* Type correctness of the accounts, the cache, the cookies and the requests.
THEOREM TypeCorrect == Spec => []TypeOK
<1>1. InductiveInvariant => TypeOK
  BY DEF InductiveInvariant
<1> QED BY <1>1, Invariance, PTL

\* accountState: a revocation lands everywhere within the life of a cache entry
\* and the duration of one lookup.
THEOREM RevocationLandsHolds == Spec => []RevocationLands
<1>1. InductiveInvariant => RevocationLands
  <2> SUFFICES ASSUME InductiveInvariant PROVE RevocationLands
    OBVIOUS
  <2>1. ASSUME NEW u \in Accounts, cache[u] # None PROVE cache[u].stale < Bound
    <3>1. /\ cache[u].stale <= cache[u].age + MaxRead /\ cache[u].age \in 0..(ACCOUNT_CACHE - 1)
          /\ cache[u].stale \in Stale
      BY <2>1 DEF InductiveInvariant, TypeOK, Cached
    <3> QED BY <3>1 DEF Bound, Stale, Fresh
  <2>2. ASSUME NEW d \in Devices, req[d].pc = "lookup" PROVE req[d].stale <= MaxRead
    <3>1. /\ req[d].stale <= req[d].age /\ req[d].age \in 0..MaxRead /\ req[d].stale \in Stale
      BY <2>2, RequestIsGood, Shapes DEF ReadRight, LookUps
    <3> QED BY <3>1 DEF Stale, Fresh, Bound
  <2> QED BY <2>1, <2>2 DEF RevocationLands
<1> QED BY <1>1, Invariance, PTL

\* invalidateStaffCache: only a lookup that had started before an update leaves
\* what the update superseded in the cache.
THEOREM StaleOnlyByRaceHolds == Spec => []StaleOnlyByRace
<1>1. InductiveInvariant => StaleOnlyByRace
  BY DEF InductiveInvariant
<1> QED BY <1>1, Invariance, PTL

\* loginStaff, changeOwnPassword and updateStaff: a token that is still good was
\* cut for the account's password, but for the crossed changes.
THEOREM TokensFollowPasswordHolds == Spec => []TokensFollowPassword
<1>1. InductiveInvariant => TokensFollowPassword
  BY DEF InductiveInvariant, TokensFollowPassword, FollowsPassword
<1> QED BY <1>1, Invariance, PTL

\* A write that nobody overtook leaves an administrator.
LEMMA WriteLeavesAdmin ==
    ASSUME InductiveInvariant, NEW d \in Devices, Write(d), ActiveAdmins # {}, ActiveAdmins' = {}
    PROVE  req[d].overtaken /\ req'[d].pc = "invalidate"
<1> DEFINE u == req[d].of
           p == req[d].patch
           a == Patched(staff[u], p)
           f == Overtaking(d)
<1>1. /\ req[d] \in Updates /\ u \in Accounts /\ p \in Patches /\ staff[u] \in Account
      /\ staff[u].role # "none" /\ Overtakes(d, u, f)
  BY WriteOvertakes
<1>2. \A w \in Accounts : staff'[w] = IF w = u THEN a ELSE staff[w]
  BY <1>1 DEF Write, InductiveInvariant, TypeOK
<1>3. Others(u) = {}
  BY <1>2 DEF Others, ActiveAdmins
<1>4. IsAdmin(staff[u]) /\ ~IsAdmin(a)
  BY <1>1, <1>2, <1>3 DEF Others, ActiveAdmins
<1>5. Removes(p)
  BY <1>1, <1>4, PatchedFields
<1>6. req[d].overtaken
  BY <1>3, <1>4, <1>5, RequestIsGood DEF Write, CountRight
<1>7. req'[d].pc = "invalidate"
  <2>1. f[d].pc = "invalidate"
    BY <1>1 DEF Overtakes
  <2>2. CASE req' = Supersede(u, f)
    BY <2>1, <2>2 DEF Supersede
  <2> QED BY <2>1, <2>2 DEF Write
<1> QED BY <1>6, <1>7

\* otherActiveAdmins: only an update that another one overtook between its reads
\* and its write takes the last administrator away.
THEOREM LastAdminStaysHolds == Spec => LastAdminStays
<1> DEFINE A == ActiveAdmins # {} /\ ActiveAdmins' = {} => \E d \in Devices :
                  req[d].pc = "write" /\ req[d].overtaken /\ req'[d].pc = "invalidate"
<1>1. InductiveInvariant /\ [Next]_vars => [A]_vars
  <2> SUFFICES ASSUME InductiveInvariant, Next, ActiveAdmins # {}, ActiveAdmins' = {}
               PROVE  \E d \in Devices :
                         req[d].pc = "write" /\ req[d].overtaken /\ req'[d].pc = "invalidate"
    OBVIOUS
  <2>1. CASE \E d \in Devices : Write(d)
    BY <2>1, WriteLeavesAdmin DEF Write
  <2>2. CASE \E d \in Devices : Change(d)
    <3>1. \A w \in Accounts : IsAdmin(staff[w])' <=> IsAdmin(staff[w])
      BY <2>2, RequestIsGood DEF Change, IsAdmin, InductiveInvariant, TypeOK, Account
    <3> QED BY <3>1 DEF ActiveAdmins
  <2>3. CASE \E d \in Devices : AddStaff(d)
    <3>1. \A w \in Accounts : IsAdmin(staff[w]) => IsAdmin(staff[w])'
      BY <2>3 DEF AddStaff, Create, IsAdmin, InductiveInvariant, TypeOK, Account
    <3> QED BY <3>1 DEF ActiveAdmins
  <2>4. CASE UNCHANGED staff
    BY <2>4 DEF ActiveAdmins, IsAdmin
  <2> QED BY <2>1, <2>2, <2>3, <2>4
       DEF Next, SignIn, LoginRead, LoginDone, Leave, GetStaff, CacheHit, LookUp, Fill, Done,
           Manage, UpdateStaff, FindTarget, CountOthers, Invalidate, ChangePassword, Compare,
           Reissue, Tick, Restart
<1>2. LastAdminStays <=> [][A]_vars
  BY DEF LastAdminStays
<1> HIDE DEF A
<1> QED BY <1>1, <1>2, Invariance, PTL DEF Spec
=============================================================================
