---------------------------- MODULE StaffAccounts ----------------------------
(***************************************************************************)
(* Staff accounts (lib/staffAdmin.ts, lib/staffAuth.ts), the requests that *)
(* use and change them (app/api/auth, app/api/admin/staff) and the screens *)
(* that send those requests.                                               *)
(*                                                                         *)
(* A device holds one cookie and works on one request.  Every request but  *)
(* a login starts with getStaff, which admits the cookie by what the       *)
(* account cache, or a lookup that then fills the cache, says of the       *)
(* account.  Time passes in ticks, of which a cache entry lives            *)
(* ACCOUNT_CACHE and a lookup takes at most MaxRead.                       *)
(***************************************************************************)
EXTENDS Integers

CONSTANTS
    Accounts,       \* e-mail addresses that have, or may be given, an account
    Admins,         \* those that are administrators to begin with
    Devices,        \* browsers
    ACCOUNT_CACHE,  \* ticks in ACCOUNT_CACHE_MS
    MaxRead,        \* ticks the lookup of an account takes at most
    MaxChanges,     \* bound on the changes that revoke tokens
    None            \* no cookie, no cache entry

ASSUME AdminsAssumption == Admins \subseteq Accounts
ASSUME TicksAssumption == ACCOUNT_CACHE \in Nat \ {0} /\ MaxRead \in Nat /\ MaxChanges \in Nat

VARIABLES
    staff,   \* StaffUser: role ("none" before the account exists), active,
             \*   ver (tokenVersion), pw (which password the hash is of)
    cache,   \* accountCache: what a lookup read, how long ago, and (history) for
             \*   how long it has been superseded and whether it was when it came
    cookie,  \* staff_session of each device: sub, ver, and the password proven
    req,     \* the request of each device
    changes, \* how many changes have revoked tokens
    crossed  \* history: accounts updated between a password change and its token

vars == <<staff, cache, cookie, req, changes, crossed>>

-----------------------------------------------------------------------------
Bound == ACCOUNT_CACHE + MaxRead

Versions == 0..MaxChanges

Fresh == -1

\* What the screens send, all of it for any account, since the list they show
\* may be out of date: the edit form always names a role, ...
Edits == [role : {"admin", "desk"}, active : {"-"}, password : BOOLEAN]

\* ... and the list switches an account on or off, or signs it out everywhere.
ListActions ==
    [role : {"-"}, active : {"on", "off"}, password : {FALSE}]
        \union {[role |-> "-", active |-> "-", password |-> FALSE]}

Patches == Edits \union ListActions

\* All of these but a reactivation revoke the tokens issued so far.
Revokes(p) == p.active # "on"

Removes(p) == p.active = "off" \/ p.role = "desk"

Patched(a, p) ==
    [role |-> IF p.role = "-" THEN a.role ELSE p.role,
     active |-> IF p.active = "-" THEN a.active ELSE p.active = "on",
     ver |-> IF Revokes(p) THEN a.ver + 1 ELSE a.ver,
     pw |-> IF p.password THEN a.pw + 1 ELSE a.pw]

IsAdmin(a) == a.role = "admin" /\ a.active

ActiveAdmins == {u \in Accounts : IsAdmin(staff[u])}

Idle == [pc |-> "idle"]

\* getStaff, once the state of the account is known.
Admit(d, account) ==
    IF account.active /\ account.ver = cookie[d].ver
    THEN [pc |-> "in", role |-> account.role]
    ELSE Idle

Init ==
    /\ staff = [u \in Accounts |->
                  [role |-> IF u \in Admins THEN "admin" ELSE "none",
                   active |-> TRUE, ver |-> 0, pw |-> 0]]
    /\ cache = [u \in Accounts |-> None]
    /\ cookie = [d \in Devices |-> None]
    /\ req = [d \in Devices |-> Idle]
    /\ changes = 0
    /\ crossed = {}

-----------------------------------------------------------------------------
(* Signing in and out                                                      *)

\* loginStaff reads the account; comparing the password takes its time.
LoginRead(d, u) ==
    /\ req[d] = Idle
    /\ staff[u].role # "none"
    /\ staff[u].active
    /\ req' = [req EXCEPT ![d] =
                 [pc |-> "login", sub |-> u, ver |-> staff[u].ver, pw |-> staff[u].pw]]
    /\ UNCHANGED <<staff, cache, cookie, changes, crossed>>

Token(u, ver, pw) == [sub |-> u, ver |-> ver, pw |-> pw]

\* Mutant: the token is cut at the version of the time of signing.
LoginDoneNow(d) ==
    /\ req[d].pc = "login"
    /\ cookie' = [cookie EXCEPT ![d] = Token(req[d].sub, staff[req[d].sub].ver, req[d].pw)]
    /\ req' = [req EXCEPT ![d] = Idle]
    /\ UNCHANGED <<staff, cache, changes, crossed>>

LoginDone(d) ==
    /\ req[d].pc = "login"
    /\ cookie' = [cookie EXCEPT ![d] = Token(req[d].sub, req[d].ver, req[d].pw)]
    /\ req' = [req EXCEPT ![d] = Idle]
    /\ UNCHANGED <<staff, cache, changes, crossed>>

\* Logging out, the end of the token's twelve hours, or a wrong password typed.
Leave(d) ==
    /\ req[d].pc \in {"idle", "login"}
    /\ cookie' = [cookie EXCEPT ![d] = IF req[d] = Idle THEN None ELSE @]
    /\ req' = [req EXCEPT ![d] = Idle]
    /\ UNCHANGED <<staff, cache, changes, crossed>>

-----------------------------------------------------------------------------
(* getStaff                                                                *)

\* Mutant: a hit keeps the entry alive.
CacheHitRenews(d) ==
    /\ req[d] = Idle
    /\ cookie[d] # None
    /\ cache[cookie[d].sub] # None
    /\ req' = [req EXCEPT ![d] = Admit(d, cache[cookie[d].sub].account)]
    /\ cache' = [cache EXCEPT ![cookie[d].sub].age = 0]
    /\ UNCHANGED <<staff, cookie, changes, crossed>>

CacheHit(d) ==
    /\ req[d] = Idle
    /\ cookie[d] # None
    /\ cache[cookie[d].sub] # None
    /\ req' = [req EXCEPT ![d] = Admit(d, cache[cookie[d].sub].account)]
    /\ UNCHANGED <<staff, cache, cookie, changes, crossed>>

Shown(a) == [role |-> a.role, active |-> a.active, ver |-> a.ver]

LookUp(d) ==
    /\ req[d] = Idle
    /\ cookie[d] # None
    /\ cache[cookie[d].sub] = None
    /\ req' = [req EXCEPT ![d] =
                 [pc |-> "lookup", account |-> Shown(staff[cookie[d].sub]), age |-> 0, stale |-> Fresh]]
    /\ UNCHANGED <<staff, cache, cookie, changes, crossed>>

Fill(d) ==
    /\ req[d].pc = "lookup"
    /\ cache' = [cache EXCEPT ![cookie[d].sub] =
                   [account |-> req[d].account, age |-> 0,
                    stale |-> req[d].stale, late |-> req[d].stale # Fresh]]
    /\ req' = [req EXCEPT ![d] = Admit(d, req[d].account)]
    /\ UNCHANGED <<staff, cookie, changes, crossed>>

\* A handler that changes no account, or refuses to.
Done(d) ==
    /\ req[d].pc = "in"
    /\ req' = [req EXCEPT ![d] = Idle]
    /\ UNCHANGED <<staff, cache, cookie, changes, crossed>>

-----------------------------------------------------------------------------
(* Managing accounts                                                       *)

\* An address that is taken is refused by the unique index.
Create(d, u, role) ==
    /\ req[d] = [pc |-> "in", role |-> "admin"]
    /\ staff' = IF staff[u].role = "none" THEN [staff EXCEPT ![u].role = role] ELSE staff
    /\ req' = [req EXCEPT ![d] = Idle]
    /\ UNCHANGED <<cache, cookie, changes, crossed>>

\* The account is read and the actor's own account protected.
FindTarget(d, u, p) ==
    /\ req[d] = [pc |-> "in", role |-> "admin"]
    /\ staff[u].role # "none"
    /\ ~(u = cookie[d].sub /\ Removes(p))
    /\ req' = [req EXCEPT ![d] =
                 [pc |-> IF IsAdmin(staff[u]) /\ Removes(p) THEN "count" ELSE "write",
                  of |-> u, patch |-> p, overtaken |-> FALSE]]
    /\ UNCHANGED <<staff, cache, cookie, changes, crossed>>

\* Mutant: accounts that are switched off count as well.
OthersEver(u) == {w \in Accounts \ {u} : staff[w].role = "admin"}

Others(u) == ActiveAdmins \ {u}

CountOthers(d) ==
    /\ req[d].pc = "count"
    /\ req' = [req EXCEPT ![d] =
                 IF Others(req[d].of) = {} THEN Idle ELSE [@ EXCEPT !.pc = "write"]]
    /\ UNCHANGED <<staff, cache, cookie, changes, crossed>>

\* What the write of a new version to account u does to what was read of it.
Aged(e) == IF e.stale = Fresh THEN [e EXCEPT !.stale = 0] ELSE e

Supersede(u, q) ==
    [e \in Devices |-> IF q[e].pc = "lookup" /\ cookie[e].sub = u THEN Aged(q[e]) ELSE q[e]]

SupersedeCache(u) == IF cache[u] = None THEN cache ELSE [cache EXCEPT ![u] = Aged(@)]

\* The other updates that have read, and not yet written, are overtaken.
Overtaking(d) ==
    [e \in Devices |->
       IF e = d THEN [pc |-> "invalidate", of |-> req[d].of, then |-> Idle]
       ELSE IF req[e].pc \in {"count", "write"} THEN [req[e] EXCEPT !.overtaken = TRUE]
       ELSE req[e]]

\* A change of one's own password whose new token is still to be cut, and for
\* which password.
TokenDue(q) == q.pc = "reissue" \/ (q.pc = "invalidate" /\ q.then # Idle)

DuePassword(q) == IF q.pc = "reissue" THEN q.pw ELSE q.then.pw

Reissuing == {cookie[d].sub : d \in {e \in Devices : TokenDue(req[e])}}

Write(d) ==
    /\ req[d].pc = "write"
    /\ LET u == req[d].of
           p == req[d].patch
       IN /\ staff' = [staff EXCEPT ![u] = Patched(@, p)]
          /\ IF Revokes(p)
             THEN /\ changes < MaxChanges
                  /\ changes' = changes + 1
                  /\ req' = Supersede(u, Overtaking(d))
                  /\ cache' = SupersedeCache(u)
                  /\ crossed' = crossed \union ({u} \intersect Reissuing)
             ELSE req' = Overtaking(d) /\ UNCHANGED <<cache, changes, crossed>>
    /\ UNCHANGED cookie

\* Mutant: the cache is left to run out.
InvalidateNothing(d) ==
    /\ req[d].pc = "invalidate"
    /\ req' = [req EXCEPT ![d] = @.then]
    /\ UNCHANGED <<staff, cache, cookie, changes, crossed>>

Invalidate(d) ==
    /\ req[d].pc = "invalidate"
    /\ cache' = [cache EXCEPT ![req[d].of] = None]
    /\ req' = [req EXCEPT ![d] = @.then]
    /\ UNCHANGED <<staff, cookie, changes, crossed>>

-----------------------------------------------------------------------------
(* Changing one's own password                                             *)

\* The account is read and the current password compared.
Compare(d) ==
    /\ req[d].pc = "in"
    /\ req' = [req EXCEPT ![d] = [pc |-> "change"]]
    /\ UNCHANGED <<staff, cache, cookie, changes, crossed>>

Change(d) ==
    /\ req[d].pc = "change"
    /\ LET u == cookie[d].sub IN
       /\ changes < MaxChanges
       /\ changes' = changes + 1
       /\ staff' = [staff EXCEPT ![u].ver = @ + 1, ![u].pw = @ + 1]
       /\ req' = Supersede(u, [req EXCEPT ![d] =
                    [pc |-> "invalidate", of |-> u,
                     then |-> [pc |-> "reissue", pw |-> staff[u].pw + 1]]])
       /\ cache' = SupersedeCache(u)
       /\ crossed' = crossed \union ({u} \intersect Reissuing)
    /\ UNCHANGED cookie

\* The version is read again, and the token cut at whatever it is by then.
Reissue(d) ==
    /\ req[d].pc = "reissue"
    /\ LET u == cookie[d].sub IN
       cookie' = [cookie EXCEPT ![d] = Token(u, staff[u].ver, req[d].pw)]
    /\ req' = [req EXCEPT ![d] = Idle]
    /\ UNCHANGED <<staff, cache, changes, crossed>>

-----------------------------------------------------------------------------
\* One tick; entries that have reached ACCOUNT_CACHE are as good as none.
Older(e) == [e EXCEPT !.age = @ + 1, !.stale = IF @ = Fresh THEN Fresh ELSE @ + 1]

Tick ==
    /\ \A d \in Devices : req[d].pc = "lookup" => req[d].age < MaxRead
    /\ req' = [d \in Devices |-> IF req[d].pc = "lookup" THEN Older(req[d]) ELSE req[d]]
    /\ cache' = [u \in Accounts |->
                   IF cache[u] # None /\ cache[u].age + 1 < ACCOUNT_CACHE
                   THEN Older(cache[u])
                   ELSE None]
    /\ UNCHANGED <<staff, cookie, changes, crossed>>

\* The process restarts: its memory and its requests are gone.
Restart ==
    /\ cache' = [u \in Accounts |-> None]
    /\ req' = [d \in Devices |-> Idle]
    /\ UNCHANGED <<staff, cookie, changes, crossed>>

SignIn(d) == (\E u \in Accounts : LoginRead(d, u)) \/ LoginDone(d) \/ Leave(d)

GetStaff(d) == CacheHit(d) \/ LookUp(d) \/ Fill(d) \/ Done(d)

AddStaff(d) == \E u \in Accounts, role \in {"admin", "desk"} : Create(d, u, role)

UpdateStaff(d) ==
    \/ \E u \in Accounts, p \in Patches : FindTarget(d, u, p)
    \/ CountOthers(d) \/ Write(d) \/ Invalidate(d)

Manage(d) == AddStaff(d) \/ UpdateStaff(d)

ChangePassword(d) == Compare(d) \/ Change(d) \/ Reissue(d)

Next ==
    \/ \E d \in Devices : SignIn(d) \/ GetStaff(d) \/ Manage(d) \/ ChangePassword(d)
    \/ Tick
    \/ Restart

Spec == Init /\ [][Next]_vars

-----------------------------------------------------------------------------
Account == [role : {"none", "admin", "desk"}, active : BOOLEAN, ver : Versions, pw : Versions]

Seen == [role : {"none", "admin", "desk"}, active : BOOLEAN, ver : Versions]

Stale == {Fresh} \union (0..Bound)

Logins == [pc : {"login"}, sub : Accounts, ver : Versions, pw : Versions]
LookUps == [pc : {"lookup"}, account : Seen, age : 0..MaxRead, stale : Stale]
Updates == [pc : {"count", "write"}, of : Accounts, patch : Patches, overtaken : BOOLEAN]
Reissues == [pc : {"reissue"}, pw : Versions]
Invalidations == [pc : {"invalidate"}, of : Accounts, then : {Idle} \union Reissues]
Admitted == [pc : {"in"}, role : {"none", "admin", "desk"}]

Requests ==
    {Idle, [pc |-> "change"]} \union Admitted \union Logins \union LookUps \union Updates
        \union Invalidations \union Reissues

Cached == [account : Seen, age : 0..(ACCOUNT_CACHE - 1), stale : Stale, late : BOOLEAN]

\* The types of the variables; a device with a request under way has a cookie,
\* or is about to get one.
TypeOK ==
    /\ staff \in [Accounts -> Account]
    /\ cache \in [Accounts -> {None} \union Cached]
    /\ cookie \in [Devices -> {None} \union [sub : Accounts, ver : Versions, pw : Versions]]
    /\ req \in [Devices -> Requests]
    /\ \A d \in Devices : cookie[d] = None => req[d].pc \in {"idle", "login"}
    /\ changes \in Versions
    /\ crossed \subseteq Accounts

(* A venue keeps an active administrator (updateStaff, otherActiveAdmins): only *)
(* an update that another one overtook between its reads and its write can      *)
(* remove the last.                                                             *)
LastAdminStays ==
    [][ActiveAdmins # {} /\ ActiveAdmins' = {} => \E d \in Devices :
           req[d].pc = "write" /\ req[d].overtaken /\ req'[d].pc = "invalidate"]_vars

(* Every change that revokes takes effect on every device within the life of a  *)
(* cache entry and the duration of one lookup (accountState): however lookups,  *)
(* fills and invalidations interleave, nothing that would admit a token is      *)
(* superseded for longer.                                                       *)
RevocationLands ==
    /\ \A u \in Accounts : cache[u] # None => cache[u].stale < Bound
    /\ \A d \in Devices : req[d].pc = "lookup" => req[d].stale <= MaxRead

(* On this instance a revocation takes effect at once (invalidateStaffCache),   *)
(* unless a lookup that had started before it fills the cache after it: the     *)
(* cache holds no other superseded entry once the update has invalidated it.    *)
StaleOnlyByRace ==
    \A u \in Accounts : cache[u] # None /\ cache[u].account.ver # staff[u].ver =>
        \/ cache[u].late
        \/ \E d \in Devices : req[d].pc = "invalidate" /\ req[d].of = u

(* A token that is still good was cut for the password the account has now      *)
(* (loginStaff, changeOwnPassword, updateStaff), unless the account was revoked *)
(* while a change of its password was waiting for its new token: that token is  *)
(* cut at whatever version it finds (app/api/auth/password).                    *)
TokensFollowPassword ==
    \A d \in Devices : cookie[d] # None /\ cookie[d].ver = staff[cookie[d].sub].ver =>
        cookie[d].pw = staff[cookie[d].sub].pw \/ cookie[d].sub \in crossed

-----------------------------------------------------------------------------
(* Why it is true *)

\* Versions and passwords are counted by the changes that revoke.
VersionsCounted == \A u \in Accounts : staff[u].ver <= changes /\ staff[u].pw <= changes

\* A token is not newer than its account, and if it is as new it is for the
\* same password.
FollowsPassword(u, ver, pw) ==
    /\ ver <= staff[u].ver
    /\ ver = staff[u].ver => pw = staff[u].pw \/ u \in crossed

\* What a lookup has read is current until it is superseded, after it began.
ReadRight(d, q) ==
    q.pc = "lookup" =>
        /\ q.stale <= q.age
        /\ q.stale = Fresh => q.account.ver = staff[cookie[d].sub].ver

\* The token that a login, or a change of password, is about to be given.
TokenRight(d, q) ==
    /\ q.pc = "login" => FollowsPassword(q.sub, q.ver, q.pw)
    /\ TokenDue(q) => DuePassword(q) = staff[cookie[d].sub].pw \/ cookie[d].sub \in crossed

\* An update that takes an administrator away has seen another one, and nobody
\* has written since, or it is overtaken.
CountRight(q) ==
    /\ q.pc \in {"count", "write"} => staff[q.of].role # "none"
    /\ q.pc = "write" /\ ~q.overtaken =>
          (IsAdmin(staff[q.of]) /\ Removes(q.patch) => Others(q.of) # {})

GoodRequest(d, q) == ReadRight(d, q) /\ TokenRight(d, q) /\ CountRight(q)

\* Inductive: it implies the properties above and every step keeps it.
InductiveInvariant ==
    /\ TypeOK
    /\ VersionsCounted
    /\ \A d \in Devices :
          /\ cookie[d] # None => FollowsPassword(cookie[d].sub, cookie[d].ver, cookie[d].pw)
          /\ GoodRequest(d, req[d])
    /\ \A u \in Accounts : cache[u] # None => cache[u].stale <= cache[u].age + MaxRead
    /\ StaleOnlyByRace
=============================================================================
