----------------------------- MODULE TableVisits -----------------------------
(***************************************************************************)
(* One table: the phones that scan its code, the sessions they are given   *)
(* (lib/tableSession.ts, app/scan/[code]/route.ts) and the visits those    *)
(* sessions belong to, from the first scan to the till or to the sweep of  *)
(* abandoned visits (lib/visit.ts).                                        *)
(*                                                                         *)
(* A scan is a sequence of database statements, and so is every request    *)
(* about a visit; each statement is an action, and any other scan or       *)
(* request may run between two of them.  Scan s creates at most one visit  *)
(* and at most one session, which are visit s and session s here.          *)
(* openedAt is taken before the row is inserted, so visits may become      *)
(* visible in another order than they were opened in.                      *)
(***************************************************************************)
EXTENDS Integers, FiniteSets

CONSTANTS
    Scans,                 \* scans of the table's code
    Requests,              \* slots for requests about a visit, phone or staff
    MAX_ACTIVE_PER_TABLE,  \* 6 in the code
    MaxSettled,            \* bound on how often one visit is settled
    MaxResets,             \* bound on how often the table's code is regenerated
    None                   \* no visit: a null visitId

ASSUME ScansAssumption == IsFiniteSet(Scans) /\ None \notin Scans
ASSUME BoundsAssumption ==
    /\ MAX_ACTIVE_PER_TABLE \in Nat \ {0}
    /\ MaxSettled \in Nat
    /\ MaxResets \in Nat

VARIABLES
    visit,      \* TableVisit.status, or "none" before the insert, "deleted" after
    reason,     \* TableVisit.closedReason
    openedAt,   \* TableVisit.openedAt, 0 before it is taken
    fresh,      \* visits opened or ordered from within ABANDON_AFTER_MS
    session,    \* TableSession: "none", "live", "expired" or "revoked"
    createdAt,  \* TableSession.createdAt, 0 before the insert
    at,         \* where each scan stands
    of,         \* the visit a scan settled on, then its session's visitId
    beyond,     \* sessions a scan is about to displace
    seenQr,     \* the qrVersion a scan's signature was checked against
    qrVersion,  \* Table.qrVersion
    req,        \* what a request about a visit holds after its read
    sweep,      \* visits the sweep has found abandoned and not closed yet
    clock,      \* the time of the last insert
    shownAt,    \* history: when a visit became visible to the others
    settled,    \* history: how often a visit was settled
    reopened    \* history: visits that were written open again after a close

visits == <<visit, reason, openedAt, fresh>>
scans == <<at, of, beyond, seenQr>>
history == <<shownAt, settled, reopened>>
vars == <<visit, reason, openedAt, fresh, session, createdAt, at, of, beyond,
          seenQr, qrVersion, req, sweep, clock, shownAt, settled, reopened>>

-----------------------------------------------------------------------------
Open == {"open", "bill_requested"}

OpenVisits == {v \in Scans : visit[v] \in Open}

Live == {s \in Scans : session[s] = "live"}

Oldest(S) == CHOOSE v \in S : \A w \in S : openedAt[v] <= openedAt[w]
Newest(S) == CHOOSE v \in S : \A w \in S : openedAt[v] >= openedAt[w]

\* Mutant: one phone too many is let through.
DisplacedLate ==
    {s \in Live : Cardinality({t \in Live : createdAt[t] > createdAt[s]}) > MAX_ACTIVE_PER_TABLE}

\* Sessions beyond the cap, counted from the newest.
Displaced ==
    {s \in Live : Cardinality({t \in Live : createdAt[t] > createdAt[s]}) >= MAX_ACTIVE_PER_TABLE}

Ended == {"done", "failed"}

Idle == [op |-> "idle", visit |-> None]

Init ==
    /\ visit = [v \in Scans |-> "none"]
    /\ reason = [v \in Scans |-> "null"]
    /\ openedAt = [v \in Scans |-> 0]
    /\ fresh = {}
    /\ session = [s \in Scans |-> "none"]
    /\ createdAt = [s \in Scans |-> 0]
    /\ at = [s \in Scans |-> "idle"]
    /\ of = [s \in Scans |-> None]
    /\ beyond = [s \in Scans |-> {}]
    /\ seenQr = [s \in Scans |-> 0]
    /\ qrVersion = 0
    /\ req = [r \in Requests |-> Idle]
    /\ sweep = {}
    /\ clock = 0
    /\ shownAt = [v \in Scans |-> 0]
    /\ settled = [v \in Scans |-> 0]
    /\ reopened = {}

-----------------------------------------------------------------------------
(* GET /scan/[code]: the signature is checked against the version read.    *)

Verify(s) ==
    /\ at[s] = "idle"
    /\ at' = [at EXCEPT ![s] = "verified"]
    /\ seenQr' = [seenQr EXCEPT ![s] = qrVersion]
    /\ UNCHANGED <<visits, session, createdAt, of, beyond, qrVersion, req, sweep, clock, history>>

-----------------------------------------------------------------------------
(* openOrJoinVisit *)

Join(s) ==
    /\ at[s] = "verified"
    /\ OpenVisits # {}
    /\ at' = [at EXCEPT ![s] = "resolved"]
    /\ of' = [of EXCEPT ![s] = Newest(OpenVisits)]
    /\ UNCHANGED <<visits, session, createdAt, beyond, seenQr, qrVersion, req, sweep, clock, history>>

FindNone(s) ==
    /\ at[s] = "verified"
    /\ OpenVisits = {}
    /\ at' = [at EXCEPT ![s] = "absent"]
    /\ UNCHANGED <<visits, session, createdAt, of, beyond, seenQr, qrVersion, req, sweep, clock, history>>

\* The insert, first its default for openedAt, then the row for all to see.
Stamp(s) ==
    /\ at[s] = "absent"
    /\ clock' = clock + 1
    /\ openedAt' = [openedAt EXCEPT ![s] = clock + 1]
    /\ at' = [at EXCEPT ![s] = "inserting"]
    /\ UNCHANGED <<visit, reason, fresh, session, createdAt, of, beyond, seenQr, qrVersion,
                   req, sweep, history>>

Insert(s) ==
    /\ at[s] = "inserting"
    /\ clock' = clock + 1
    /\ visit' = [visit EXCEPT ![s] = "open"]
    /\ fresh' = fresh \cup {s}
    /\ shownAt' = [shownAt EXCEPT ![s] = clock + 1]
    /\ at' = [at EXCEPT ![s] = "created"]
    /\ UNCHANGED <<reason, openedAt, session, createdAt, of, beyond, seenQr, qrVersion,
                   req, sweep, settled, reopened>>

\* Mutants: every visit that is not alone is discarded; or none is.
ContestedByAny(s) == Cardinality(OpenVisits) > 1
NeverContested(s) == FALSE

\* More than one open visit, and ours is not the oldest.
Contested(s) == Cardinality(OpenVisits) > 1 /\ Oldest(OpenVisits) # s

Reread(s) ==
    /\ at[s] = "created"
    /\ of' = [of EXCEPT ![s] = IF Contested(s) THEN Oldest(OpenVisits) ELSE s]
    /\ at' = [at EXCEPT ![s] = IF Contested(s) THEN "discarding" ELSE "resolved"]
    /\ UNCHANGED <<visits, session, createdAt, beyond, seenQr, qrVersion, req, sweep, clock, history>>

\* The foreign key sets the visitId of sessions minted meanwhile to null.
Discard(s) ==
    /\ at[s] = "discarding"
    /\ visit' = [visit EXCEPT ![s] = "deleted"]
    /\ of' = [t \in Scans |-> IF session[t] # "none" /\ of[t] = s THEN None ELSE of[t]]
    /\ at' = [at EXCEPT ![s] = "resolved"]
    /\ UNCHANGED <<reason, openedAt, fresh, session, createdAt, beyond, seenQr, qrVersion,
                   req, sweep, clock, history>>

-----------------------------------------------------------------------------
(* mintSession *)

Mint(s) ==
    /\ at[s] = "resolved"
    /\ visit[of[s]] # "deleted"
    /\ clock' = clock + 1
    /\ session' = [session EXCEPT ![s] = "live"]
    /\ createdAt' = [createdAt EXCEPT ![s] = clock + 1]
    /\ at' = [at EXCEPT ![s] = "minted"]
    /\ UNCHANGED <<visits, of, beyond, seenQr, qrVersion, req, sweep, history>>

\* The foreign key refuses the insert and the scan answers 500.
MintFails(s) ==
    /\ at[s] = "resolved"
    /\ visit[of[s]] = "deleted"
    /\ at' = [at EXCEPT ![s] = "failed"]
    /\ UNCHANGED <<visits, session, createdAt, of, beyond, seenQr, qrVersion, req, sweep, clock, history>>

CountPhones(s) ==
    /\ at[s] = "minted"
    /\ beyond' = [beyond EXCEPT ![s] = Displaced]
    /\ at' = [at EXCEPT ![s] = IF Displaced = {} THEN "done" ELSE "displacing"]
    /\ UNCHANGED <<visits, session, createdAt, of, seenQr, qrVersion, req, sweep, clock, history>>

Displace(s) ==
    /\ at[s] = "displacing"
    /\ session' = [t \in Scans |-> IF t \in beyond[s] THEN "revoked" ELSE session[t]]
    /\ beyond' = [beyond EXCEPT ![s] = {}]
    /\ at' = [at EXCEPT ![s] = "done"]
    /\ UNCHANGED <<visits, createdAt, of, seenQr, qrVersion, req, sweep, clock, history>>

Scan(s) ==
    \/ Verify(s) \/ Join(s) \/ FindNone(s) \/ Stamp(s) \/ Insert(s) \/ Reread(s) \/ Discard(s)
    \/ Mint(s) \/ MintFails(s) \/ CountPhones(s) \/ Displace(s)

-----------------------------------------------------------------------------
(* requestBill, clearBillRequest, settleVisit: a read that checks the visit *)
(* and a write; only the till's write checks it again.                     *)

Ask(r, op, v) == req' = [req EXCEPT ![r] = [op |-> op, visit |-> v]]

\* A phone whose session is still good asks for the bill of its own visit.
BillRead(r, s) ==
    /\ req[r] = Idle
    /\ session[s] = "live"
    /\ of[s] # None
    /\ visit[of[s]] = "open"
    /\ Ask(r, "bill", of[s])
    /\ UNCHANGED <<visits, session, createdAt, scans, qrVersion, sweep, clock, history>>

ClearRead(r, v) ==
    /\ req[r] = Idle
    /\ visit[v] = "bill_requested"
    /\ Ask(r, "clear", v)
    /\ UNCHANGED <<visits, session, createdAt, scans, qrVersion, sweep, clock, history>>

SettleRead(r, v) ==
    /\ req[r] = Idle
    /\ visit[v] \in Open
    /\ settled[v] < MaxSettled
    /\ Ask(r, "settle", v)
    /\ UNCHANGED <<visits, session, createdAt, scans, qrVersion, sweep, clock, history>>

\* An update of a deleted row throws and changes nothing.
WriteBack(r, op, s) ==
    LET v == req[r].visit
    IN  /\ req[r].op = op
        /\ visit' = [visit EXCEPT ![v] = IF visit[v] = "deleted" THEN "deleted" ELSE s]
        /\ reopened' = IF visit[v] = "closed" THEN reopened \cup {v} ELSE reopened
        /\ req' = [req EXCEPT ![r] = Idle]
        /\ UNCHANGED <<reason, openedAt, fresh, session, createdAt, scans, qrVersion, sweep,
                       clock, shownAt, settled>>

BillWrite(r) == WriteBack(r, "bill", "bill_requested")

ClearWrite(r) == WriteBack(r, "clear", "open")

\* Mutant: the close does not test the visit again.
SettleWriteUnchecked(r) ==
    LET v == req[r].visit
    IN  /\ req[r].op = "settle"
        /\ visit' = [visit EXCEPT ![v] = "closed"]
        /\ reason' = [reason EXCEPT ![v] = "settled"]
        /\ session' = [s \in Scans |-> IF session[s] # "none" /\ of[s] = v
                                       THEN "revoked" ELSE session[s]]
        /\ settled' = [settled EXCEPT ![v] = settled[v] + 1]
        /\ req' = [req EXCEPT ![r] = Idle]
        /\ UNCHANGED <<openedAt, fresh, createdAt, scans, qrVersion, sweep, clock, shownAt, reopened>>

\* The till closes the visit and revokes its sessions in one transaction.
SettleWrite(r) ==
    LET v == req[r].visit
    IN  /\ req[r].op = "settle"
        /\ visit[v] \in Open
        /\ visit' = [visit EXCEPT ![v] = "closed"]
        /\ reason' = [reason EXCEPT ![v] = "settled"]
        /\ session' = [s \in Scans |-> IF session[s] # "none" /\ of[s] = v
                                       THEN "revoked" ELSE session[s]]
        /\ settled' = [settled EXCEPT ![v] = settled[v] + 1]
        /\ req' = [req EXCEPT ![r] = Idle]
        /\ UNCHANGED <<openedAt, fresh, createdAt, scans, qrVersion, sweep, clock, shownAt, reopened>>

\* already_closed: the conditional update changed no row.
SettleLoses(r) ==
    /\ req[r].op = "settle"
    /\ visit[req[r].visit] \notin Open
    /\ req' = [req EXCEPT ![r] = Idle]
    /\ UNCHANGED <<visits, session, createdAt, scans, qrVersion, sweep, clock, history>>

Request(r) ==
    \/ \E s \in Scans : BillRead(r, s) \/ ClearRead(r, s) \/ SettleRead(r, s)
    \/ BillWrite(r) \/ ClearWrite(r) \/ SettleWrite(r) \/ SettleLoses(r)

-----------------------------------------------------------------------------
(* closeAbandonedVisits: one read, then one write for every visit found.   *)

\* Mutant: a visit whose bill was asked for is never abandoned.
AbandonedUnlessRequested(v) ==
    /\ visit[v] = "open"
    /\ v \notin fresh
    /\ \A s \in Scans : of[s] = v => session[s] # "live"

Abandoned(v) ==
    /\ visit[v] \in Open
    /\ v \notin fresh
    /\ \A s \in Scans : of[s] = v => session[s] # "live"

SweepRead ==
    /\ sweep = {}
    /\ \E v \in Scans : Abandoned(v)
    /\ sweep' = {v \in Scans : Abandoned(v)}
    /\ UNCHANGED <<visits, session, createdAt, scans, qrVersion, req, clock, history>>

SweepClose(v) ==
    /\ v \in sweep
    /\ sweep' = sweep \ {v}
    /\ visit' = [visit EXCEPT ![v] = "closed"]
    /\ reason' = [reason EXCEPT ![v] = "abandoned"]
    /\ UNCHANGED <<openedAt, fresh, session, createdAt, scans, qrVersion, req, clock, history>>

Sweep == SweepRead \/ \E v \in Scans : SweepClose(v)

-----------------------------------------------------------------------------
(* Orders, time and the admin *)

\* An order of a phone of the visit keeps it from being abandoned.
Order(s) ==
    /\ session[s] = "live"
    /\ of[s] # None
    /\ fresh' = fresh \cup {of[s]}
    /\ UNCHANGED <<visit, reason, openedAt, session, createdAt, scans, qrVersion, req, sweep,
                   clock, history>>

Expire(s) ==
    /\ session[s] = "live"
    /\ session' = [session EXCEPT ![s] = "expired"]
    /\ UNCHANGED <<visits, createdAt, scans, qrVersion, req, sweep, clock, history>>

\* ABANDON_AFTER_MS goes by.  It is longer than a session lives, and much
\* longer than a scan takes.
GrowOld(v) ==
    /\ v \in fresh
    /\ at[v] \in Ended
    /\ session[v] # "live"
    /\ fresh' = fresh \ {v}
    /\ UNCHANGED <<visit, reason, openedAt, session, createdAt, scans, qrVersion, req, sweep,
                   clock, history>>

\* DELETE /api/admin/sessions/[id].
RevokeSession(s) ==
    /\ session[s] # "none"
    /\ session' = [session EXCEPT ![s] = "revoked"]
    /\ UNCHANGED <<visits, createdAt, scans, qrVersion, req, sweep, clock, history>>

\* PATCH /api/admin/tables/[id] with regenerateQr, one transaction.
RegenerateQr ==
    /\ qrVersion < MaxResets
    /\ qrVersion' = qrVersion + 1
    /\ session' = [s \in Scans |-> IF session[s] = "none" THEN "none" ELSE "revoked"]
    /\ UNCHANGED <<visits, createdAt, scans, req, sweep, clock, history>>

Next ==
    \/ \E s \in Scans : Scan(s) \/ Order(s) \/ Expire(s) \/ GrowOld(s) \/ RevokeSession(s)
    \/ \E r \in Requests : Request(r)
    \/ Sweep
    \/ RegenerateQr

\* The server restarts between two statements of whatever it was doing.
Restart ==
    /\ at' = [s \in Scans |-> IF at[s] = "idle" \/ at[s] = "done" THEN at[s] ELSE "failed"]
    /\ of' = [s \in Scans |-> IF session[s] = "none" THEN None ELSE of[s]]
    /\ beyond' = [s \in Scans |-> {}]
    /\ req' = [r \in Requests |-> Idle]
    /\ sweep' = {}
    /\ UNCHANGED <<visits, session, createdAt, seenQr, qrVersion, clock, history>>

Spec == Init /\ [][Next]_vars

\* The same, with restarts of the server.
FaultySpec == Init /\ [][Next \/ Restart]_vars

\* A scan under way ends, sessions expire, time passes and the sweep's timer
\* fires.  Nobody has to scan, order, ask for the bill or settle it.
Fairness ==
    /\ \A s \in Scans : WF_vars(at[s] # "idle" /\ Scan(s))
    /\ \A s \in Scans : WF_vars(Expire(s)) /\ WF_vars(GrowOld(s))
    /\ WF_vars(Sweep)

FairSpec == Spec /\ Fairness

-----------------------------------------------------------------------------
(* What the code keeps true *)

TypeOK ==
    /\ visit \in [Scans -> Open \cup {"none", "closed", "deleted"}]
    /\ reason \in [Scans -> {"null", "settled", "abandoned"}]
    /\ openedAt \in [Scans -> Nat]
    /\ fresh \in SUBSET Scans
    /\ session \in [Scans -> {"none", "live", "expired", "revoked"}]
    /\ createdAt \in [Scans -> Nat]
    /\ at \in [Scans -> {"idle", "verified", "absent", "inserting", "created", "discarding",
                         "resolved", "minted", "displacing"} \cup Ended]
    /\ of \in [Scans -> Scans \cup {None}]
    /\ beyond \in [Scans -> SUBSET Scans]
    /\ seenQr \in [Scans -> Nat]
    /\ qrVersion \in 0..MaxResets
    /\ req \in [Requests -> [op : {"idle", "bill", "clear", "settle"}, visit : Scans \cup {None}]]
    /\ sweep \in SUBSET Scans
    /\ clock \in Nat
    /\ shownAt \in [Scans -> Nat]
    /\ settled \in [Scans -> Nat]
    /\ reopened \in SUBSET Scans

\* Scans that race at an idle table never all discard what they created: the
\* oldest visit the table ever had is not deleted, whoever else came and went,
\* unless a till settled it before its own scan had looked again.
OldestVisitSurvives ==
    \A v \in Scans :
        /\ visit[v] # "none" /\ settled[v] = 0
        /\ \A w \in Scans : visit[w] # "none" => openedAt[v] <= openedAt[w]
        => visit[v] # "deleted"

\* The second look of openOrJoinVisit catches every race in which the visits
\* appeared in the order they were opened in: a newer visit its scan kept never
\* stands beside an older one that was there before it, unless one of them was
\* closed at the time and written open again.
RereadCatchesOlderVisit ==
    \A v, w \in OpenVisits \ reopened :
        of[w] = w /\ openedAt[v] < openedAt[w] => shownAt[v] > shownAt[w]

\* Two tills never both settle a visit, nor does a settled one come back,
\* except through a bill request whose write comes after the close.
SettlementIsFinal ==
    \A v \in Scans \ reopened : settled[v] > 0 => settled[v] = 1 /\ visit[v] \notin Open

\* The table's phones exceed the cap by at most the scans that have yet to
\* displace the oldest ones.
SeatsBounded ==
    Cardinality(Live) <=
        MAX_ACTIVE_PER_TABLE + Cardinality({s \in Scans : at[s] \in {"minted", "displacing"}})

\* A table becomes free again, whether or not staff ever settle it.
TableFreed == \A v \in Scans : visit[v] \in Open ~> visit[v] \notin Open

-----------------------------------------------------------------------------
(* Why it is true *)

\* A visit is opened at a time of its own, before it is there for others.
OpenedApart ==
    /\ \A v \in Scans : openedAt[v] <= clock /\ shownAt[v] <= clock
    /\ \A v, w \in Scans : openedAt[v] = openedAt[w] /\ openedAt[v] > 0 => v = w
    /\ \A v \in Scans : visit[v] # "none" \/ at[v] = "inserting" => openedAt[v] > 0

\* How far a scan is says what it has created and resolved.
ScanProgress ==
    \A s \in Scans :
        /\ at[s] \in {"idle", "verified", "absent", "inserting"} => visit[s] = "none"
        /\ at[s] \in {"created", "discarding"} => visit[s] # "none"
        /\ at[s] \in {"idle", "verified", "absent", "inserting", "created"} => of[s] = None
        /\ at[s] = "created" => s \in fresh \ sweep /\ (visit[s] \in Open \/ settled[s] > 0)
        /\ visit[s] = "none" => settled[s] = 0 /\ s \notin sweep

\* Requests are about visits that were there when they read them.
RequestsKnowVisit ==
    \A r \in Requests : req[r].op # "idle" =>
        req[r].visit \in Scans /\ visit[req[r].visit] # "none"

\* A scan discards its visit because of an older one.
LoserHasElder ==
    \A s \in Scans : (at[s] = "discarding" \/ visit[s] = "deleted") /\ settled[s] = 0 =>
        \E v \in Scans : visit[v] # "none" /\ openedAt[v] < openedAt[s]

Unminted == {"idle", "verified", "absent", "inserting", "created", "discarding", "resolved"}

\* A session is inserted at a time of its own.
SessionsApart ==
    /\ \A s \in Scans : createdAt[s] <= clock
    /\ \A s \in Scans : session[s] # "none" => createdAt[s] > 0
    /\ \A s, t \in Scans : createdAt[s] = createdAt[t] /\ createdAt[s] > 0 => s = t
    /\ \A s \in Scans : at[s] \in Unminted => createdAt[s] = 0
    /\ \A s \in Scans : \A t \in beyond[s] : session[t] # "none"

\* The live sessions inserted after that of x, up to that of y.
Between(x, y) == {t \in Live : createdAt[x] < createdAt[t] /\ createdAt[t] <= createdAt[y]}

\* A scan that has counted the phones has room for every one up to its own that
\* it will not displace; those that came later are for their own scans to count.
Seated ==
    \A y \in Scans : at[y] \in {"displacing", "done"} =>
        \A x \in Live : createdAt[x] <= createdAt[y] =>
            \/ Cardinality(Between(x, y)) < MAX_ACTIVE_PER_TABLE
            \/ at[y] = "displacing" /\ x \in beyond[y]

\* Without restarts a live session's scan goes on to count the phones.
LiveIsCounted == \A s \in Live : at[s] \in {"minted", "displacing", "done"}

\* Inductive, restarts included: it implies the invariants above, SeatsBounded
\* only with LiveIsCounted, and every step keeps it.
InductiveInvariant ==
    /\ TypeOK
    /\ OpenedApart
    /\ ScanProgress
    /\ RequestsKnowVisit
    /\ LoserHasElder
    /\ RereadCatchesOlderVisit
    /\ SettlementIsFinal
    /\ SessionsApart
    /\ Seated

-----------------------------------------------------------------------------
(* What the repository says, and the code does not keep true: checked as an *)
(* invariant, each of these has a counterexample.                          *)

\* visit.ts: "keep the older row and discard ours, so a table never ends up with
\* two open visits".
OneOpenVisit == \A v, w \in OpenVisits : at[v] \in Ended /\ at[w] \in Ended => v = w

\* tableSession.ts, of a session's visit: "null only for pre-visit sessions".
LiveSessionHasVisit == \A s \in Live : of[s] # None

\* visit.ts, settleVisit: "The party has paid and left; their phones must not
\* keep ordering."
PaidPhonesStop ==
    \A s \in Live : of[s] # None /\ visit[of[s]] = "closed" => reason[of[s]] # "settled"

\* visit.ts: two tills settling the same table "cannot produce a second
\* settlement".
OneSettlement == \A v \in Scans : settled[v] <= 1

\* schema.prisma, closedReason: "abandoned - every session died without
\* settlement", so an abandoned visit has not been settled ...
AbandonedWasNotSettled == \A v \in Scans : reason[v] = "abandoned" => settled[v] = 0

\* ... and has no phone left that can order.
AbandonedPartyIsGone ==
    \A s \in Live : of[s] # None /\ visit[of[s]] = "closed" => reason[of[s]] # "abandoned"

\* admin/tables/[id]: regenerating the code invalidates every print of it, "live
\* sessions are also killed so the reset is total".
ResetIsTotal == \A s \in Live : seenQr[s] = qrVersion

=============================================================================
