------------------------- MODULE TableVisits_proofs -------------------------
(***************************************************************************)
(* Theorems about TableVisits, for any number of scans, of requests about  *)
(* a visit, of settlements and of resets of the table's code, and with     *)
(* restarts of the server at any point.                                    *)
(***************************************************************************)
EXTENDS TableVisits, FiniteSetTheorems, WellFoundedInduction, TLAPS

USE BoundsAssumption, ScansAssumption

-----------------------------------------------------------------------------
(* The oldest and the newest of a set of visits *)

\* The least-number principle, from the well-foundedness of < on Nat.
LEMMA LeastNumber ==
    ASSUME NEW T \in SUBSET Nat, T # {}
    PROVE  \E x \in T : \A y \in T : x <= y
<1> DEFINE R == {ss \in Nat \X Nat : ss[1] < ss[2]}
<1>1. IsWellFoundedOn(R, Nat)
  BY NatLessThanWellFounded, Zenon DEF OpToRel
<1>2. \A x, y \in Nat : <<y, x>> \in R <=> y < x
  OBVIOUS
<1> HIDE DEF R
<1>3. PICK x \in T : \A y \in T : ~ (<<y, x>> \in R)
  BY <1>1, WFMin
<1>4. ASSUME NEW y \in T PROVE x <= y
  <2>1. x \in Nat /\ y \in Nat
    OBVIOUS
  <2>2. ~ (<<y, x>> \in R)
    BY <1>3
  <2>3. ~ (y < x)
    BY <1>2, <2>1, <2>2
  <2> QED BY <2>1, <2>3
<1> QED BY <1>4

\* A set of scans has a first and a last by any time that is not in the future.
LEMMA FirstOf ==
    ASSUME NEW f \in [Scans -> Nat], NEW S \in SUBSET Scans, S # {}
    PROVE  \E v \in S : \A w \in S : f[v] <= f[w]
<1> DEFINE T == {f[v] : v \in S}
<1>1. T \in SUBSET Nat /\ T # {}
  OBVIOUS
<1> HIDE DEF T
<1>2. PICK x \in T : \A y \in T : x <= y
  BY <1>1, LeastNumber
<1> QED BY <1>2 DEF T

LEMMA LastOf ==
    ASSUME NEW f \in [Scans -> Nat], NEW now \in Nat, \A v \in Scans : f[v] <= now,
           NEW S \in SUBSET Scans, S # {}
    PROVE  \E v \in S : \A w \in S : f[w] <= f[v]
<1> DEFINE g == [v \in Scans |-> now - f[v]]
<1>1. g \in [Scans -> Nat]
  OBVIOUS
<1>2. \A v \in Scans : g[v] = now - f[v]
  OBVIOUS
<1> HIDE DEF g
<1>3. PICK v \in S : \A w \in S : g[v] <= g[w]
  BY <1>1, FirstOf
<1>4. ASSUME NEW w \in S PROVE f[w] <= f[v]
  <2>1. now - f[v] <= now - f[w] /\ f[v] \in Nat /\ f[w] \in Nat
    BY <1>2, <1>3
  <2> QED BY <2>1
<1> QED BY <1>4

\* Oldest picks a member of the set that no other precedes.
LEMMA OldestIsFirst ==
    ASSUME openedAt \in [Scans -> Nat], NEW S \in SUBSET Scans, S # {}
    PROVE  Oldest(S) \in S /\ \A w \in S : openedAt[Oldest(S)] <= openedAt[w]
<1>1. \E v \in S : \A w \in S : openedAt[v] <= openedAt[w]
  BY FirstOf
<1> QED BY <1>1 DEF Oldest

\* Newest picks a member of the set, given that no visit is opened in the future.
LEMMA NewestIsMember ==
    ASSUME openedAt \in [Scans -> Nat], clock \in Nat, \A v \in Scans : openedAt[v] <= clock,
           NEW S \in SUBSET Scans, S # {}
    PROVE  Newest(S) \in S
<1>1. PICK v \in S : \A w \in S : openedAt[w] <= openedAt[v]
  BY LastOf
<1>2. \A w \in S : openedAt[v] >= openedAt[w]
  BY <1>1
<1> QED BY <1>2 DEF Newest

LEMMA ContestedIsNotAlone ==
    ASSUME NEW s, Contested(s) PROVE OpenVisits # {}
BY FS_EmptySet DEF Contested

\* A contested visit that is open has an older one beside it.
LEMMA ContestedHasElder ==
    ASSUME TypeOK, OpenedApart, NEW s \in OpenVisits, Contested(s)
    PROVE  /\ Oldest(OpenVisits) \in OpenVisits
           /\ openedAt[Oldest(OpenVisits)] < openedAt[s]
<1>1. OpenVisits \in SUBSET Scans /\ openedAt \in [Scans -> Nat]
  BY DEF OpenVisits, TypeOK
<1>2. Oldest(OpenVisits) \in OpenVisits /\ openedAt[Oldest(OpenVisits)] <= openedAt[s]
  BY <1>1, OldestIsFirst
<1>3. Oldest(OpenVisits) # s
  BY DEF Contested
<1>4. openedAt[s] > 0
  BY DEF OpenedApart, OpenVisits, Open
<1>5. openedAt[Oldest(OpenVisits)] # openedAt[s]
  BY <1>1, <1>2, <1>3, <1>4 DEF OpenedApart
<1> QED BY <1>1, <1>2, <1>5

\* A visit that is not contested has no older open one beside it, if it is open.
LEMMA UncontestedIsOldest ==
    ASSUME TypeOK, NEW s \in OpenVisits, ~Contested(s), NEW v \in OpenVisits
    PROVE  openedAt[s] <= openedAt[v]
<1>1. OpenVisits \in SUBSET Scans /\ openedAt \in [Scans -> Nat]
  BY DEF OpenVisits, TypeOK
<1>2. IsFiniteSet(OpenVisits)
  BY <1>1, FS_Subset
<1>3. CASE Oldest(OpenVisits) = s
  BY <1>1, <1>3, OldestIsFirst
<1>4. CASE ~(Cardinality(OpenVisits) > 1)
  <2>1. Cardinality(OpenVisits) \in Nat /\ Cardinality(OpenVisits) # 0
    BY <1>2, FS_CardinalityType, FS_EmptySet
  <2>2. Cardinality(OpenVisits) = 1
    BY <1>4, <2>1
  <2>3. PICK x : OpenVisits = {x}
    BY <1>2, <2>2, FS_Singleton
  <2>4. v = s /\ s \in Scans
    BY <1>1, <2>3
  <2> QED BY <1>1, <2>4
<1> QED BY <1>3, <1>4 DEF Contested

-----------------------------------------------------------------------------
(* Type correctness *)

LEMMA InitTypeOK == Init => TypeOK
BY DEF Init, TypeOK, Open, Ended, Idle

LEMMA TypeOKStep == TypeOK /\ OpenedApart /\ RequestsKnowVisit /\ [Next \/ Restart]_vars => TypeOK'
<1> SUFFICES ASSUME TypeOK, OpenedApart, RequestsKnowVisit, [Next \/ Restart]_vars PROVE TypeOK'
  OBVIOUS
<1> USE DEF TypeOK, visits, scans, history, Ended
<1>1. ASSUME NEW s \in Scans, Verify(s) PROVE TypeOK'
  BY <1>1 DEF Verify
<1>2. ASSUME NEW s \in Scans, Join(s) PROVE TypeOK'
  <2>1. openedAt \in [Scans -> Nat] /\ clock \in Nat /\ \A v \in Scans : openedAt[v] <= clock
    BY DEF OpenedApart
  <2>2. OpenVisits \in SUBSET Scans /\ OpenVisits # {}
    BY <1>2 DEF OpenVisits, Join
  <2>3. Newest(OpenVisits) \in Scans
    BY <2>1, <2>2, NewestIsMember
  <2> QED BY <1>2, <2>3 DEF Join
<1>3. ASSUME NEW s \in Scans, FindNone(s) PROVE TypeOK'
  BY <1>3 DEF FindNone
<1>4. ASSUME NEW s \in Scans, Stamp(s) PROVE TypeOK'
  BY <1>4 DEF Stamp
<1>5. ASSUME NEW s \in Scans, Insert(s) PROVE TypeOK'
  BY <1>5 DEF Insert, Open
<1>6. ASSUME NEW s \in Scans, Reread(s) PROVE TypeOK'
  <2>1. openedAt \in [Scans -> Nat] /\ OpenVisits \in SUBSET Scans
    BY DEF OpenVisits
  <2>2. Contested(s) => OpenVisits # {}
    BY ContestedIsNotAlone
  <2>3. Contested(s) => Oldest(OpenVisits) \in Scans
    BY <2>1, <2>2, OldestIsFirst
  <2> QED BY <1>6, <2>3 DEF Reread
<1>7. ASSUME NEW s \in Scans, Discard(s) PROVE TypeOK'
  BY <1>7 DEF Discard
<1>8. ASSUME NEW s \in Scans, Mint(s) PROVE TypeOK'
  BY <1>8 DEF Mint
<1>9. ASSUME NEW s \in Scans, MintFails(s) PROVE TypeOK'
  BY <1>9 DEF MintFails
<1>10. ASSUME NEW s \in Scans, CountPhones(s) PROVE TypeOK'
  BY <1>10 DEF CountPhones, Displaced, Live
<1>11. ASSUME NEW s \in Scans, Displace(s) PROVE TypeOK'
  BY <1>11 DEF Displace
<1>12. ASSUME NEW s \in Scans, Order(s) PROVE TypeOK'
  BY <1>12 DEF Order
<1>13. ASSUME NEW s \in Scans, Expire(s) PROVE TypeOK'
  BY <1>13 DEF Expire
<1>14. ASSUME NEW s \in Scans, GrowOld(s) PROVE TypeOK'
  BY <1>14 DEF GrowOld
<1>15. ASSUME NEW s \in Scans, RevokeSession(s) PROVE TypeOK'
  BY <1>15 DEF RevokeSession
<1>16. ASSUME NEW r \in Requests, NEW s \in Scans, BillRead(r, s) PROVE TypeOK'
  BY <1>16 DEF BillRead, Ask
<1>17. ASSUME NEW r \in Requests, NEW s \in Scans, ClearRead(r, s) PROVE TypeOK'
  BY <1>17 DEF ClearRead, Ask
<1>18. ASSUME NEW r \in Requests, NEW s \in Scans, SettleRead(r, s) PROVE TypeOK'
  BY <1>18 DEF SettleRead, Ask
<1>19. ASSUME NEW r \in Requests, BillWrite(r) PROVE TypeOK'
  <2>1. req[r].visit \in Scans
    BY <1>19 DEF BillWrite, WriteBack, RequestsKnowVisit
  <2> QED BY <1>19, <2>1 DEF BillWrite, WriteBack, Open, Idle
<1>20. ASSUME NEW r \in Requests, ClearWrite(r) PROVE TypeOK'
  <2>1. req[r].visit \in Scans
    BY <1>20 DEF ClearWrite, WriteBack, RequestsKnowVisit
  <2> QED BY <1>20, <2>1 DEF ClearWrite, WriteBack, Open, Idle
<1>21. ASSUME NEW r \in Requests, SettleWrite(r) PROVE TypeOK'
  <2>1. req[r].visit \in Scans
    BY <1>21 DEF SettleWrite, RequestsKnowVisit
  <2> QED BY <1>21, <2>1 DEF SettleWrite, Idle
<1>22. ASSUME NEW r \in Requests, SettleLoses(r) PROVE TypeOK'
  BY <1>22 DEF SettleLoses, Idle
<1>23. ASSUME SweepRead PROVE TypeOK'
  BY <1>23 DEF SweepRead
<1>24. ASSUME NEW v \in Scans, SweepClose(v) PROVE TypeOK'
  BY <1>24 DEF SweepClose
<1>25. ASSUME RegenerateQr PROVE TypeOK'
  BY <1>25 DEF RegenerateQr
<1>26. ASSUME Restart PROVE TypeOK'
  BY <1>26 DEF Restart, Idle
<1>27. ASSUME UNCHANGED vars PROVE TypeOK'
  BY <1>27 DEF vars
<1> QED
  BY <1>1, <1>2, <1>3, <1>4, <1>5, <1>6, <1>7, <1>8, <1>9, <1>10, <1>11, <1>12, <1>13, <1>14, <1>15, <1>16, <1>17, <1>18, <1>19, <1>20, <1>21, <1>22, <1>23, <1>24, <1>25, <1>26, <1>27 DEF Next, Scan, Request, Sweep

-----------------------------------------------------------------------------
(* The parts of the inductive invariant, one lemma each *)

\* Opening a visit takes a time later than all others.
LEMMA OpenedApartStep == TypeOK /\ OpenedApart /\ ScanProgress /\ RequestsKnowVisit /\ [Next \/ Restart]_vars => OpenedApart'
<1> SUFFICES ASSUME TypeOK, OpenedApart, ScanProgress, RequestsKnowVisit, [Next \/ Restart]_vars PROVE OpenedApart'
  OBVIOUS
<1> USE DEF TypeOK, OpenedApart, visits, scans, history
<1>1. ASSUME NEW s \in Scans, Stamp(s)
      PROVE  OpenedApart'
  BY <1>1 DEF Stamp, ScanProgress
<1>2. ASSUME NEW s \in Scans, Insert(s)
      PROVE  OpenedApart'
  BY <1>2 DEF Insert, Open
<1>3. ASSUME NEW s \in Scans, Reread(s)
      PROVE  OpenedApart'
  BY <1>3 DEF Reread
<1>4. ASSUME NEW s \in Scans, Discard(s)
      PROVE  OpenedApart'
  BY <1>4 DEF Discard, ScanProgress
<1>5. ASSUME NEW r \in Requests, BillWrite(r)
      PROVE  OpenedApart'
  BY <1>5 DEF BillWrite, WriteBack, Idle, RequestsKnowVisit
<1>6. ASSUME NEW r \in Requests, ClearWrite(r)
      PROVE  OpenedApart'
  BY <1>6 DEF ClearWrite, WriteBack, Idle, RequestsKnowVisit
<1>7. ASSUME NEW r \in Requests, SettleWrite(r)
      PROVE  OpenedApart'
  BY <1>7 DEF SettleWrite, Idle, RequestsKnowVisit, Open
<1>8. ASSUME NEW v \in Scans, SweepClose(v)
      PROVE  OpenedApart'
  BY <1>8 DEF SweepClose, ScanProgress
<1>9. ASSUME NEW s \in Scans, Verify(s) \/ Join(s) \/ FindNone(s) \/ Mint(s) \/ MintFails(s) \/ CountPhones(s)
         \/ Displace(s) \/ Order(s) \/ Expire(s) \/ GrowOld(s) \/ RevokeSession(s)
      PROVE  OpenedApart'
  BY <1>9
  DEF Verify, Join, FindNone, Mint, MintFails, CountPhones, Displace, Order, Expire,
      GrowOld, RevokeSession
<1>10. ASSUME NEW r \in Requests, NEW s \in Scans, BillRead(r, s) \/ ClearRead(r, s) \/ SettleRead(r, s)
      PROVE  OpenedApart'
  BY <1>10
  DEF BillRead, ClearRead, SettleRead, Ask
<1>11. ASSUME NEW r \in Requests, SettleLoses(r)
      PROVE  OpenedApart'
  BY <1>11
  DEF SettleLoses, Idle
<1>12. ASSUME SweepRead \/ RegenerateQr \/ Restart
      PROVE  OpenedApart'
  BY <1>12
  DEF SweepRead, RegenerateQr, Restart, Idle
<1>13. ASSUME UNCHANGED vars
      PROVE  OpenedApart'
  BY <1>13 DEF vars
<1> QED
  BY <1>1, <1>2, <1>3, <1>4, <1>5, <1>6, <1>7, <1>8, <1>9, <1>10, <1>11, <1>12, <1>13 DEF Next, Scan, Request, Sweep

\* A scan creates its visit before it resolves one, and nothing overtakes it.
LEMMA ScanProgressStep == TypeOK /\ ScanProgress /\ RequestsKnowVisit /\ [Next \/ Restart]_vars => ScanProgress'
<1> SUFFICES ASSUME TypeOK, ScanProgress, RequestsKnowVisit, [Next \/ Restart]_vars PROVE ScanProgress'
  OBVIOUS
<1> USE DEF TypeOK, visits, scans, history, ScanProgress
<1>1. ASSUME NEW s \in Scans, Verify(s)
      PROVE  ScanProgress'
  BY <1>1 DEF Verify
<1>2. ASSUME NEW s \in Scans, Join(s)
      PROVE  ScanProgress'
  BY <1>2 DEF Join
<1>3. ASSUME NEW s \in Scans, FindNone(s)
      PROVE  ScanProgress'
  BY <1>3 DEF FindNone
<1>4. ASSUME NEW s \in Scans, Stamp(s)
      PROVE  ScanProgress'
  BY <1>4 DEF Stamp
<1>5. ASSUME NEW s \in Scans, Insert(s)
      PROVE  ScanProgress'
  BY <1>5 DEF Insert, Open
<1>6. ASSUME NEW s \in Scans, Reread(s)
      PROVE  ScanProgress'
  BY <1>6 DEF Reread
<1>7. ASSUME NEW s \in Scans, Discard(s)
      PROVE  ScanProgress'
  BY <1>7 DEF Discard
<1>8. ASSUME NEW s \in Scans, Mint(s)
      PROVE  ScanProgress'
  BY <1>8 DEF Mint
<1>9. ASSUME NEW s \in Scans, MintFails(s)
      PROVE  ScanProgress'
  BY <1>9 DEF MintFails
<1>10. ASSUME NEW s \in Scans, CountPhones(s)
      PROVE  ScanProgress'
  BY <1>10 DEF CountPhones
<1>11. ASSUME NEW s \in Scans, Displace(s)
      PROVE  ScanProgress'
  BY <1>11 DEF Displace
<1>12. ASSUME NEW s \in Scans, GrowOld(s)
      PROVE  ScanProgress'
  BY <1>12 DEF GrowOld, Ended
<1>13. ASSUME NEW r \in Requests, BillWrite(r)
      PROVE  ScanProgress'
  BY <1>13 DEF BillWrite, WriteBack, Idle, RequestsKnowVisit, Open
<1>14. ASSUME NEW r \in Requests, ClearWrite(r)
      PROVE  ScanProgress'
  BY <1>14 DEF ClearWrite, WriteBack, Idle, RequestsKnowVisit, Open
<1>15. ASSUME NEW r \in Requests, SettleWrite(r)
      PROVE  ScanProgress'
  BY <1>15 DEF SettleWrite, Idle, RequestsKnowVisit, Open
<1>16. ASSUME SweepRead
      PROVE  ScanProgress'
  BY <1>16 DEF SweepRead, Abandoned, Open
<1>17. ASSUME NEW v \in Scans, SweepClose(v)
      PROVE  ScanProgress'
  BY <1>17 DEF SweepClose
<1>18. ASSUME Restart
      PROVE  ScanProgress'
  BY <1>18 DEF Restart, Idle
<1>19. ASSUME NEW s \in Scans, Order(s) \/ Expire(s) \/ RevokeSession(s)
      PROVE  ScanProgress'
  BY <1>19
  DEF Order, Expire, RevokeSession
<1>20. ASSUME NEW r \in Requests, NEW s \in Scans, BillRead(r, s) \/ ClearRead(r, s) \/ SettleRead(r, s)
      PROVE  ScanProgress'
  BY <1>20
  DEF BillRead, ClearRead, SettleRead, Ask
<1>21. ASSUME NEW r \in Requests, SettleLoses(r)
      PROVE  ScanProgress'
  BY <1>21
  DEF SettleLoses, Idle
<1>22. ASSUME RegenerateQr
      PROVE  ScanProgress'
  BY <1>22
  DEF RegenerateQr
<1>23. ASSUME UNCHANGED vars
      PROVE  ScanProgress'
  BY <1>23 DEF vars
<1> QED
  BY <1>1, <1>2, <1>3, <1>4, <1>5, <1>6, <1>7, <1>8, <1>9, <1>10, <1>11, <1>12, <1>13, <1>14, <1>15, <1>16, <1>17, <1>18, <1>19, <1>20, <1>21, <1>22, <1>23 DEF Next, Scan, Request, Sweep

\* A visit that a request has read stays there, be it deleted.
LEMMA RequestsKnowVisitStep == TypeOK /\ RequestsKnowVisit /\ [Next \/ Restart]_vars => RequestsKnowVisit'
<1> SUFFICES ASSUME TypeOK, RequestsKnowVisit, [Next \/ Restart]_vars PROVE RequestsKnowVisit'
  OBVIOUS
<1> USE DEF TypeOK, visits, scans, history, RequestsKnowVisit
<1>1. ASSUME NEW s \in Scans, Insert(s)
      PROVE  RequestsKnowVisit'
  BY <1>1 DEF Insert, Open
<1>2. ASSUME NEW s \in Scans, Discard(s)
      PROVE  RequestsKnowVisit'
  BY <1>2 DEF Discard
<1>3. ASSUME NEW r \in Requests, NEW s \in Scans, BillRead(r, s)
      PROVE  RequestsKnowVisit'
  BY <1>3 DEF BillRead, Ask
<1>4. ASSUME NEW r \in Requests, NEW s \in Scans, ClearRead(r, s)
      PROVE  RequestsKnowVisit'
  BY <1>4 DEF ClearRead, Ask
<1>5. ASSUME NEW r \in Requests, NEW s \in Scans, SettleRead(r, s)
      PROVE  RequestsKnowVisit'
  BY <1>5 DEF SettleRead, Ask, Open
<1>6. ASSUME NEW r \in Requests, BillWrite(r)
      PROVE  RequestsKnowVisit'
  BY <1>6 DEF BillWrite, WriteBack, Idle
<1>7. ASSUME NEW r \in Requests, ClearWrite(r)
      PROVE  RequestsKnowVisit'
  BY <1>7 DEF ClearWrite, WriteBack, Idle
<1>8. ASSUME NEW r \in Requests, SettleWrite(r)
      PROVE  RequestsKnowVisit'
  BY <1>8 DEF SettleWrite, Idle
<1>9. ASSUME NEW v \in Scans, SweepClose(v)
      PROVE  RequestsKnowVisit'
  BY <1>9 DEF SweepClose
<1>10. ASSUME Restart
      PROVE  RequestsKnowVisit'
  BY <1>10 DEF Restart, Idle
<1>11. ASSUME NEW s \in Scans, Verify(s) \/ Join(s) \/ FindNone(s) \/ Stamp(s) \/ Reread(s) \/ Mint(s) \/
         MintFails(s) \/ CountPhones(s) \/ Displace(s) \/ Order(s) \/ Expire(s) \/
         GrowOld(s) \/ RevokeSession(s)
      PROVE  RequestsKnowVisit'
  BY <1>11
  DEF Verify, Join, FindNone, Stamp, Reread, Mint, MintFails, CountPhones, Displace,
      Order, Expire, GrowOld, RevokeSession
<1>12. ASSUME NEW r \in Requests, SettleLoses(r)
      PROVE  RequestsKnowVisit'
  BY <1>12
  DEF SettleLoses, Idle
<1>13. ASSUME SweepRead \/ RegenerateQr
      PROVE  RequestsKnowVisit'
  BY <1>13
  DEF SweepRead, RegenerateQr
<1>14. ASSUME UNCHANGED vars
      PROVE  RequestsKnowVisit'
  BY <1>14 DEF vars
<1> QED
  BY <1>1, <1>2, <1>3, <1>4, <1>5, <1>6, <1>7, <1>8, <1>9, <1>10, <1>11, <1>12, <1>13, <1>14 DEF Next, Scan, Request, Sweep

\* Only a scan that saw an older visit discards its own.
LEMMA LoserHasElderStep == TypeOK /\ OpenedApart /\ ScanProgress /\ RequestsKnowVisit /\ LoserHasElder /\ [Next \/ Restart]_vars => LoserHasElder'
<1> SUFFICES ASSUME TypeOK, OpenedApart, ScanProgress, RequestsKnowVisit, LoserHasElder, [Next \/ Restart]_vars PROVE LoserHasElder'
  OBVIOUS
<1> USE DEF TypeOK, visits, scans, history, LoserHasElder
<1>1. ASSUME NEW s \in Scans, Stamp(s)
      PROVE  LoserHasElder'
  <2>1. /\ \A t \in Scans : at'[t] = "discarding" => at[t] = "discarding"
        /\ \A t \in Scans \ {s} : openedAt'[t] = openedAt[t]
        /\ UNCHANGED <<visit, settled>>
    BY <1>1 DEF Stamp
  <2>2. visit[s] = "none" /\ at[s] = "absent"
    BY <1>1 DEF Stamp, ScanProgress
  <2>3. ASSUME NEW t \in Scans, (at'[t] = "discarding" \/ visit'[t] = "deleted") /\ settled'[t] = 0
        PROVE  \E v \in Scans : visit'[v] # "none" /\ openedAt'[v] < openedAt'[t]
    <3>1. (at[t] = "discarding" \/ visit[t] = "deleted") /\ settled[t] = 0
      BY <2>1, <2>3
    <3>2. PICK v \in Scans : visit[v] # "none" /\ openedAt[v] < openedAt[t]
      BY <3>1
    <3>3. t # s /\ v # s
      BY <1>1, <2>1, <2>2, <2>3, <3>2 DEF Stamp
    <3> QED BY <2>1, <3>2, <3>3
  <2> QED BY <2>3
<1>2. ASSUME NEW s \in Scans, Insert(s)
      PROVE  LoserHasElder'
  <2>1. visit' = [visit EXCEPT ![s] = "open"] /\ at' = [at EXCEPT ![s] = "created"]
    BY <1>2 DEF Insert
  <2>2. UNCHANGED <<openedAt, settled>>
    BY <1>2 DEF Insert
  <2>3. visit[s] = "none"
    BY <1>2 DEF Insert, ScanProgress
  <2>4. ASSUME NEW t \in Scans, (at'[t] = "discarding" \/ visit'[t] = "deleted") /\ settled'[t] = 0
        PROVE  \E v \in Scans : visit'[v] # "none" /\ openedAt'[v] < openedAt'[t]
    <3>1. (at[t] = "discarding" \/ visit[t] = "deleted") /\ settled[t] = 0
      BY <2>1, <2>2, <2>4
    <3>2. PICK v \in Scans : visit[v] # "none" /\ openedAt[v] < openedAt[t]
      BY <3>1
    <3>3. visit'[v] # "none"
      BY <2>1, <3>2
    <3> QED BY <2>2, <3>2, <3>3
  <2> QED BY <2>4
<1>3. ASSUME NEW s \in Scans, Reread(s)
      PROVE  LoserHasElder'
  <2>1. CASE Contested(s) /\ s \in OpenVisits
    <3>1. Oldest(OpenVisits) \in OpenVisits /\ openedAt[Oldest(OpenVisits)] < openedAt[s]
      BY <2>1, ContestedHasElder
    <3>2. Oldest(OpenVisits) \in Scans /\ visit[Oldest(OpenVisits)] # "none"
      BY <3>1 DEF OpenVisits, Open
    <3> QED BY <1>3, <2>1, <3>1, <3>2 DEF Reread
  <2>2. CASE s \notin OpenVisits
    <3>1. settled[s] > 0
      BY <1>3, <2>2 DEF Reread, ScanProgress, OpenVisits
    <3> QED BY <1>3, <3>1 DEF Reread
  <2>3. CASE ~Contested(s)
    BY <1>3, <2>3 DEF Reread
  <2> QED BY <2>1, <2>2, <2>3
<1>4. ASSUME NEW s \in Scans, Discard(s)
      PROVE  LoserHasElder'
  BY <1>4 DEF Discard
<1>5. ASSUME NEW r \in Requests, BillWrite(r)
      PROVE  LoserHasElder'
  BY <1>5 DEF BillWrite, WriteBack, Idle, RequestsKnowVisit
<1>6. ASSUME NEW r \in Requests, ClearWrite(r)
      PROVE  LoserHasElder'
  BY <1>6 DEF ClearWrite, WriteBack, Idle, RequestsKnowVisit
<1>7. ASSUME NEW r \in Requests, SettleWrite(r)
      PROVE  LoserHasElder'
  BY <1>7 DEF SettleWrite, Idle, RequestsKnowVisit, Open
<1>8. ASSUME NEW v \in Scans, SweepClose(v)
      PROVE  LoserHasElder'
  BY <1>8 DEF SweepClose
<1>9. ASSUME Restart
      PROVE  LoserHasElder'
  BY <1>9 DEF Restart, Idle
<1>10. ASSUME NEW s \in Scans, Verify(s) \/ Join(s) \/ FindNone(s) \/ Mint(s) \/ MintFails(s) \/ CountPhones(s)
         \/ Displace(s) \/ Order(s) \/ Expire(s) \/ GrowOld(s) \/ RevokeSession(s)
      PROVE  LoserHasElder'
  BY <1>10
  DEF Verify, Join, FindNone, Mint, MintFails, CountPhones, Displace, Order, Expire,
      GrowOld, RevokeSession
<1>11. ASSUME NEW r \in Requests, NEW s \in Scans, BillRead(r, s) \/ ClearRead(r, s) \/ SettleRead(r, s)
      PROVE  LoserHasElder'
  BY <1>11
  DEF BillRead, ClearRead, SettleRead, Ask
<1>12. ASSUME NEW r \in Requests, SettleLoses(r)
      PROVE  LoserHasElder'
  BY <1>12
  DEF SettleLoses, Idle
<1>13. ASSUME SweepRead \/ RegenerateQr
      PROVE  LoserHasElder'
  BY <1>13
  DEF SweepRead, RegenerateQr
<1>14. ASSUME UNCHANGED vars
      PROVE  LoserHasElder'
  BY <1>14 DEF vars
<1> QED
  BY <1>1, <1>2, <1>3, <1>4, <1>5, <1>6, <1>7, <1>8, <1>9, <1>10, <1>11, <1>12, <1>13, <1>14 DEF Next, Scan, Request, Sweep

\* A visit that becomes visible after the second look was shown later.
LEMMA RereadStep == TypeOK /\ OpenedApart /\ ScanProgress /\ RequestsKnowVisit /\ RereadCatchesOlderVisit /\ [Next \/ Restart]_vars => RereadCatchesOlderVisit'
<1> SUFFICES ASSUME TypeOK, OpenedApart, ScanProgress, RequestsKnowVisit, RereadCatchesOlderVisit, [Next \/ Restart]_vars PROVE RereadCatchesOlderVisit'
  OBVIOUS
<1> USE DEF TypeOK, visits, scans, history, RereadCatchesOlderVisit, OpenVisits
<1>1. ASSUME NEW s \in Scans, Join(s)
      PROVE  RereadCatchesOlderVisit'
  BY <1>1 DEF Join, ScanProgress, Open
<1>2. ASSUME NEW s \in Scans, Stamp(s)
      PROVE  RereadCatchesOlderVisit'
  BY <1>2 DEF Stamp, ScanProgress, Open
<1>3. ASSUME NEW s \in Scans, Insert(s)
      PROVE  RereadCatchesOlderVisit'
  BY <1>3 DEF Insert, Open, OpenedApart, ScanProgress
<1>4. ASSUME NEW s \in Scans, Reread(s)
      PROVE  RereadCatchesOlderVisit'
  <2>1. CASE Contested(s)
    <3>1. Oldest(OpenVisits) # s
      BY <2>1 DEF Contested
    <3> QED BY <1>4, <2>1, <3>1 DEF Reread
  <2>2. CASE ~Contested(s)
    <3>1. \A v \in OpenVisits : s \in OpenVisits => openedAt[s] <= openedAt[v]
      BY <2>2, UncontestedIsOldest
    <3> QED BY <1>4, <2>2, <3>1 DEF Reread
  <2> QED BY <2>1, <2>2
<1>5. ASSUME NEW s \in Scans, Discard(s)
      PROVE  RereadCatchesOlderVisit'
  BY <1>5 DEF Discard, Open
<1>6. ASSUME NEW r \in Requests, BillWrite(r)
      PROVE  RereadCatchesOlderVisit'
  BY <1>6 DEF BillWrite, WriteBack, Idle, RequestsKnowVisit, Open
<1>7. ASSUME NEW r \in Requests, ClearWrite(r)
      PROVE  RereadCatchesOlderVisit'
  BY <1>7 DEF ClearWrite, WriteBack, Idle, RequestsKnowVisit, Open
<1>8. ASSUME NEW r \in Requests, SettleWrite(r)
      PROVE  RereadCatchesOlderVisit'
  BY <1>8 DEF SettleWrite, Idle, RequestsKnowVisit, Open
<1>9. ASSUME NEW v \in Scans, SweepClose(v)
      PROVE  RereadCatchesOlderVisit'
  BY <1>9 DEF SweepClose, Open
<1>10. ASSUME Restart
      PROVE  RereadCatchesOlderVisit'
  BY <1>10 DEF Restart, Idle
<1>11. ASSUME NEW s \in Scans, Verify(s) \/ FindNone(s) \/ Mint(s) \/ MintFails(s) \/ CountPhones(s) \/
         Displace(s) \/ Order(s) \/ Expire(s) \/ GrowOld(s) \/ RevokeSession(s)
      PROVE  RereadCatchesOlderVisit'
  BY <1>11
  DEF Verify, FindNone, Mint, MintFails, CountPhones, Displace, Order, Expire,
      GrowOld, RevokeSession
<1>12. ASSUME NEW r \in Requests, NEW s \in Scans, BillRead(r, s) \/ ClearRead(r, s) \/ SettleRead(r, s)
      PROVE  RereadCatchesOlderVisit'
  BY <1>12
  DEF BillRead, ClearRead, SettleRead, Ask
<1>13. ASSUME NEW r \in Requests, SettleLoses(r)
      PROVE  RereadCatchesOlderVisit'
  BY <1>13
  DEF SettleLoses, Idle
<1>14. ASSUME SweepRead \/ RegenerateQr
      PROVE  RereadCatchesOlderVisit'
  BY <1>14
  DEF SweepRead, RegenerateQr
<1>15. ASSUME UNCHANGED vars
      PROVE  RereadCatchesOlderVisit'
  BY <1>15 DEF vars
<1> QED
  BY <1>1, <1>2, <1>3, <1>4, <1>5, <1>6, <1>7, <1>8, <1>9, <1>10, <1>11, <1>12, <1>13, <1>14, <1>15 DEF Next, Scan, Request, Sweep

\* The conditional close settles a visit once.
LEMMA SettlementStep == TypeOK /\ ScanProgress /\ RequestsKnowVisit /\ SettlementIsFinal /\ [Next \/ Restart]_vars => SettlementIsFinal'
<1> SUFFICES ASSUME TypeOK, ScanProgress, RequestsKnowVisit, SettlementIsFinal, [Next \/ Restart]_vars PROVE SettlementIsFinal'
  OBVIOUS
<1> USE DEF TypeOK, visits, scans, history, SettlementIsFinal
<1>1. ASSUME NEW s \in Scans, Insert(s)
      PROVE  SettlementIsFinal'
  BY <1>1 DEF Insert, Open, ScanProgress
<1>2. ASSUME NEW s \in Scans, Discard(s)
      PROVE  SettlementIsFinal'
  BY <1>2 DEF Discard, Open
<1>3. ASSUME NEW r \in Requests, BillWrite(r)
      PROVE  SettlementIsFinal'
  BY <1>3 DEF BillWrite, WriteBack, Idle, RequestsKnowVisit, Open
<1>4. ASSUME NEW r \in Requests, ClearWrite(r)
      PROVE  SettlementIsFinal'
  BY <1>4 DEF ClearWrite, WriteBack, Idle, RequestsKnowVisit, Open
<1>5. ASSUME NEW r \in Requests, SettleWrite(r)
      PROVE  SettlementIsFinal'
  BY <1>5 DEF SettleWrite, Idle, RequestsKnowVisit, Open
<1>6. ASSUME NEW v \in Scans, SweepClose(v)
      PROVE  SettlementIsFinal'
  BY <1>6 DEF SweepClose, Open
<1>7. ASSUME NEW s \in Scans, Verify(s) \/ Join(s) \/ FindNone(s) \/ Stamp(s) \/ Reread(s) \/ Mint(s) \/
         MintFails(s) \/ CountPhones(s) \/ Displace(s) \/ Order(s) \/ Expire(s) \/
         GrowOld(s) \/ RevokeSession(s)
      PROVE  SettlementIsFinal'
  BY <1>7
  DEF Verify, Join, FindNone, Stamp, Reread, Mint, MintFails, CountPhones, Displace,
      Order, Expire, GrowOld, RevokeSession
<1>8. ASSUME NEW r \in Requests, NEW s \in Scans, BillRead(r, s) \/ ClearRead(r, s) \/ SettleRead(r, s)
      PROVE  SettlementIsFinal'
  BY <1>8
  DEF BillRead, ClearRead, SettleRead, Ask
<1>9. ASSUME NEW r \in Requests, SettleLoses(r)
      PROVE  SettlementIsFinal'
  BY <1>9
  DEF SettleLoses, Idle
<1>10. ASSUME SweepRead \/ RegenerateQr \/ Restart
      PROVE  SettlementIsFinal'
  BY <1>10
  DEF SweepRead, RegenerateQr, Restart, Idle
<1>11. ASSUME UNCHANGED vars
      PROVE  SettlementIsFinal'
  BY <1>11 DEF vars
<1> QED
  BY <1>1, <1>2, <1>3, <1>4, <1>5, <1>6, <1>7, <1>8, <1>9, <1>10, <1>11 DEF Next, Scan, Request, Sweep

-----------------------------------------------------------------------------
(* The phones at the table *)

\* A step that lets no session in and finishes no count.
Quiet ==
    /\ UNCHANGED createdAt /\ clock' \in Nat /\ clock <= clock'
    /\ Live' \subseteq Live
    /\ \A s \in Scans : session'[s] # "none" <=> session[s] # "none"
    /\ \A s \in Scans : beyond'[s] \subseteq beyond[s]
    /\ \A s \in Scans : at'[s] \in Unminted => at[s] \in Unminted
    /\ \A s \in Scans : at'[s] \in {"minted", "displacing", "done"} =>
          at'[s] = at[s] /\ (at[s] = "displacing" => beyond'[s] = beyond[s])

LEMMA SessionSteps ==
    ASSUME TypeOK, [Next \/ Restart]_vars
    PROVE  Quiet \/ \E s \in Scans : Mint(s) \/ CountPhones(s) \/ Displace(s)
<1> USE DEF TypeOK, visits, scans, history, Live, Unminted, Quiet
<1>1. ASSUME NEW s \in Scans,
             Verify(s) \/ Join(s) \/ FindNone(s) \/ Stamp(s) \/ Insert(s) \/ Reread(s)
             \/ Discard(s) \/ MintFails(s)
      PROVE  Quiet
  <2>1. UNCHANGED <<createdAt, session, beyond>> /\ clock' \in Nat /\ clock <= clock'
    BY <1>1 DEF Verify, Join, FindNone, Stamp, Insert, Reread, Discard, MintFails
  <2>2. /\ \A t \in Scans : t # s => at'[t] = at[t]
        /\ at[s] \in Unminted /\ at'[s] \notin {"minted", "displacing", "done"}
    BY <1>1 DEF Verify, Join, FindNone, Stamp, Insert, Reread, Discard, MintFails
  <2> QED BY <2>1, <2>2
<1>2. ASSUME NEW s \in Scans, Order(s) \/ Expire(s) \/ GrowOld(s) \/ RevokeSession(s)
      PROVE  Quiet
  <2>1. UNCHANGED <<createdAt, at, beyond, clock>>
    BY <1>2 DEF Order, Expire, GrowOld, RevokeSession
  <2>2. \A t \in Scans : /\ session'[t] \in {session[t], "expired", "revoked"}
                         /\ session'[t] # "none" <=> session[t] # "none"
    BY <1>2 DEF Order, Expire, GrowOld, RevokeSession
  <2> QED BY <2>1, <2>2
<1>3. ASSUME NEW r \in Requests, Request(r)
      PROVE  Quiet
  <2>1. UNCHANGED <<createdAt, at, beyond, clock>>
    BY <1>3 DEF Request, BillRead, ClearRead, SettleRead, BillWrite, ClearWrite, WriteBack,
                SettleWrite, SettleLoses
  <2>2. \A t \in Scans : /\ session'[t] \in {session[t], "revoked"}
                         /\ session'[t] # "none" <=> session[t] # "none"
    BY <1>3 DEF Request, BillRead, ClearRead, SettleRead, BillWrite, ClearWrite, WriteBack,
                SettleWrite, SettleLoses
  <2> QED BY <2>1, <2>2
<1>4. CASE Sweep
  BY <1>4 DEF Sweep, SweepRead, SweepClose
<1>5. CASE RegenerateQr
  BY <1>5 DEF RegenerateQr
<1>6. CASE Restart
  BY <1>6 DEF Restart
<1>7. CASE UNCHANGED vars
  BY <1>7 DEF vars
<1> QED BY <1>1, <1>2, <1>3, <1>4, <1>5, <1>6, <1>7 DEF Next, Scan

\* A session is inserted when no other is.
LEMMA SessionsApartStep ==
    ASSUME TypeOK, SessionsApart, [Next \/ Restart]_vars
    PROVE  SessionsApart'
<1> USE DEF TypeOK, SessionsApart, scans, visits, history
<1>1. CASE Quiet
  <2>1. clock \in Nat /\ clock' \in Nat /\ clock <= clock' /\ createdAt' = createdAt
    BY <1>1 DEF Quiet
  <2>2. \A s \in Scans : createdAt'[s] <= clock'
    BY <2>1
  <2> QED BY <1>1, <2>1, <2>2 DEF Quiet
<1>2. ASSUME NEW s \in Scans, Mint(s) PROVE SessionsApart'
  BY <1>2 DEF Mint, Unminted
<1>3. ASSUME NEW s \in Scans, CountPhones(s) PROVE SessionsApart'
  BY <1>3 DEF CountPhones, Unminted, Displaced, Live
<1>4. ASSUME NEW s \in Scans, Displace(s) PROVE SessionsApart'
  <2>1. /\ UNCHANGED <<createdAt, clock>>
        /\ \A t \in Scans : session'[t] # "none" => session[t] # "none"
        /\ \A t \in Scans : session[t] # "none" => session'[t] # "none"
        /\ \A t \in Scans : beyond'[t] \subseteq beyond[t]
        /\ \A t \in Scans : at'[t] \in Unminted => at[t] \in Unminted
    BY <1>4 DEF Displace, Unminted
  <2> QED BY <2>1
<1> QED BY <1>1, <1>2, <1>3, <1>4, SessionSteps

LEMMA LiveIsFinite ==
    ASSUME NEW S \in SUBSET Live
    PROVE  IsFiniteSet(S) /\ Cardinality(S) \in Nat
BY FS_Subset, FS_CardinalityType DEF Live

\* Fewer live sessions leave every counted phone at least the room it had.
LEMMA RoomStays ==
    ASSUME Live' \subseteq Live, UNCHANGED createdAt, NEW x \in Live', NEW y \in Scans,
           Cardinality(Between(x, y)) < MAX_ACTIVE_PER_TABLE
    PROVE  Cardinality(Between(x, y))' < MAX_ACTIVE_PER_TABLE
<1> DEFINE S == Between(x, y)
           T == {t \in Live' : createdAt[x] < createdAt[t] /\ createdAt[t] <= createdAt[y]}
<1>1. T \subseteq S /\ IsFiniteSet(S) /\ Cardinality(S) \in Nat
  BY LiveIsFinite DEF Between
<1>2. Cardinality(T) <= Cardinality(S) /\ Cardinality(T) \in Nat
  BY <1>1, FS_Subset, FS_CardinalityType
<1>3. Between(x, y)' = T
  BY DEF Between
<1> HIDE DEF S, T
<1>4. Cardinality(T) < MAX_ACTIVE_PER_TABLE
  BY <1>1, <1>2 DEF S
<1> QED BY <1>3, <1>4

\* Between two steps of a count, only the count itself changes who has a seat.
LEMMA SeatedStep ==
    ASSUME TypeOK, SessionsApart, Seated, [Next \/ Restart]_vars
    PROVE  Seated'
<1> SUFFICES ASSUME NEW y \in Scans, at'[y] \in {"displacing", "done"},
                    NEW x \in Live', createdAt'[x] <= createdAt'[y]
             PROVE  \/ Cardinality(Between(x, y))' < MAX_ACTIVE_PER_TABLE
                    \/ at'[y] = "displacing" /\ x \in beyond'[y]
  BY DEF Seated
<1> x \in Scans
  BY DEF Live
<1>1. ASSUME Live' \subseteq Live, UNCHANGED createdAt, at'[y] = at[y],
             at[y] = "displacing" => beyond'[y] = beyond[y]
      PROVE  \/ Cardinality(Between(x, y))' < MAX_ACTIVE_PER_TABLE
             \/ at'[y] = "displacing" /\ x \in beyond'[y]
  <2>1. \/ Cardinality(Between(x, y)) < MAX_ACTIVE_PER_TABLE
        \/ at[y] = "displacing" /\ x \in beyond[y]
    BY <1>1 DEF Seated
  <2>2. CASE Cardinality(Between(x, y)) < MAX_ACTIVE_PER_TABLE
    BY <1>1, <2>2, RoomStays
  <2>3. CASE at[y] = "displacing" /\ x \in beyond[y]
    BY <1>1, <2>3
  <2> QED BY <2>1, <2>2, <2>3
<1>2. CASE Quiet
  <2>1. Live' \subseteq Live /\ UNCHANGED createdAt
    BY <1>2 DEF Quiet
  <2>2. at'[y] = at[y] /\ (at[y] = "displacing" => beyond'[y] = beyond[y])
    BY <1>2 DEF Quiet
  <2> QED BY <1>1, <2>1, <2>2
<1>3. ASSUME NEW s \in Scans, Mint(s)
      PROVE  \/ Cardinality(Between(x, y))' < MAX_ACTIVE_PER_TABLE
             \/ at'[y] = "displacing" /\ x \in beyond'[y]
  <2>1. /\ y # s /\ at'[y] = at[y] /\ beyond' = beyond
        /\ createdAt' = [createdAt EXCEPT ![s] = clock + 1]
        /\ session' = [session EXCEPT ![s] = "live"]
    BY <1>3 DEF Mint, TypeOK
  <2>2. createdAt'[y] <= clock /\ createdAt'[y] = createdAt[y] /\ createdAt'[s] = clock + 1
    BY <2>1 DEF SessionsApart, TypeOK
  <2>3. \A t \in Scans : t # s => createdAt'[t] = createdAt[t] /\ (t \in Live' <=> t \in Live)
    BY <2>1 DEF TypeOK, Live
  <2>4. clock \in Nat /\ createdAt'[y] \in Nat
    BY <2>2 DEF TypeOK
  <2>5. \A t \in Scans : createdAt'[t] <= createdAt'[y] => t # s
    BY <2>2, <2>4
  <2>6. x # s
    BY <2>5
  <2>7. Between(x, y)' = Between(x, y)
    <3>1. Between(x, y)' = {t \in Live' : createdAt'[x] < createdAt'[t] /\ createdAt'[t] <= createdAt'[y]}
      BY DEF Between
    <3>2. createdAt'[x] = createdAt[x] /\ createdAt'[y] = createdAt[y]
      BY <2>2, <2>3, <2>6
    <3>3. \A t \in Live' \cup Live : t \in Scans
      BY DEF Live
    <3>4. ASSUME NEW t \in Scans
          PROVE  t \in Between(x, y)' <=> t \in Between(x, y)
      <4>1. CASE t = s
        <5>1. ~ (createdAt'[t] <= createdAt'[y])
          BY <2>5, <4>1
        <5>2. t \notin Live
          BY <1>3, <4>1 DEF Mint, Live, SessionsApart, Unminted, TypeOK
        <5> QED BY <3>1, <5>1, <5>2 DEF Between
      <4>2. CASE t # s
        BY <2>3, <3>1, <3>2, <4>2 DEF Between
      <4> QED BY <4>1, <4>2
    <3> QED BY <3>1, <3>3, <3>4 DEF Between
  <2>8. x \in Live /\ createdAt[x] <= createdAt[y]
    BY <2>2, <2>3, <2>6
  <2>9. at[y] \in {"displacing", "done"}
    BY <2>1
  <2> QED BY <2>1, <2>7, <2>8, <2>9 DEF Seated
<1>4. ASSUME NEW s \in Scans, CountPhones(s)
      PROVE  \/ Cardinality(Between(x, y))' < MAX_ACTIVE_PER_TABLE
             \/ at'[y] = "displacing" /\ x \in beyond'[y]
  <2>1. Live' = Live /\ createdAt' = createdAt
    BY <1>4 DEF CountPhones, Live
  <2>2. CASE y # s
    <3>1. at'[y] = at[y] /\ beyond'[y] = beyond[y]
      BY <1>4, <2>2 DEF CountPhones, TypeOK
    <3> QED BY <1>1, <2>1, <3>1
  <2>3. CASE y = s
    <3>1. CASE x \in Displaced
      BY <1>4, <2>3, <3>1 DEF CountPhones, TypeOK
    <3>2. CASE x \notin Displaced
      <4> DEFINE newer == {t \in Live : createdAt[t] > createdAt[x]}
      <4>1. IsFiniteSet(newer) /\ Cardinality(newer) \in Nat
        BY LiveIsFinite
      <4>2. ~ (Cardinality(newer) >= MAX_ACTIVE_PER_TABLE)
        BY <2>1, <3>2 DEF Displaced
      <4>3. Between(x, y) \subseteq newer
        BY DEF Between, Live, TypeOK
      <4>4. Cardinality(Between(x, y)) <= Cardinality(newer) /\ Cardinality(Between(x, y)) \in Nat
        BY <4>1, <4>3, FS_Subset, FS_CardinalityType
      <4> HIDE DEF newer
      <4>5. Cardinality(Between(x, y)) < MAX_ACTIVE_PER_TABLE
        BY <4>1, <4>2, <4>4
      <4> QED BY <2>1, <4>5, RoomStays
    <3> QED BY <3>1, <3>2
  <2> QED BY <2>2, <2>3
<1>5. ASSUME NEW s \in Scans, Displace(s)
      PROVE  \/ Cardinality(Between(x, y))' < MAX_ACTIVE_PER_TABLE
             \/ at'[y] = "displacing" /\ x \in beyond'[y]
  <2>1. Live' \subseteq Live \ beyond[s] /\ UNCHANGED createdAt
    BY <1>5 DEF Displace, Live
  <2>2. CASE y # s
    <3>1. at'[y] = at[y] /\ beyond'[y] = beyond[y]
      BY <1>5, <2>2 DEF Displace, TypeOK
    <3> QED BY <1>1, <2>1, <3>1
  <2>3. CASE y = s
    <3>1. at[y] = "displacing" /\ x \in Live /\ x \notin beyond[y]
      BY <1>5, <2>1, <2>3 DEF Displace
    <3>2. Cardinality(Between(x, y)) < MAX_ACTIVE_PER_TABLE
      BY <2>1, <3>1 DEF Seated
    <3> QED BY <2>1, <3>2, RoomStays
  <2> QED BY <2>2, <2>3
<1> QED BY <1>2, <1>3, <1>4, <1>5, SessionSteps

\* As long as the server runs, a scan that let a phone in counts the phones.
LEMMA LiveIsCountedStep ==
    ASSUME TypeOK, LiveIsCounted, [Next]_vars
    PROVE  LiveIsCounted'
<1> DEFINE In == {"minted", "displacing", "done"}
<1> USE DEF TypeOK, visits, scans, history
<1>1. ASSUME NEW s \in Scans, Scan(s) PROVE \A t \in Scans : at[t] \in In => at'[t] \in In
  BY <1>1 DEF Scan, Verify, Join, FindNone, Stamp, Insert, Reread, Discard, Mint, MintFails,
              CountPhones, Displace
<1>2. ASSUME NEW s \in Scans, Order(s) \/ Expire(s) \/ GrowOld(s) \/ RevokeSession(s)
      PROVE  UNCHANGED at
  BY <1>2 DEF Order, Expire, GrowOld, RevokeSession
<1>3. ASSUME NEW r \in Requests, Request(r) PROVE UNCHANGED at
  BY <1>3 DEF Request, BillRead, ClearRead, SettleRead, BillWrite, ClearWrite, WriteBack,
              SettleWrite, SettleLoses
<1>4. Sweep \/ RegenerateQr \/ UNCHANGED vars => UNCHANGED at
  BY DEF Sweep, SweepRead, SweepClose, RegenerateQr, vars
<1>5. \A t \in Scans : at[t] \in In => at'[t] \in In
  BY <1>1, <1>2, <1>3, <1>4 DEF Next
<1>6. CASE Live' \subseteq Live
  BY <1>5, <1>6 DEF LiveIsCounted, Live
<1>7. ASSUME NEW s \in Scans, Mint(s) PROVE LiveIsCounted'
  <2>1. at'[s] \in In /\ \A t \in Scans : t # s => (t \in Live' <=> t \in Live)
    BY <1>7 DEF Mint, Live
  <2> QED BY <1>5, <2>1 DEF LiveIsCounted, Live
<1>8. Quiet \/ (\E s \in Scans : CountPhones(s) \/ Displace(s)) => Live' \subseteq Live
  BY DEF Quiet, CountPhones, Displace, Live
<1> QED BY <1>6, <1>7, <1>8, SessionSteps

\* The phones whose scans have ended fit: all but the first of them came after
\* it and up to the last, whose scan made room for those.
LEMMA CountedFit ==
    ASSUME TypeOK, SessionsApart, Seated
    PROVE  Cardinality({s \in Live : at[s] = "done"}) <= MAX_ACTIVE_PER_TABLE
<1> DEFINE D == {s \in Live : at[s] = "done"}
<1>1. D \in SUBSET Scans /\ D \subseteq Live
  BY DEF Live
<1>2. CASE D = {}
  BY <1>2, FS_EmptySet
<1>3. CASE D # {}
  <2>1. createdAt \in [Scans -> Nat] /\ clock \in Nat /\ \A s \in Scans : createdAt[s] <= clock
    BY DEF TypeOK, SessionsApart
  <2> HIDE DEF D
  <2>2. PICK x \in D : \A t \in D : createdAt[x] <= createdAt[t]
    BY <1>1, <1>3, <2>1, FirstOf
  <2>3. PICK y \in D : \A t \in D : createdAt[t] <= createdAt[y]
    BY <1>1, <1>3, <2>1, LastOf
  <2>4. Cardinality(Between(x, y)) < MAX_ACTIVE_PER_TABLE
    BY <1>1, <2>3 DEF Seated, D
  <2>5. \A t \in D : t # x => createdAt[x] < createdAt[t]
    BY <1>1, <2>1, <2>2 DEF SessionsApart, Live
  <2>6. D \subseteq Between(x, y) \cup {x}
    BY <1>1, <2>3, <2>5 DEF Between
  <2>7. IsFiniteSet(Between(x, y)) /\ Cardinality(Between(x, y)) \in Nat
    BY LiveIsFinite DEF Between
  <2>8. /\ IsFiniteSet(Between(x, y) \cup {x})
        /\ Cardinality(Between(x, y) \cup {x}) <= Cardinality(Between(x, y)) + 1
    <3> DEFINE B == Between(x, y)
    <3> HIDE DEF B
    <3>1. IsFiniteSet(B) /\ Cardinality(B) \in Nat
      BY <2>7 DEF B
    <3>2. /\ IsFiniteSet(B \cup {x})
          /\ Cardinality(B \cup {x}) = IF x \in B THEN Cardinality(B) ELSE Cardinality(B) + 1
      BY <3>1, FS_AddElement
    <3>3. Cardinality(B \cup {x}) <= Cardinality(B) + 1
      BY <3>1, <3>2
    <3> QED BY <3>2, <3>3 DEF B
  <2>9. Cardinality(D) <= Cardinality(Between(x, y) \cup {x})
    BY <2>6, <2>8, FS_Subset
  <2>10. Cardinality(D) \in Nat /\ Cardinality(Between(x, y) \cup {x}) \in Nat
    BY <1>1, <2>8, LiveIsFinite, FS_CardinalityType
  <2>11. Cardinality(D) <= MAX_ACTIVE_PER_TABLE
    BY <2>4, <2>7, <2>8, <2>9, <2>10
  <2> QED BY <2>11 DEF D
<1> QED BY <1>2, <1>3

\* The others belong to scans that have yet to count or to displace.
LEMMA SeatsFollow ==
    ASSUME TypeOK, SessionsApart, Seated, LiveIsCounted
    PROVE  SeatsBounded
<1> DEFINE D == {s \in Live : at[s] = "done"}
           W == {s \in Scans : at[s] \in {"minted", "displacing"}}
<1>1. IsFiniteSet(D) /\ Cardinality(D) \in Nat
  BY LiveIsFinite
<1>2. IsFiniteSet(W) /\ Cardinality(W) \in Nat
  BY FS_Subset, FS_CardinalityType
<1>3. Live \subseteq D \cup W
  BY DEF LiveIsCounted, Live
<1>4. Cardinality(D) <= MAX_ACTIVE_PER_TABLE
  BY CountedFit
<1>5. IsFiniteSet(Live) /\ Cardinality(Live) \in Nat
  BY LiveIsFinite
<1> SUFFICES Cardinality(Live) <= MAX_ACTIVE_PER_TABLE + Cardinality(W)
  BY DEF SeatsBounded
<1> HIDE DEF D, W
<1>6. /\ IsFiniteSet(D \cup W)
      /\ Cardinality(D \cup W) = Cardinality(D) + Cardinality(W) - Cardinality(D \cap W)
  BY <1>1, <1>2, FS_Union
<1>7. Cardinality(D \cap W) \in Nat
  <2>1. IsFiniteSet(D \cap W)
    BY <1>1, FS_Subset
  <2> QED BY <2>1, FS_CardinalityType
<1>8. Cardinality(Live) <= Cardinality(D \cup W)
  BY <1>3, <1>6, FS_Subset
<1> QED BY <1>1, <1>2, <1>4, <1>5, <1>6, <1>7, <1>8

-----------------------------------------------------------------------------
LEMMA InitInvariant == Init => InductiveInvariant
<1> SUFFICES ASSUME Init PROVE InductiveInvariant
  OBVIOUS
<1>1. TypeOK
  BY InitTypeOK
<1>2. OpenVisits = {}
  BY DEF Init, OpenVisits, Open
<1>3. OpenedApart /\ ScanProgress
  BY DEF Init, OpenedApart, ScanProgress
<1>4. RequestsKnowVisit
  BY DEF Init, RequestsKnowVisit, Idle
<1>5. LoserHasElder
  BY DEF Init, LoserHasElder
<1>6. RereadCatchesOlderVisit /\ SettlementIsFinal
  BY <1>2 DEF Init, RereadCatchesOlderVisit, SettlementIsFinal
<1>7. SessionsApart /\ Seated
  BY DEF Init, SessionsApart, Seated
<1> QED BY <1>1, <1>3, <1>4, <1>5, <1>6, <1>7 DEF InductiveInvariant

\* The inductive invariant holds of every state, restarts of the server between
\* any two statements included.
THEOREM Invariance == FaultySpec => []InductiveInvariant
<1>1. Init => InductiveInvariant
  BY InitInvariant
<1>2. InductiveInvariant /\ [Next \/ Restart]_vars => InductiveInvariant'
  BY TypeOKStep, OpenedApartStep, ScanProgressStep, RequestsKnowVisitStep, LoserHasElderStep,
     RereadStep, SettlementStep, SessionsApartStep, SeatedStep, Zenon DEF InductiveInvariant
<1> QED BY <1>1, <1>2, PTL DEF FaultySpec

\* Every variable stays within its type.
THEOREM TypeCorrect == FaultySpec => []TypeOK
<1>1. InductiveInvariant => TypeOK
  BY DEF InductiveInvariant
<1> QED BY <1>1, Invariance, PTL

\* openOrJoinVisit: the scans that race at an idle table never all discard.
THEOREM OldestVisitSurvivesHolds == FaultySpec => []OldestVisitSurvives
<1>1. InductiveInvariant => OldestVisitSurvives
  <2> SUFFICES ASSUME InductiveInvariant PROVE OldestVisitSurvives
    OBVIOUS
  <2>1. ASSUME NEW v \in Scans, visit[v] # "none", settled[v] = 0,
               \A w \in Scans : visit[w] # "none" => openedAt[v] <= openedAt[w],
               visit[v] = "deleted"
        PROVE  FALSE
    <3>1. PICK w \in Scans : visit[w] # "none" /\ openedAt[w] < openedAt[v]
      BY <2>1 DEF InductiveInvariant, LoserHasElder
    <3>2. openedAt[v] \in Nat /\ openedAt[w] \in Nat
      BY DEF InductiveInvariant, TypeOK
    <3> QED BY <2>1, <3>1, <3>2
  <2> QED BY <2>1 DEF OldestVisitSurvives
<1> QED BY <1>1, Invariance, PTL

\* openOrJoinVisit: the second look catches an older visit that was there.
THEOREM RereadCatchesOlderVisitHolds == FaultySpec => []RereadCatchesOlderVisit
<1>1. InductiveInvariant => RereadCatchesOlderVisit
  BY DEF InductiveInvariant
<1> QED BY <1>1, Invariance, PTL

\* settleVisit: a visit is settled once, and stays settled, but for a bill
\* request written over the close.
THEOREM SettlementIsFinalHolds == FaultySpec => []SettlementIsFinal
<1>1. InductiveInvariant => SettlementIsFinal
  BY DEF InductiveInvariant
<1> QED BY <1>1, Invariance, PTL

\* mintSession: the phones whose scans have ended never exceed the cap, however
\* many scans were cut short by a restart.
THEOREM CountedPhonesFit == FaultySpec => [](Cardinality({s \in Live : at[s] = "done"}) <= MAX_ACTIVE_PER_TABLE)
<1>1. InductiveInvariant => Cardinality({s \in Live : at[s] = "done"}) <= MAX_ACTIVE_PER_TABLE
  BY CountedFit DEF InductiveInvariant
<1> QED BY <1>1, Invariance, PTL

\* mintSession: without restarts, the table's phones exceed the cap by at most
\* the scans that have yet to displace the oldest ones.
THEOREM SeatsBoundedHolds == Spec => []SeatsBounded
<1>1. [Next]_vars => [Next \/ Restart]_vars
  OBVIOUS
<1>2. Spec => []InductiveInvariant
  BY <1>1, Invariance, PTL DEF Spec, FaultySpec
<1>3. Init => LiveIsCounted
  BY DEF Init, LiveIsCounted, Live
<1>4. InductiveInvariant /\ LiveIsCounted /\ [Next]_vars => LiveIsCounted'
  BY LiveIsCountedStep DEF InductiveInvariant
<1>5. InductiveInvariant /\ LiveIsCounted => SeatsBounded
  BY SeatsFollow DEF InductiveInvariant
<1> QED BY <1>2, <1>3, <1>4, <1>5, PTL DEF Spec

=============================================================================
