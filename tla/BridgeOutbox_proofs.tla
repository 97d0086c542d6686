------------------------ MODULE BridgeOutbox_proofs ------------------------
(***************************************************************************)
(* Theorems about BridgeOutbox, for any number of tickets, agents, sweeps, *)
(* attempts and retries, and any batch size.                               *)
(***************************************************************************)
EXTENDS BridgeOutbox, TLAPS

USE CountsAssumption DEF Deliveries, NoClaim

-----------------------------------------------------------------------------
(* Type correctness *)

LEMMA InitTypeOK == Init => TypeOK
BY DEF Init, TypeOK, Acks

LEMMA SeenIsAck ==
    ASSUME TypeOK, NEW k \in acks
    PROVE  Seen(k) \in Acks /\ Seen(k).row = k.row /\ Seen(k).ok = k.ok
BY DEF TypeOK, Acks, Seen

LEMMA AckOfIsAck ==
    ASSUME TypeOK, NEW a \in Agents, NEW d \in Deliveries, NEW ok \in BOOLEAN
    PROVE  AckOf(a, d, ok) \in Acks /\ AckOf(a, d, ok).row = d /\ AckOf(a, d, ok).ok = ok
BY DEF TypeOK, Acks, AckOf

LEMMA TypeOKStep == TypeOK /\ [Next]_vars => TypeOK'
<1> SUFFICES ASSUME TypeOK, [Next]_vars PROVE TypeOK'
  OBVIOUS
<1> USE DEF TypeOK, rows, agents, history
<1>1. ASSUME NEW d \in Deliveries, Create(d) PROVE TypeOK'
  BY <1>1 DEF Create
<1>2. ASSUME NEW d \in Deliveries, ClaimExpires(d) PROVE TypeOK'
  BY <1>2 DEF ClaimExpires
<1>3. ASSUME NEW d \in Deliveries, AdminRetry(d) PROVE TypeOK'
  BY <1>3 DEF AdminRetry
<1>4. ASSUME NEW a \in Agents, PollRead(a) PROVE TypeOK'
  BY <1>4 DEF PollRead, Candidates
<1>5. ASSUME NEW a \in Agents, PollClaim(a) PROVE TypeOK'
  <2>1. status' \in [Deliveries -> {"none", "pending", "claimed", "sent", "failed"}]
    BY <1>5 DEF PollClaim
  <2>2. attempts' \in [Deliveries -> Nat]
    BY <1>5 DEF PollClaim
  <2>3. claimId' \in [Deliveries -> Nat]
    BY <1>5 DEF PollClaim
  <2>4. claimedAt' \in [Deliveries -> {"null", "fresh", "stale"}]
    BY <1>5 DEF PollClaim
  <2>5. /\ at' \in [Agents -> {"idle", "polled", "claimed", "printing", "acking"}]
        /\ batch' \in [Agents -> SUBSET Deliveries]
        /\ claim' \in [Agents -> Nat]
        /\ lastClaim' \in Nat
    BY <1>5 DEF PollClaim
  <2> QED BY <1>5, <2>1, <2>2, <2>3, <2>4, <2>5 DEF PollClaim
<1>6. ASSUME NEW a \in Agents, PollLoses(a) \/ PollAnswer(a) \/ AnswerLost(a) PROVE TypeOK'
  <2>1. CASE PollLoses(a)
    BY <2>1 DEF PollLoses
  <2>2. CASE PollAnswer(a)
    <3>1. batch' \in [Agents -> SUBSET Deliveries]
      BY <2>2 DEF PollAnswer
    <3>2. at' \in [Agents -> {"idle", "polled", "claimed", "printing", "acking"}]
      BY <2>2 DEF PollAnswer
    <3> QED BY <2>2, <3>1, <3>2 DEF PollAnswer
  <2>3. CASE AnswerLost(a)
    BY <2>3 DEF AnswerLost
  <2> QED BY <1>6, <2>1, <2>2, <2>3
<1>7. ASSUME NEW a \in Agents, NEW d \in Deliveries, PrintOk(a, d) PROVE TypeOK'
  <2>1. acks' \in SUBSET Acks
    BY <1>7, AckOfIsAck DEF PrintOk
  <2>2. printed' \in [Deliveries -> Nat]
    BY <1>7 DEF PrintOk
  <2>3. /\ batch' \in [Agents -> SUBSET Deliveries]
        /\ at' \in [Agents -> {"idle", "polled", "claimed", "printing", "acking"}]
        /\ excused' \in SUBSET Deliveries
    BY <1>7 DEF PrintOk
  <2> QED BY <1>7, <2>1, <2>2, <2>3 DEF PrintOk
<1>8. ASSUME NEW a \in Agents, NEW d \in Deliveries, PrintFails(a, d) PROVE TypeOK'
  <2>1. acks' \in SUBSET Acks
    BY <1>8, AckOfIsAck DEF PrintFails
  <2>2. printed' \in [Deliveries -> Nat]
    BY <1>8 DEF PrintFails
  <2>3. /\ batch' \in [Agents -> SUBSET Deliveries]
        /\ at' \in [Agents -> {"idle", "polled", "claimed", "printing", "acking"}]
        /\ excused' \in SUBSET Deliveries
    BY <1>8 DEF PrintFails
  <2> QED BY <1>8, <2>1, <2>2, <2>3 DEF PrintFails
<1>9. ASSUME NEW a \in Agents, NextTicket(a) \/ Crash(a) PROVE TypeOK'
  BY <1>9 DEF NextTicket, Crash
<1>10. ASSUME NEW k \in acks, AckRead(k) PROVE TypeOK'
  <2>1. acks' \in SUBSET Acks
    BY <1>10, SeenIsAck DEF AckRead
  <2> QED BY <1>10, <2>1 DEF AckRead
<1>11. ASSUME NEW k \in acks, AckWrite(k) PROVE TypeOK'
  BY <1>11 DEF AckWrite
<1>12. ASSUME NEW k \in acks, AckLost(k) PROVE TypeOK'
  BY <1>12 DEF AckLost
<1>13. ASSUME NEW s \in Sweepers, SweepStale(s) PROVE TypeOK'
  BY <1>13 DEF SweepStale, Release
<1>14. ASSUME NEW s \in Sweepers, SweepNull(s) PROVE TypeOK'
  BY <1>14 DEF SweepNull, Release
<1>15. ASSUME NEW s \in Sweepers, SweepExhausted(s) PROVE TypeOK'
  BY <1>15 DEF SweepExhausted
<1>16. CASE UNCHANGED vars
  BY <1>16 DEF vars
<1> QED
  BY <1>1, <1>2, <1>3, <1>4, <1>5, <1>6, <1>7, <1>8, <1>9, <1>10, <1>11, <1>12, <1>13,
     <1>14, <1>15, <1>16 DEF Next, Poll, Tick, Settle, Sweep

\* Every variable keeps the type the code gives it.
THEOREM TypeCorrect == Spec => []TypeOK
BY InitTypeOK, TypeOKStep, PTL DEF Spec

-----------------------------------------------------------------------------
(* The inductive invariant, conjunct by conjunct *)

\* The rows change only in these actions.
LEMMA OnlyTheseChangeRows ==
    ASSUME [Next]_vars
    PROVE  \/ \E d \in Deliveries : Create(d) \/ ClaimExpires(d) \/ AdminRetry(d)
           \/ \E a \in Agents : PollClaim(a)
           \/ \E k \in acks : AckWrite(k)
           \/ \E s \in Sweepers : Sweep(s)
           \/ UNCHANGED rows
<1>1. ASSUME NEW a \in Agents, Poll(a) \/ AnswerLost(a), ~PollClaim(a) PROVE UNCHANGED rows
  BY <1>1 DEF Poll, PollRead, PollLoses, PollAnswer, AnswerLost, rows
<1>2. ASSUME NEW a \in Agents, Tick(a) \/ Crash(a) PROVE UNCHANGED rows
  BY <1>2 DEF Tick, PrintOk, PrintFails, NextTicket, Crash, rows
<1>3. ASSUME NEW k \in acks, Settle(k) \/ AckLost(k), ~AckWrite(k) PROVE UNCHANGED rows
  BY <1>3 DEF Settle, AckRead, AckLost, rows
<1>4. CASE UNCHANGED vars
  BY <1>4 DEF vars, rows
<1> QED BY <1>1, <1>2, <1>3, <1>4 DEF Next

LEMMA ClaimIsWholeStep ==
    ASSUME TypeOK, ClaimIsWhole, [Next]_vars
    PROVE  ClaimIsWhole'
<1> USE DEF TypeOK, ClaimIsWhole
<1>1. ASSUME NEW d \in Deliveries, Create(d) \/ ClaimExpires(d) \/ AdminRetry(d)
      PROVE  ClaimIsWhole'
  <2>1. CASE Create(d)
    BY <2>1 DEF Create
  <2>2. CASE ClaimExpires(d)
    BY <2>2 DEF ClaimExpires
  <2>3. CASE AdminRetry(d)
    BY <2>3 DEF AdminRetry
  <2> QED BY <1>1, <2>1, <2>2, <2>3
<1>2. ASSUME NEW a \in Agents, PollClaim(a) PROVE ClaimIsWhole'
  BY <1>2 DEF PollClaim
<1>3. ASSUME NEW k \in acks, AckWrite(k) PROVE ClaimIsWhole'
  BY <1>3 DEF AckWrite
<1>4. ASSUME NEW s \in Sweepers, Sweep(s) PROVE ClaimIsWhole'
  <2>1. CASE SweepStale(s)
    BY <2>1 DEF SweepStale, Release
  <2>2. CASE SweepNull(s)
    BY <2>2 DEF SweepNull, Release
  <2>3. CASE SweepExhausted(s)
    BY <2>3 DEF SweepExhausted
  <2> QED BY <1>4, <2>1, <2>2, <2>3 DEF Sweep
<1>5. CASE UNCHANGED rows
  BY <1>5 DEF rows
<1> QED BY <1>1, <1>2, <1>3, <1>4, <1>5, OnlyTheseChangeRows

LEMMA AttemptsBoundedStep ==
    ASSUME TypeOK, AttemptsBounded, [Next]_vars
    PROVE  AttemptsBounded'
<1> USE DEF TypeOK, AttemptsBounded
<1>1. ASSUME NEW d \in Deliveries, Create(d) \/ ClaimExpires(d) \/ AdminRetry(d)
      PROVE  AttemptsBounded'
  <2>1. CASE Create(d)
    BY <2>1 DEF Create
  <2>2. CASE ClaimExpires(d)
    BY <2>2 DEF ClaimExpires
  <2>3. CASE AdminRetry(d)
    BY <2>3 DEF AdminRetry
  <2> QED BY <1>1, <2>1, <2>2, <2>3
<1>2. ASSUME NEW a \in Agents, PollClaim(a) PROVE AttemptsBounded'
  BY <1>2 DEF PollClaim, Won, Claimable
<1>3. ASSUME NEW k \in acks, AckWrite(k) PROVE AttemptsBounded'
  BY <1>3 DEF AckWrite
<1>4. ASSUME NEW s \in Sweepers, Sweep(s) PROVE AttemptsBounded'
  BY <1>4 DEF Sweep, SweepStale, SweepNull, SweepExhausted, Release
<1>5. CASE UNCHANGED rows
  BY <1>5 DEF rows
<1> QED BY <1>1, <1>2, <1>3, <1>4, <1>5, OnlyTheseChangeRows

LEMMA ClaimsDrawnStep ==
    ASSUME TypeOK, ClaimsDrawn, [Next]_vars
    PROVE  ClaimsDrawn'
<1>1. /\ claimId \in [Deliveries -> Nat] /\ claim \in [Agents -> Nat] /\ lastClaim \in Nat
      /\ \A d \in Deliveries : claimId[d] <= lastClaim
      /\ \A a \in Agents : claim[a] <= lastClaim
      /\ \A a \in Agents : at[a] = "claimed" => claim[a] # NoClaim
      /\ \A a, b \in Agents : claim[a] = claim[b] /\ claim[a] # NoClaim => a = b
  BY DEF TypeOK, ClaimsDrawn
<1>2. ASSUME NEW a \in Agents, PollClaim(a) PROVE ClaimsDrawn'
  <2>1. \A d \in Deliveries : claimId'[d] <= lastClaim + 1
    BY <1>1, <1>2 DEF PollClaim
  <2>2. /\ claim' = [claim EXCEPT ![a] = lastClaim + 1]
        /\ lastClaim' = lastClaim + 1
        /\ at' = [at EXCEPT ![a] = "claimed"]
    BY <1>2 DEF PollClaim
  <2>3. /\ claim'[a] = lastClaim + 1
        /\ \A b \in Agents \ {a} : claim'[b] = claim[b] /\ at'[b] = at[b]
    BY <1>1, <2>2 DEF TypeOK
  <2>4. \A b \in Agents : claim'[b] <= lastClaim + 1
    BY <1>1, <2>3
  <2>5. \A b \in Agents : at'[b] = "claimed" => claim'[b] # NoClaim
    BY <1>1, <2>3
  <2>6. ASSUME NEW b \in Agents, NEW c \in Agents, claim'[b] = claim'[c], claim'[b] # NoClaim
        PROVE  b = c
    <3>1. claim[b] < lastClaim + 1 /\ claim[c] < lastClaim + 1
      BY <1>1
    <3> QED BY <1>1, <2>3, <2>6, <3>1
  <2> QED BY <2>1, <2>2, <2>4, <2>5, <2>6 DEF ClaimsDrawn
<1>3. CASE ~ \E a \in Agents : PollClaim(a)
  <2>1. UNCHANGED <<claim, lastClaim>>
    BY <1>3 DEF Next, Poll, Tick, Settle, Sweep, Create, ClaimExpires, AdminRetry, PollRead,
       PollLoses, PollAnswer, AnswerLost, PrintOk, PrintFails, NextTicket, Crash, AckRead,
       AckWrite, AckLost, SweepStale, SweepNull, SweepExhausted, vars, agents
  <2>2. ASSUME NEW a \in Agents, at'[a] = "claimed" PROVE at[a] = "claimed"
    <3>1. at \in [Agents -> {"idle", "polled", "claimed", "printing", "acking"}]
      BY DEF TypeOK
    <3>2. at' = at \/ \E b \in Agents :
                         \E w \in {"idle", "polled", "printing", "acking"} :
                            at' = [at EXCEPT ![b] = w]
      BY <1>3, Zenon DEF Next, Poll, Tick, Settle, Sweep, Create, ClaimExpires, AdminRetry,
         PollRead, PollLoses, PollAnswer, AnswerLost, PrintOk, PrintFails, NextTicket, Crash,
         AckRead, AckWrite, AckLost, SweepStale, SweepNull, SweepExhausted, vars, agents
    <3> QED BY <2>2, <3>1, <3>2
  <2>3. \A d \in Deliveries : claimId'[d] = claimId[d] \/ claimId'[d] = NoClaim
    <3>1. ASSUME NEW d \in Deliveries, Create(d) \/ ClaimExpires(d) \/ AdminRetry(d)
          PROVE  \A e \in Deliveries : claimId'[e] = claimId[e] \/ claimId'[e] = NoClaim
      BY <1>1, <3>1 DEF Create, ClaimExpires, AdminRetry
    <3>2. ASSUME NEW k \in acks, AckWrite(k)
          PROVE  \A e \in Deliveries : claimId'[e] = claimId[e] \/ claimId'[e] = NoClaim
      BY <1>1, <3>2 DEF AckWrite
    <3>3. ASSUME NEW s \in Sweepers, Sweep(s)
          PROVE  \A e \in Deliveries : claimId'[e] = claimId[e] \/ claimId'[e] = NoClaim
      BY <1>1, <3>3 DEF Sweep, SweepStale, SweepNull, SweepExhausted, Release
    <3>4. CASE UNCHANGED rows
      BY <3>4 DEF rows
    <3> QED BY <1>3, <3>1, <3>2, <3>3, <3>4, OnlyTheseChangeRows
  <2> QED BY <1>1, <2>1, <2>2, <2>3 DEF ClaimsDrawn
<1> QED BY <1>2, <1>3

\* A ticket stays regular when its row and its prints stay as they are, nobody
\* comes to own it and nothing new is acknowledged of it.
LEMMA RegularKept ==
    ASSUME NEW d \in Deliveries, Regular(d),
           status'[d] = status[d], attempts'[d] = attempts[d],
           claimedAt'[d] = claimedAt[d], printed'[d] = printed[d],
           \A a \in Agents : Owns(a, d)' => Owns(a, d),
           \A k \in acks' : k.row = d => \E j \in acks : j.row = d /\ j.ok = k.ok
    PROVE  Regular(d)'
<1>1. \A k \in acks' : k.row = d => k.ok /\ printed'[d] = 1
  BY DEF Regular
<1> QED BY <1>1 DEF Regular

LEMMA RegularStep ==
    ASSUME TypeOK, ClaimIsWhole, ClaimsDrawn, RegularUnlessExcused, [Next]_vars
    PROVE  RegularUnlessExcused'
<1> SUFFICES ASSUME NEW d \in Deliveries, d \notin excused' PROVE Regular(d)'
  BY DEF RegularUnlessExcused
<1>0. /\ status \in [Deliveries -> {"none", "pending", "claimed", "sent", "failed"}]
      /\ attempts \in [Deliveries -> Nat]
      /\ claimId \in [Deliveries -> Nat]
      /\ claimedAt \in [Deliveries -> {"null", "fresh", "stale"}]
      /\ at \in [Agents -> {"idle", "polled", "claimed", "printing", "acking"}]
      /\ batch \in [Agents -> SUBSET Deliveries]
      /\ claim \in [Agents -> Nat]
      /\ lastClaim \in Nat
      /\ printed \in [Deliveries -> Nat]
  BY DEF TypeOK
<1>1. excused \subseteq excused'
  BY DEF Next, Poll, Tick, Settle, Sweep, Create, ClaimExpires, AdminRetry, PollRead, PollClaim,
     PollLoses, PollAnswer, AnswerLost, PrintOk, PrintFails, NextTicket, Crash, AckRead,
     AckWrite, AckLost, SweepStale, SweepNull, SweepExhausted, vars, history
<1>2. Regular(d)
  BY <1>1 DEF RegularUnlessExcused
<1>3. /\ status[d] # "failed"
      /\ status[d] \in {"none", "pending"} => printed[d] = 0 /\ attempts[d] = 0
      /\ status[d] = "claimed" => claimedAt[d] = "fresh"
      /\ printed[d] <= 1
      /\ \A a \in Agents : Owns(a, d) => status[d] = "claimed" /\ printed[d] = 0
      /\ \A a, b \in Agents : Owns(a, d) /\ Owns(b, d) => a = b
      /\ \A k \in acks : k.row = d => k.ok /\ printed[d] = 1
  BY <1>2 DEF Regular
<1>4. ASSUME NEW e \in Deliveries, Create(e) PROVE Regular(d)'
  <2>1. \A a \in Agents : Owns(a, d)' <=> Owns(a, d)
    BY <1>4 DEF Create, agents, Owns
  <2>2. UNCHANGED <<attempts, claimedAt, printed, acks>>
    BY <1>4 DEF Create, history
  <2>3. CASE e = d
    <3>1. status[d] = "none" /\ status'[d] = "pending"
      BY <1>0, <1>4, <2>3 DEF Create
    <3> QED BY <1>3, <2>1, <2>2, <3>1 DEF Regular
  <2>4. CASE e # d
    <3>1. status'[d] = status[d]
      BY <1>0, <1>4, <2>4 DEF Create
    <3> QED BY <1>2, <2>1, <2>2, <3>1, RegularKept
  <2> QED BY <2>3, <2>4
<1>5. ASSUME NEW e \in Deliveries, ClaimExpires(e) PROVE Regular(d)'
  <2>1. e # d
    BY <1>5 DEF ClaimExpires
  <2>2. /\ UNCHANGED <<status, attempts, claimId, at, batch, claim, printed, acks>>
        /\ claimedAt'[d] = claimedAt[d]
    BY <1>0, <1>5, <2>1 DEF ClaimExpires, agents
  <2>3. \A a \in Agents : Owns(a, d)' <=> Owns(a, d)
    BY <2>2 DEF Owns
  <2> QED BY <1>2, <2>2, <2>3, RegularKept
<1>6. ASSUME NEW e \in Deliveries, AdminRetry(e) PROVE Regular(d)'
  <2>1. e # d
    BY <1>6 DEF AdminRetry
  <2>2. /\ UNCHANGED <<at, batch, claim, printed, acks>>
        /\ status'[d] = status[d] /\ attempts'[d] = attempts[d]
        /\ claimId'[d] = claimId[d] /\ claimedAt'[d] = claimedAt[d]
    BY <1>0, <1>6, <2>1 DEF AdminRetry, agents
  <2>3. \A a \in Agents : Owns(a, d)' <=> Owns(a, d)
    BY <2>2 DEF Owns
  <2> QED BY <1>2, <2>2, <2>3, RegularKept
<1>7. ASSUME NEW a \in Agents,
             PollRead(a) \/ PollLoses(a) \/ AnswerLost(a) \/ NextTicket(a) \/ Crash(a)
      PROVE  Regular(d)'
  <2>1. UNCHANGED <<status, attempts, claimId, claimedAt, claim, printed, acks>>
    BY <1>7 DEF PollRead, PollLoses, AnswerLost, NextTicket, Crash, rows, history
  <2>2. \A b \in Agents \ {a} : at'[b] = at[b] /\ batch'[b] = batch[b]
    BY <1>0, <1>7 DEF PollRead, PollLoses, AnswerLost, NextTicket, Crash
  <2>3. \/ at'[a] \in {"idle", "polled"}
        \/ at[a] = "acking" /\ at'[a] = "printing" /\ batch'[a] = batch[a]
    BY <1>0, <1>7 DEF PollRead, PollLoses, AnswerLost, NextTicket, Crash
  <2>4. \A b \in Agents : Owns(b, d)' => Owns(b, d)
    BY <2>1, <2>2, <2>3 DEF Owns
  <2> QED BY <1>2, <2>1, <2>4, RegularKept
<1>8. ASSUME NEW a \in Agents, PollClaim(a) PROVE Regular(d)'
  <2>1. UNCHANGED <<printed, acks>> /\ at'[a] = "claimed" /\ claim'[a] = lastClaim + 1
    BY <1>0, <1>8 DEF PollClaim, history
  <2>2. \A b \in Agents \ {a} : at'[b] = at[b] /\ batch'[b] = batch[b] /\ claim'[b] = claim[b]
    BY <1>0, <1>8 DEF PollClaim
  <2>3. claimId[d] # lastClaim + 1 /\ \A b \in Agents : claim[b] # lastClaim + 1
    <3>1. claimId[d] <= lastClaim /\ \A b \in Agents : claim[b] <= lastClaim
      BY DEF ClaimsDrawn
    <3> QED BY <1>0, <3>1
  <2>4. CASE d \in Won(a)
    <3>1. status[d] = "pending" /\ printed[d] = 0
      BY <1>3, <2>4 DEF Won, Claimable
    <3>2. /\ status'[d] = "claimed" /\ claimedAt'[d] = "fresh" /\ claimId'[d] = lastClaim + 1
      BY <1>8, <2>4 DEF PollClaim
    <3>3. \A b \in Agents \ {a} : ~Owns(b, d)
      BY <1>3, <3>1
    <3>4. \A b \in Agents \ {a} : ~Owns(b, d)'
      BY <2>2, <2>3, <3>2, <3>3 DEF Owns
    <3> QED BY <1>3, <2>1, <3>1, <3>2, <3>4 DEF Regular
  <2>5. CASE d \notin Won(a)
    <3>1. /\ status'[d] = status[d] /\ attempts'[d] = attempts[d]
          /\ claimId'[d] = claimId[d] /\ claimedAt'[d] = claimedAt[d]
      BY <1>8, <2>5 DEF PollClaim
    <3>2. ~Owns(a, d)'
      BY <2>1, <2>3, <3>1 DEF Owns
    <3>3. \A b \in Agents : Owns(b, d)' => Owns(b, d)
      BY <2>2, <3>1, <3>2 DEF Owns
    <3> QED BY <1>2, <2>1, <3>1, <3>3, RegularKept
  <2> QED BY <2>4, <2>5
<1>9. ASSUME NEW a \in Agents, PollAnswer(a) PROVE Regular(d)'
  <2>1. UNCHANGED <<status, attempts, claimId, claimedAt, claim, printed, acks>>
    BY <1>9 DEF PollAnswer, rows, history
  <2>2. /\ at[a] = "claimed"
        /\ at'[a] \in {"idle", "printing"}
        /\ batch'[a] = {e \in Deliveries : claimId[e] = claim[a]}
    BY <1>0, <1>9 DEF PollAnswer
  <2>3. \A b \in Agents \ {a} : at'[b] = at[b] /\ batch'[b] = batch[b]
    BY <1>0, <1>9 DEF PollAnswer
  <2>4. \A b \in Agents : Owns(b, d)' => Owns(b, d)
    BY <2>1, <2>2, <2>3 DEF Owns
  <2> QED BY <1>2, <2>1, <2>4, RegularKept
<1>10. ASSUME NEW a \in Agents, NEW e \in Deliveries, PrintOk(a, e) PROVE Regular(d)'
  <2>1. /\ UNCHANGED <<status, attempts, claimId, claimedAt, claim>>
        /\ acks' = acks \cup {AckOf(a, e, TRUE)}
        /\ at[a] = "printing" /\ at'[a] = "acking"
        /\ e \in batch[a] /\ batch'[a] = batch[a] \ {e}
        /\ printed' = [printed EXCEPT ![e] = printed[e] + 1]
    BY <1>0, <1>10 DEF PrintOk, First, rows
  <2>2. \A b \in Agents \ {a} : at'[b] = at[b] /\ batch'[b] = batch[b]
    BY <1>0, <1>10 DEF PrintOk
  <2>3. AckOf(a, e, TRUE).row = e /\ AckOf(a, e, TRUE).ok = TRUE
    BY DEF AckOf
  <2>4. \A b \in Agents : Owns(b, d)' => Owns(b, d)
    BY <2>1, <2>2 DEF Owns
  <2>5. CASE e = d
    <3>1. Owns(a, d) /\ ~Owns(a, d)'
      BY <2>1, <2>5 DEF Owns
    <3>2. status[d] = "claimed" /\ printed[d] = 0 /\ \A b \in Agents : ~Owns(b, d)'
      BY <1>3, <2>4, <3>1
    <3>3. printed'[d] = 1
      BY <1>0, <2>1, <2>5, <3>2
    <3>4. \A k \in acks' : k.row = d => k.ok
      BY <1>3, <2>1, <2>3
    <3>5. status'[d] = "claimed" /\ claimedAt'[d] = "fresh"
      BY <1>3, <2>1, <3>2
    <3> QED BY <3>2, <3>3, <3>4, <3>5 DEF Regular
  <2>6. CASE e # d
    <3>1. printed'[d] = printed[d]
      BY <1>0, <2>1, <2>6
    <3>2. \A k \in acks' : k.row = d => k \in acks
      BY <2>1, <2>3, <2>6
    <3> QED BY <1>2, <2>1, <2>4, <3>1, <3>2, RegularKept
  <2> QED BY <2>5, <2>6
<1>11. ASSUME NEW a \in Agents, NEW e \in Deliveries, PrintFails(a, e) PROVE Regular(d)'
  <2>1. /\ UNCHANGED <<status, attempts, claimId, claimedAt, claim>>
        /\ acks' = acks \cup {AckOf(a, e, FALSE)}
        /\ at[a] = "printing" /\ at'[a] = "acking"
        /\ batch'[a] = batch[a] \ {e}
        /\ e # d
    BY <1>0, <1>11 DEF PrintFails, rows
  <2>2. \A b \in Agents \ {a} : at'[b] = at[b] /\ batch'[b] = batch[b]
    BY <1>0, <1>11 DEF PrintFails
  <2>3. AckOf(a, e, FALSE).row = e
    BY DEF AckOf
  <2>4. printed'[d] = printed[d]
    BY <1>0, <1>11, <2>1 DEF PrintFails
  <2>5. \A b \in Agents : Owns(b, d)' => Owns(b, d)
    BY <2>1, <2>2 DEF Owns
  <2>6. \A k \in acks' : k.row = d => k \in acks
    BY <2>1, <2>3
  <2> QED BY <1>2, <2>1, <2>4, <2>5, <2>6, RegularKept
<1>12. ASSUME NEW k \in acks, AckRead(k) \/ AckLost(k) PROVE Regular(d)'
  <2>1. /\ UNCHANGED <<status, attempts, claimId, claimedAt, at, batch, claim, printed>>
        /\ acks' \subseteq acks \cup {Seen(k)}
    BY <1>12 DEF AckRead, AckLost, rows, agents, history
  <2>2. \A j \in acks' : j.row = d => \E i \in acks : i.row = d /\ i.ok = j.ok
    BY <2>1, SeenIsAck
  <2>3. \A a \in Agents : Owns(a, d)' <=> Owns(a, d)
    BY <2>1 DEF Owns
  <2> QED BY <1>2, <2>1, <2>2, <2>3, RegularKept
<1>13. ASSUME NEW k \in acks, AckWrite(k) PROVE Regular(d)'
  <2>1. UNCHANGED <<attempts, at, batch, claim, printed>> /\ acks' \subseteq acks
    BY <1>13 DEF AckWrite, agents, history
  <2>2. CASE k.row = d
    <3>1. k.ok /\ printed[d] = 1
      BY <1>3, <2>2
    <3>2. status'[d] = "sent" /\ claimId'[d] = NoClaim /\ claimedAt'[d] = "null"
      BY <1>0, <1>13, <2>2, <3>1 DEF AckWrite
    <3>3. \A a \in Agents : ~Owns(a, d)
      BY <1>3, <3>1
    <3>4. \A a \in Agents : ~Owns(a, d)'
      BY <2>1, <3>2, <3>3 DEF Owns, ClaimsDrawn
    <3> QED BY <1>3, <2>1, <3>1, <3>2, <3>4 DEF Regular
  <2>3. CASE k.row # d
    <3>1. status'[d] = status[d] /\ claimId'[d] = claimId[d] /\ claimedAt'[d] = claimedAt[d]
      BY <1>0, <1>13, <2>3 DEF AckWrite
    <3>2. \A a \in Agents : Owns(a, d)' <=> Owns(a, d)
      BY <2>1, <3>1 DEF Owns
    <3> QED BY <1>2, <2>1, <3>1, <3>2, RegularKept
  <2> QED BY <2>2, <2>3
<1>14. ASSUME NEW s \in Sweepers, Sweep(s) PROVE Regular(d)'
  <2>1. UNCHANGED <<attempts, at, batch, claim, printed, acks>>
    BY <1>14 DEF Sweep, SweepStale, SweepNull, SweepExhausted, Release, agents, history
  <2>2. CASE SweepStale(s) \/ SweepNull(s)
    BY <1>2, <1>3, <2>1, <2>2, RegularKept DEF SweepStale, SweepNull, Release, Owns
  <2>3. CASE SweepExhausted(s)
    BY <1>2, <1>3, <2>1, <2>3, RegularKept DEF SweepExhausted, Owns
  <2> QED BY <1>14, <2>2, <2>3 DEF Sweep
<1>15. CASE UNCHANGED vars
  BY <1>2, <1>15, RegularKept DEF vars, Owns
<1> QED
  BY <1>4, <1>5, <1>6, <1>7, <1>8, <1>9, <1>10, <1>11, <1>12, <1>13, <1>14, <1>15
     DEF Next, Poll, Tick, Settle

\* Prints are never taken back.
LEMMA PrintedGrows ==
    ASSUME TypeOK, [Next]_vars, NEW d \in Deliveries
    PROVE  printed'[d] \in Nat /\ printed[d] \in Nat /\ printed'[d] >= printed[d]
<1>0. printed \in [Deliveries -> Nat]
  BY DEF TypeOK
<1>1. ASSUME NEW a \in Agents, NEW e \in Deliveries, PrintOk(a, e) \/ PrintFails(a, e)
      PROVE  printed'[d] \in Nat /\ printed'[d] >= printed[d]
  <2>1. PICK n \in {0, 1} : printed' = [printed EXCEPT ![e] = printed[e] + n]
    <3>1. CASE PrintOk(a, e)
      BY <3>1 DEF PrintOk
    <3>2. CASE PrintFails(a, e)
      BY <3>2 DEF PrintFails
    <3> QED BY <1>1, <3>1, <3>2
  <2> QED BY <1>0, <2>1
<1>2. CASE printed' = printed
  BY <1>0, <1>2
<1>3. printed' = printed \/ \E a \in Agents : \E e \in Deliveries : PrintOk(a, e) \/ PrintFails(a, e)
  BY DEF Next, Poll, Tick, Settle, Sweep, Create, ClaimExpires, AdminRetry, PollRead, PollClaim,
     PollLoses, PollAnswer, AnswerLost, NextTicket, Crash, AckRead, AckWrite, AckLost,
     SweepStale, SweepNull, SweepExhausted, vars, history
<1> QED BY <1>0, <1>1, <1>2, <1>3

LEMMA OkAcksStep ==
    ASSUME TypeOK, OkAcksWerePrinted, [Next]_vars
    PROVE  OkAcksWerePrinted'
<1> SUFFICES ASSUME NEW k \in acks', k.ok PROVE printed'[k.row] > 0
  BY DEF OkAcksWerePrinted
<1>1. CASE \E j \in acks : j.row = k.row /\ j.ok = k.ok
  <2>1. PICK j \in acks : j.row = k.row /\ j.ok = k.ok
    BY <1>1
  <2>2. k.row \in Deliveries /\ printed[k.row] > 0
    BY <2>1 DEF TypeOK, Acks, OkAcksWerePrinted
  <2> QED BY <2>2, PrintedGrows
<1>2. ASSUME NEW a \in Agents, NEW d \in Deliveries, PrintOk(a, d), k \notin acks
      PROVE  printed'[k.row] > 0
  <2>1. k.row = d
    BY <1>2 DEF PrintOk, AckOf
  <2> QED BY <1>2, <2>1 DEF PrintOk, TypeOK
<1>3. ASSUME NEW a \in Agents, NEW d \in Deliveries, PrintFails(a, d) PROVE k \in acks
  BY <1>3 DEF PrintFails, AckOf
<1>4. ASSUME NEW j \in acks, AckRead(j), k \notin acks
      PROVE  \E i \in acks : i.row = k.row /\ i.ok = k.ok
  <2>1. k = Seen(j)
    BY <1>4 DEF AckRead
  <2> QED BY <2>1, SeenIsAck
<1>5. \/ acks' \subseteq acks
      \/ \E j \in acks : AckRead(j)
      \/ \E a \in Agents, d \in Deliveries : PrintOk(a, d) \/ PrintFails(a, d)
  BY DEF Next, Poll, Tick, Settle, Sweep, Create, ClaimExpires, AdminRetry, PollRead, PollClaim,
     PollLoses, PollAnswer, AnswerLost, NextTicket, Crash, AckWrite, AckLost,
     SweepStale, SweepNull, SweepExhausted, vars
<1> QED BY <1>1, <1>2, <1>3, <1>4, <1>5

LEMMA SentWasPrintedStep ==
    ASSUME TypeOK, OkAcksWerePrinted, SentWasPrinted, [Next]_vars
    PROVE  SentWasPrinted'
<1> SUFFICES ASSUME NEW d \in Deliveries, status'[d] = "sent" PROVE printed'[d] > 0
  BY DEF SentWasPrinted
<1>0. status \in [Deliveries -> {"none", "pending", "claimed", "sent", "failed"}]
  BY DEF TypeOK
<1>1. CASE status[d] = "sent"
  BY <1>1, PrintedGrows DEF SentWasPrinted
<1>2. ASSUME NEW k \in acks, AckWrite(k), status[d] # "sent" PROVE printed'[d] > 0
  <2>1. k.row = d /\ k.ok
    BY <1>0, <1>2 DEF AckWrite
  <2> QED BY <2>1, PrintedGrows DEF OkAcksWerePrinted
<1>3. ASSUME NEW e \in Deliveries, Create(e) \/ ClaimExpires(e) \/ AdminRetry(e)
      PROVE  status[d] = "sent"
  BY <1>0, <1>3 DEF Create, ClaimExpires, AdminRetry
<1>4. ASSUME NEW a \in Agents, PollClaim(a) PROVE status[d] = "sent"
  BY <1>4 DEF PollClaim
<1>5. ASSUME NEW s \in Sweepers, Sweep(s) PROVE status[d] = "sent"
  BY <1>5 DEF Sweep, SweepStale, SweepNull, SweepExhausted, Release
<1> QED BY <1>1, <1>2, <1>3, <1>4, <1>5, OnlyTheseChangeRows DEF rows

\* Only the admin takes attempts back.
LEMMA AttemptsGrow ==
    ASSUME TypeOK, [Next]_vars
    PROVE  \/ retries' # 0
           \/ retries = 0 /\ \A d \in Deliveries : attempts[d] <= attempts'[d]
<1> USE DEF TypeOK
<1>1. ASSUME NEW d \in Deliveries, AdminRetry(d) PROVE retries' # 0
  BY <1>1 DEF AdminRetry
<1>2. UNCHANGED retries \/ \E d \in Deliveries : AdminRetry(d)
  BY DEF Next, Poll, Tick, Settle, Sweep, Create, ClaimExpires, PollRead, PollClaim, PollLoses,
     PollAnswer, AnswerLost, PrintOk, PrintFails, NextTicket, Crash, AckRead, AckWrite, AckLost,
     SweepStale, SweepNull, SweepExhausted, vars
<1>3. ASSUME ~\E d \in Deliveries : AdminRetry(d)
      PROVE  \A d \in Deliveries : attempts[d] <= attempts'[d]
  <2>1. UNCHANGED attempts \/ \E a \in Agents : PollClaim(a)
    BY <1>3, OnlyTheseChangeRows DEF Create, ClaimExpires, AckWrite, Sweep, SweepStale,
       SweepNull, SweepExhausted, Release, rows
  <2>2. ASSUME NEW a \in Agents, PollClaim(a)
        PROVE  \A d \in Deliveries : attempts[d] <= attempts'[d]
    BY <2>2 DEF PollClaim
  <2> QED BY <2>1, <2>2
<1> QED BY <1>1, <1>2, <1>3

LEMMA CountsReadStep ==
    ASSUME TypeOK, CountsRead, [Next]_vars
    PROVE  CountsRead'
<1> SUFFICES ASSUME retries' = 0, NEW k \in acks', k.stage = "read"
             PROVE  k.attempts <= attempts'[k.row]
  BY DEF CountsRead
<1>1. retries = 0 /\ \A d \in Deliveries : attempts[d] <= attempts'[d]
  BY AttemptsGrow
<1>2. CASE k \in acks
  <2>1. k.row \in Deliveries /\ k.attempts \in Nat /\ k.attempts <= attempts[k.row]
    BY <1>1, <1>2 DEF CountsRead, TypeOK, Acks
  <2>2. attempts[k.row] \in Nat /\ attempts'[k.row] \in Nat
    BY <2>1, TypeOKStep DEF TypeOK
  <2> QED BY <1>1, <2>1, <2>2
<1>3. ASSUME NEW j \in acks, AckRead(j), k \notin acks PROVE k.attempts <= attempts'[k.row]
  <2>1. k = Seen(j) /\ UNCHANGED attempts
    BY <1>3 DEF AckRead, rows
  <2>2. k.attempts = attempts[k.row] /\ k.row \in Deliveries
    BY <2>1, SeenIsAck DEF Seen, TypeOK, Acks
  <2> QED BY <2>1, <2>2 DEF TypeOK
<1>4. ASSUME NEW a \in Agents, NEW d \in Deliveries, PrintOk(a, d) \/ PrintFails(a, d)
      PROVE  k \in acks
  BY <1>4 DEF PrintOk, PrintFails, AckOf
<1>5. \/ acks' \subseteq acks
      \/ \E j \in acks : AckRead(j)
      \/ \E a \in Agents, d \in Deliveries : PrintOk(a, d) \/ PrintFails(a, d)
  BY DEF Next, Poll, Tick, Settle, Sweep, Create, ClaimExpires, AdminRetry, PollRead, PollClaim,
     PollLoses, PollAnswer, AnswerLost, NextTicket, Crash, AckWrite, AckLost,
     SweepStale, SweepNull, SweepExhausted, vars
<1> QED BY <1>2, <1>3, <1>4, <1>5

LEMMA FailedStep ==
    ASSUME TypeOK, CountsRead, FailedOnlyWhenExhausted, [Next]_vars
    PROVE  FailedOnlyWhenExhausted'
<1> SUFFICES ASSUME retries' = 0, NEW d \in Deliveries, status'[d] = "failed"
             PROVE  attempts'[d] >= MAX_ATTEMPTS
  BY DEF FailedOnlyWhenExhausted
<1>0. /\ status \in [Deliveries -> {"none", "pending", "claimed", "sent", "failed"}]
      /\ attempts[d] \in Nat /\ attempts'[d] \in Nat
  BY TypeOKStep DEF TypeOK
<1>1. retries = 0 /\ attempts[d] <= attempts'[d]
  BY AttemptsGrow
<1>2. SUFFICES attempts[d] >= MAX_ATTEMPTS
  BY <1>0, <1>1
<1>3. CASE status[d] = "failed"
  BY <1>1, <1>3 DEF FailedOnlyWhenExhausted
<1>4. ASSUME NEW k \in acks, AckWrite(k), status[d] # "failed"
      PROVE  attempts[d] >= MAX_ATTEMPTS
  <2>1. k.stage = "read" /\ k.row = d /\ k.attempts >= MAX_ATTEMPTS
    BY <1>0, <1>4 DEF AckWrite
  <2>2. k.attempts \in Nat /\ k.attempts <= attempts[d]
    BY <1>1, <2>1 DEF CountsRead, TypeOK, Acks
  <2> QED BY <1>0, <2>1, <2>2
<1>5. ASSUME NEW s \in Sweepers, Sweep(s), status[d] # "failed"
      PROVE  attempts[d] >= MAX_ATTEMPTS
  <2>1. CASE SweepExhausted(s)
    BY <1>5, <2>1 DEF SweepExhausted
  <2>2. CASE SweepStale(s) \/ SweepNull(s)
    BY <1>5, <2>2 DEF SweepStale, SweepNull, Release
  <2> QED BY <1>5, <2>1, <2>2 DEF Sweep
<1>6. ASSUME NEW e \in Deliveries, Create(e) \/ ClaimExpires(e) \/ AdminRetry(e)
      PROVE  status[d] = "failed"
  BY <1>0, <1>6 DEF Create, ClaimExpires, AdminRetry
<1>7. ASSUME NEW a \in Agents, PollClaim(a) PROVE status[d] = "failed"
  BY <1>7 DEF PollClaim
<1> QED BY <1>3, <1>4, <1>5, <1>6, <1>7, OnlyTheseChangeRows DEF rows

-----------------------------------------------------------------------------
(* Theorems *)

LEMMA InitInductive == Init => InductiveInvariant
<1> SUFFICES ASSUME Init PROVE InductiveInvariant
  OBVIOUS
<1>1. TypeOK
  BY InitTypeOK
<1>2. ClaimIsWhole /\ AttemptsBounded /\ ClaimsDrawn
  BY DEF Init, ClaimIsWhole, AttemptsBounded, ClaimsDrawn
<1>3. RegularUnlessExcused
  BY DEF Init, RegularUnlessExcused, Regular, Owns
<1>4. OkAcksWerePrinted /\ SentWasPrinted /\ CountsRead /\ FailedOnlyWhenExhausted
  BY DEF Init, OkAcksWerePrinted, SentWasPrinted, CountsRead, FailedOnlyWhenExhausted
<1> QED BY <1>1, <1>2, <1>3, <1>4 DEF InductiveInvariant

LEMMA StepInductive == InductiveInvariant /\ [Next]_vars => InductiveInvariant'
BY TypeOKStep, ClaimIsWholeStep, AttemptsBoundedStep, ClaimsDrawnStep, RegularStep, OkAcksStep,
   SentWasPrintedStep, CountsReadStep, FailedStep DEF InductiveInvariant

\* The conjunction of all of them is invariant.
THEOREM Invariance == Spec => []InductiveInvariant
BY InitInductive, StepInductive, PTL DEF Spec

\* A claim always says by whom and since when.
THEOREM ClaimIsWholeHolds == Spec => []ClaimIsWhole
<1>1. InductiveInvariant => ClaimIsWhole
  BY DEF InductiveInvariant
<1> QED BY <1>1, Invariance, PTL

\* No ticket is handed out more often than MAX_ATTEMPTS.
THEOREM AttemptsBoundedHolds == Spec => []AttemptsBounded
<1>1. InductiveInvariant => AttemptsBounded
  BY DEF InductiveInvariant
<1> QED BY <1>1, Invariance, PTL

\* A ticket with which nothing went wrong comes out of one printer once.
THEOREM PrintedOnceHolds == Spec => []PrintedOnceUnlessExcused
<1>1. InductiveInvariant => PrintedOnceUnlessExcused
  BY DEF InductiveInvariant, TypeOK, RegularUnlessExcused, Regular, PrintedOnceUnlessExcused
<1> QED BY <1>1, Invariance, PTL

\* No ticket is shown as sent that no agent printed.
THEOREM SentWasPrintedHolds == Spec => []SentWasPrinted
<1>1. InductiveInvariant => SentWasPrinted
  BY DEF InductiveInvariant
<1> QED BY <1>1, Invariance, PTL

\* Until the admin prints again, neither an acknowledgement nor the sweep gives up
\* a ticket that was handed out less than MAX_ATTEMPTS times, however they overlap.
THEOREM FailedOnlyWhenExhaustedHolds == Spec => []FailedOnlyWhenExhausted
<1>1. InductiveInvariant => FailedOnlyWhenExhausted
  BY DEF InductiveInvariant
<1> QED BY <1>1, Invariance, PTL

-----------------------------------------------------------------------------
(* BridgeOutbox implements TicketLife *)

\* Rows that change to one status, as TicketLife writes it.
LEMMA BecomeRow ==
    ASSUME TypeOK, NEW d \in Deliveries, NEW to,
           status' = [status EXCEPT ![d] = to]
    PROVE  Life!Become({d}, to)
<1>1. status \in [Deliveries -> {"none", "pending", "claimed", "sent", "failed"}]
  BY DEF TypeOK
<1> QED BY <1>1 DEF Life!Become

\* A poll is handed rows that wait, or whose claim expired.
LEMMA ClaimHandsOut ==
    ASSUME InductiveInvariant, NEW a \in Agents, PollClaim(a)
    PROVE  Life!Next
<1>1. Won(a) \in SUBSET Deliveries
  BY DEF Won, InductiveInvariant, TypeOK
<1>2. \A d \in Won(a) : status[d] = "pending" \/ (status[d] = "claimed" /\ d \in excused)
  <2> SUFFICES ASSUME NEW d \in Won(a), status[d] # "pending"
               PROVE  status[d] = "claimed" /\ d \in excused
    OBVIOUS
  <2>1. status[d] = "claimed" /\ claimedAt[d] \in {"stale", "null"}
    BY DEF Won, Claimable
  <2>2. d \notin excused => Regular(d)
    BY <1>1 DEF InductiveInvariant, RegularUnlessExcused
  <2> QED BY <2>1, <2>2 DEF Regular
<1>3. Life!HandOut(Won(a))
  BY <1>2 DEF PollClaim, Life!HandOut, Life!Become, history
<1> QED BY <1>1, <1>3 DEF Life!Next

\* What an agent prints it holds, and was not printed before.
LEMMA OwnedMayPrint ==
    ASSUME InductiveInvariant, NEW a \in Agents, NEW d \in Deliveries,
           at[a] = "printing", d \in batch[a]
    PROVE  Life!MayPrint(d)
<1>1. Owns(a, d)
  BY DEF Owns
<1>2. d \notin excused => Regular(d)
  BY DEF InductiveInvariant, RegularUnlessExcused
<1> QED BY <1>1, <1>2 DEF Regular, Life!MayPrint

LEMMA TickPrints ==
    ASSUME InductiveInvariant, NEW a \in Agents, NEW d \in Deliveries,
           PrintOk(a, d) \/ PrintFails(a, d)
    PROVE  Life!Next
<1>1. Life!MayPrint(d)
  BY OwnedMayPrint DEF PrintOk, PrintFails, First
<1>2. CASE PrintOk(a, d)
  <2>1. Life!ComeOut(d)
    BY <1>1, <1>2 DEF PrintOk, rows, Life!ComeOut
  <2> QED BY <2>1 DEF Life!Next
<1>3. CASE PrintFails(a, d)
  <2>1. Life!Misprint(d)
    BY <1>1, <1>3 DEF PrintFails, rows, Life!Misprint
  <2> QED BY <2>1 DEF Life!Next
<1> QED BY <1>2, <1>3

\* A good acknowledgement settles a ticket that was printed, a bad one puts back
\* or gives up a ticket that has an excuse.
LEMMA AckSettles ==
    ASSUME InductiveInvariant, NEW k \in acks, AckWrite(k)
    PROVE  Life!Next \/ UNCHANGED Life!vars
<1> DEFINE d == k.row
<1>1. d \in Deliveries /\ k.ok \in BOOLEAN /\ TypeOK
  BY DEF InductiveInvariant, TypeOK, Acks
<1>2. d \notin excused => Regular(d)
  BY <1>1 DEF InductiveInvariant, RegularUnlessExcused
<1>3. UNCHANGED <<printed, excused>>
  BY DEF AckWrite, history
<1>4. CASE k.ok
  <2>1. status' = [status EXCEPT ![d] = "sent"] /\ Life!Become({d}, "sent")
    BY <1>1, <1>4, BecomeRow DEF AckWrite
  <2>2. printed[d] > 0
    BY <1>4 DEF InductiveInvariant, OkAcksWerePrinted
  <2>3. status[d] \in {"claimed", "sent"} \/ d \in excused
    BY <1>1, <1>2, <2>2 DEF Regular, TypeOK
  <2>4. CASE status[d] = "claimed" \/ d \in excused
    BY <1>1, <1>3, <2>1, <2>2, <2>4 DEF Life!Settle, Life!Next
  <2>5. CASE status[d] = "sent"
    BY <1>1, <1>3, <2>1, <2>5 DEF Life!vars, TypeOK
  <2> QED BY <2>3, <2>4, <2>5
<1>5. CASE ~k.ok
  <2>1. d \in excused
    BY <1>2, <1>5 DEF Regular
  <2>2. PICK to \in {"failed", "pending"} : status' = [status EXCEPT ![d] = to]
    BY <1>5 DEF AckWrite
  <2>3. Life!TakeBack({d}, to)
    BY <1>1, <1>3, <2>1, <2>2, BecomeRow DEF Life!TakeBack
  <2> QED BY <1>1, <2>2, <2>3 DEF Life!Next
<1> QED BY <1>4, <1>5

\* The sweep takes back expired claims, and gives up what was handed out often
\* enough; both have an excuse.
LEMMA SweepTakesBack ==
    ASSUME InductiveInvariant, NEW s \in Sweepers, Sweep(s)
    PROVE  Life!Next \/ UNCHANGED Life!vars
<1>1. \A d \in Deliveries : d \notin excused => Regular(d)
  BY DEF InductiveInvariant, RegularUnlessExcused
<1>2. UNCHANGED <<printed, excused>>
  BY DEF Sweep, SweepStale, SweepNull, SweepExhausted, history
<1>3. ASSUME NEW age \in {"stale", "null"}, Release(age)
      PROVE  Life!Next
  <2> DEFINE dead == {d \in Deliveries : status[d] = "claimed" /\ claimedAt[d] = age}
  <2>1. dead \subseteq excused
    BY <1>1 DEF Regular
  <2>2. Life!Become(dead, "pending")
    BY <1>3 DEF Release, Life!Become
  <2>3. Life!TakeBack(dead, "pending")
    BY <1>2, <2>1, <2>2 DEF Life!TakeBack
  <2> QED BY <2>3 DEF Life!Next
<1>4. CASE SweepExhausted(s)
  <2> DEFINE spent == {d \in Deliveries : status[d] = "pending" /\ attempts[d] >= MAX_ATTEMPTS}
  <2>1. spent \subseteq excused
    BY <1>1 DEF Regular
  <2>2. Life!Become(spent, "failed")
    BY <1>4 DEF SweepExhausted, Life!Become
  <2>3. Life!TakeBack(spent, "failed")
    BY <1>2, <2>1, <2>2 DEF Life!TakeBack
  <2> QED BY <2>3 DEF Life!Next
<1> QED BY <1>3, <1>4 DEF Sweep, SweepStale, SweepNull

\* Every step of BridgeOutbox is a step of TicketLife, or none of its business.
LEMMA StepsOfLife ==
    ASSUME InductiveInvariant, [Next]_vars
    PROVE  Life!Next \/ UNCHANGED Life!vars
<1>1. ASSUME NEW d \in Deliveries, Create(d) \/ ClaimExpires(d) \/ AdminRetry(d)
      PROVE  Life!Next
  <2>1. TypeOK
    BY DEF InductiveInvariant
  <2>2. CASE Create(d)
    <3>1. Life!Enqueue(d)
      BY <2>1, <2>2, BecomeRow DEF Create, history, Life!Enqueue
    <3> QED BY <3>1 DEF Life!Next
  <2>3. CASE ClaimExpires(d)
    <3>1. Life!Expire(d)
      BY <2>3 DEF ClaimExpires, Life!Expire
    <3> QED BY <3>1 DEF Life!Next
  <2>4. CASE AdminRetry(d)
    <3>1. Life!Again(d)
      BY <2>1, <2>4, BecomeRow DEF AdminRetry, Life!Again
    <3> QED BY <3>1 DEF Life!Next
  <2> QED BY <1>1, <2>2, <2>3, <2>4
<1>2. ASSUME NEW a \in Agents, Poll(a) \/ AnswerLost(a) \/ Tick(a) \/ Crash(a)
      PROVE  Life!Next \/ UNCHANGED Life!vars
  <2>1. CASE PollClaim(a)
    BY <2>1, ClaimHandsOut
  <2>2. CASE \E d \in Deliveries : PrintOk(a, d) \/ PrintFails(a, d)
    BY <2>2, TickPrints
  <2>3. CASE PollRead(a) \/ PollLoses(a) \/ PollAnswer(a) \/ AnswerLost(a) \/ NextTicket(a) \/ Crash(a)
    BY <2>3 DEF PollRead, PollLoses, PollAnswer, AnswerLost, NextTicket, Crash, rows, history, Life!vars
  <2> QED BY <1>2, <2>1, <2>2, <2>3 DEF Poll, Tick
<1>3. ASSUME NEW k \in acks, Settle(k) \/ AckLost(k)
      PROVE  Life!Next \/ UNCHANGED Life!vars
  <2>1. CASE AckWrite(k)
    BY <2>1, AckSettles
  <2>2. CASE AckRead(k) \/ AckLost(k)
    BY <2>2 DEF AckRead, AckLost, rows, history, Life!vars
  <2> QED BY <1>3, <2>1, <2>2 DEF Settle
<1>4. CASE UNCHANGED vars
  BY <1>4 DEF vars, Life!vars
<1> QED BY <1>1, <1>2, <1>3, <1>4, SweepTakesBack DEF Next

\* Polls, claims, prints, acks and sweeps implement the promise of TicketLife: a
\* ticket without an excuse is printed once, while it is held, and once sent it
\* stays sent; no ticket is called sent that no printer has taken.
THEOREM ImplementsTicketLife == Spec => KeepsTicketLife
<1>1. Init => Life!Init
  BY DEF Init, Life!Init
<1>2. InductiveInvariant /\ [Next]_vars => [Life!Next]_(Life!vars)
  BY StepsOfLife
<1> QED BY <1>1, <1>2, Invariance, PTL DEF Spec, Life!Spec, KeepsTicketLife

\* A ticket leaves "sent" only with an excuse, since no step of TicketLife takes it
\* from there without one.
LEMMA NoLifeAfterSent ==
    ASSUME TypeOK, Life!Next \/ UNCHANGED Life!vars,
           NEW d \in Deliveries, status[d] = "sent", d \notin excused'
    PROVE  status'[d] = "sent"
<1>1. excused \subseteq excused'
  BY DEF Life!Next, Life!vars, Life!Enqueue, Life!ComeOut, Life!Misprint, Life!Expire,
         Life!Settle, Life!Again, Life!HandOut, Life!TakeBack
<1>2. ASSUME NEW t \in Deliveries,
             Life!Enqueue(t) \/ Life!ComeOut(t) \/ Life!Misprint(t) \/ Life!Expire(t)
             \/ Life!Settle(t) \/ Life!Again(t)
      PROVE  status'[d] = "sent"
  BY <1>1, <1>2 DEF Life!Enqueue, Life!ComeOut, Life!Misprint, Life!Expire, Life!Settle,
                    Life!Again, Life!Become
<1>3. ASSUME NEW S \in SUBSET Deliveries,
             Life!HandOut(S) \/ Life!TakeBack(S, "pending") \/ Life!TakeBack(S, "failed")
      PROVE  status'[d] = "sent"
  <2>1. d \notin S
    BY <1>1, <1>3 DEF Life!HandOut, Life!TakeBack
  <2> QED BY <1>3, <2>1 DEF Life!HandOut, Life!TakeBack, Life!Become
<1>4. CASE UNCHANGED Life!vars
  BY <1>4 DEF Life!vars
<1> QED BY <1>2, <1>3, <1>4 DEF Life!Next

\* What the kitchen has taken is not served again without an excuse.
THEOREM SentStaysHolds == Spec => SentStays
<1>1. InductiveInvariant /\ [Next]_vars =>
        [\A d \in Deliveries : status[d] = "sent" => status'[d] = "sent" \/ d \in excused']_vars
  BY StepsOfLife, NoLifeAfterSent DEF InductiveInvariant
<1> QED BY <1>1, Invariance, PTL DEF Spec, SentStays
=============================================================================
