---------------------------- MODULE BridgeOutbox ----------------------------
(***************************************************************************)
(* The outbox of kitchen tickets and the bridge agents that print them:    *)
(* the rows of PosDelivery whose adapter is escpos_bridge                  *)
(* (lib/pos/outbox.ts), the two routes an agent calls                      *)
(* (app/api/bridge/pending and .../ack), the agent itself                  *)
(* (bridge/agent.mjs), the sweep and the admin's "print again".            *)
(*                                                                         *)
(* An agent asks for pending rows, prints what it is handed one ticket at  *)
(* a time and acknowledges each.  The answer to a poll, and an             *)
(* acknowledgement, may be lost; an acknowledgement may arrive after the   *)
(* agent has given up on it; an agent may crash with a batch in hand.      *)
(* Time is one bit a row: whether its claim is older than                  *)
(* CLAIM_TIMEOUT_MS.                                                       *)
(***************************************************************************)
EXTENDS Integers, FiniteSets

CONSTANTS
    N,             \* tickets enqueued, numbered in the order of createdAt
    Agents,        \* bridge agents holding the venue's key
    Sweepers,      \* runs of the sweep that may overlap: the timer's, the cron route's
    MAX_ATTEMPTS,  \* 5 in the code
    BATCH,         \* 10 in the code
    MaxRetries     \* bound on how often the admin prints again

ASSUME CountsAssumption ==
    /\ N \in Nat
    /\ MAX_ATTEMPTS \in Nat \ {0}
    /\ BATCH \in Nat \ {0}
    /\ MaxRetries \in Nat

VARIABLES
    status,     \* PosDelivery.status, "none" before the row is created
    attempts,   \* PosDelivery.attempts
    claimId,    \* PosDelivery.claimId, NoClaim for null
    claimedAt,  \* PosDelivery.claimedAt: "null", or how old the claim is
    at,         \* where each agent stands in a tick
    batch,      \* rows picked for an agent's poll; once handed over, those it has yet to print
    claim,      \* the claimId of an agent's poll
    acks,       \* acknowledgements sent and neither settled nor lost
    sweep,      \* the next statement of each sweep
    lastClaim,  \* how many claimIds have been drawn
    retries,    \* how often the admin has printed again
    printed,    \* history: how often a printer took each ticket (without
                \* PRINTER_ACK that is all the agent knows of paper)
    excused     \* history: tickets whose claim expired, whose print was
                \* reported failed, or that the admin asked for again

rows == <<status, attempts, claimId, claimedAt>>
agents == <<at, batch, claim>>
history == <<printed, excused>>
vars == <<status, attempts, claimId, claimedAt, at, batch, claim, acks, sweep,
          lastClaim, retries, printed, excused>>

-----------------------------------------------------------------------------
Deliveries == 1..N

NoClaim == 0

\* Mutant: without the bound on attempts.
ClaimableForever(d) ==
    \/ status[d] = "pending"
    \/ status[d] = "claimed" /\ claimedAt[d] \in {"stale", "null"}

\* Pull rows the agents may be handed: waiting, or held by a claim presumed dead.
Claimable(d) ==
    /\ attempts[d] < MAX_ATTEMPTS
    /\ \/ status[d] = "pending"
       \/ status[d] = "claimed" /\ claimedAt[d] \in {"stale", "null"}

\* orderBy createdAt, take BATCH.
Candidates ==
    LET waiting == {d \in Deliveries : Claimable(d)}
    IN  {d \in waiting : Cardinality({e \in waiting : e < d}) < BATCH}

\* A batch is printed in the order it was served.
First(S, d) == d \in S /\ \A e \in S : d <= e

Acks == [agent : Agents, row : Deliveries, claim : Nat, ok : BOOLEAN,
         stage : {"sent", "read"}, attempts : Nat]

Init ==
    /\ status = [d \in Deliveries |-> "none"]
    /\ attempts = [d \in Deliveries |-> 0]
    /\ claimId = [d \in Deliveries |-> NoClaim]
    /\ claimedAt = [d \in Deliveries |-> "null"]
    /\ at = [a \in Agents |-> "idle"]
    /\ batch = [a \in Agents |-> {}]
    /\ claim = [a \in Agents |-> NoClaim]
    /\ acks = {}
    /\ sweep = [s \in Sweepers |-> "release"]
    /\ lastClaim = 0
    /\ retries = 0
    /\ printed = [d \in Deliveries |-> 0]
    /\ excused = {}

-----------------------------------------------------------------------------
(* enqueuePosDelivery: the row starts pending, and the attempt that follows *)
(* leaves a pull row as it is.                                              *)

Create(d) ==
    /\ status[d] = "none"
    /\ \A e \in Deliveries : e < d => status[e] # "none"
    /\ status' = [status EXCEPT ![d] = "pending"]
    /\ UNCHANGED <<attempts, claimId, claimedAt, agents, acks, sweep, lastClaim, retries, history>>

-----------------------------------------------------------------------------
(* GET /api/bridge/pending, three statements *)

PollRead(a) ==
    /\ at[a] = "idle"
    /\ Candidates # {}
    /\ at' = [at EXCEPT ![a] = "polled"]
    /\ batch' = [batch EXCEPT ![a] = Candidates]
    /\ UNCHANGED <<rows, claim, acks, sweep, lastClaim, retries, history>>

\* Mutant: the update does not test the rows again.
WonUnchecked(a) == batch[a]

\* The rows of the poll that are still claimable when the update runs.
Won(a) == {d \in batch[a] : Claimable(d)}

PollClaim(a) ==
    /\ at[a] = "polled"
    /\ Won(a) # {}
    /\ status' = [d \in Deliveries |-> IF d \in Won(a) THEN "claimed" ELSE status[d]]
    /\ attempts' = [d \in Deliveries |-> IF d \in Won(a) THEN attempts[d] + 1 ELSE attempts[d]]
    /\ claimId' = [d \in Deliveries |-> IF d \in Won(a) THEN lastClaim + 1 ELSE claimId[d]]
    /\ claimedAt' = [d \in Deliveries |-> IF d \in Won(a) THEN "fresh" ELSE claimedAt[d]]
    /\ lastClaim' = lastClaim + 1
    /\ claim' = [claim EXCEPT ![a] = lastClaim + 1]
    /\ at' = [at EXCEPT ![a] = "claimed"]
    /\ batch' = [batch EXCEPT ![a] = {}]
    /\ UNCHANGED <<acks, sweep, retries, history>>

\* Another agent, or an acknowledgement, got to every row first.
PollLoses(a) ==
    /\ at[a] = "polled"
    /\ Won(a) = {}
    /\ at' = [at EXCEPT ![a] = "idle"]
    /\ batch' = [batch EXCEPT ![a] = {}]
    /\ UNCHANGED <<rows, claim, acks, sweep, lastClaim, retries, history>>

\* The rows that carry the poll's claimId are the answer.
PollAnswer(a) ==
    LET won == {d \in Deliveries : claimId[d] = claim[a]}
    IN  /\ at[a] = "claimed"
        /\ batch' = [batch EXCEPT ![a] = won]
        /\ at' = [at EXCEPT ![a] = IF won = {} THEN "idle" ELSE "printing"]
        /\ UNCHANGED <<rows, claim, acks, sweep, lastClaim, retries, history>>

AnswerLost(a) ==
    /\ at[a] = "claimed"
    /\ at' = [at EXCEPT ![a] = "idle"]
    /\ UNCHANGED <<rows, batch, claim, acks, sweep, lastClaim, retries, history>>

-----------------------------------------------------------------------------
(* bridge/agent.mjs, tickOnce *)

\* Mutant: the agent acknowledges a print that failed as if it had not.
AckOfAlwaysOk(a, d, ok) ==
    [agent |-> a, row |-> d, claim |-> claim[a], ok |-> TRUE, stage |-> "sent", attempts |-> 0]

AckOf(a, d, ok) ==
    [agent |-> a, row |-> d, claim |-> claim[a], ok |-> ok, stage |-> "sent", attempts |-> 0]

PrintOk(a, d) ==
    /\ at[a] = "printing"
    /\ First(batch[a], d)
    /\ printed' = [printed EXCEPT ![d] = printed[d] + 1]
    /\ acks' = acks \cup {AckOf(a, d, TRUE)}
    /\ batch' = [batch EXCEPT ![a] = batch[a] \ {d}]
    /\ at' = [at EXCEPT ![a] = "acking"]
    /\ UNCHANGED <<rows, claim, sweep, lastClaim, retries, excused>>

\* printRaw rejects: a refused connection, or a timeout after the bytes went out.
PrintFails(a, d) ==
    /\ at[a] = "printing"
    /\ First(batch[a], d)
    /\ \E cameOut \in {0, 1} : printed' = [printed EXCEPT ![d] = printed[d] + cameOut]
    /\ acks' = acks \cup {AckOf(a, d, FALSE)}
    /\ batch' = [batch EXCEPT ![a] = batch[a] \ {d}]
    /\ at' = [at EXCEPT ![a] = "acking"]
    /\ excused' = excused \cup {d}
    /\ UNCHANGED <<rows, claim, sweep, lastClaim, retries>>

\* The ack call returned, or failed and was only logged: on to the next ticket.
NextTicket(a) ==
    /\ at[a] = "acking"
    /\ at' = [at EXCEPT ![a] = IF batch[a] = {} THEN "idle" ELSE "printing"]
    /\ UNCHANGED <<rows, batch, claim, acks, sweep, lastClaim, retries, history>>

Crash(a) ==
    /\ at[a] \in {"printing", "acking"}
    /\ at' = [at EXCEPT ![a] = "idle"]
    /\ batch' = [batch EXCEPT ![a] = {}]
    /\ UNCHANGED <<rows, claim, acks, sweep, lastClaim, retries, history>>

-----------------------------------------------------------------------------
(* POST /api/bridge/ack: the row is read, and settled if it was claimed.   *)

\* The handler of acknowledgement k, with the row it read in hand.
Seen(k) == [agent |-> k.agent, row |-> k.row, claim |-> k.claim, ok |-> k.ok,
            stage |-> "read", attempts |-> attempts[k.row]]

AckRead(k) ==
    /\ k.stage = "sent"
    /\ acks' = IF status[k.row] = "claimed"
               THEN (acks \ {k}) \cup {Seen(k)}
               ELSE acks \ {k}
    /\ UNCHANGED <<rows, agents, sweep, lastClaim, retries, history>>

AckWriteGivesUp(k) ==
    /\ k.stage = "read"
    /\ status' = [status EXCEPT ![k.row] = IF k.ok THEN "sent" ELSE "failed"]
    /\ claimId' = [claimId EXCEPT ![k.row] = NoClaim]
    /\ claimedAt' = [claimedAt EXCEPT ![k.row] = "null"]
    /\ acks' = acks \ {k}
    /\ UNCHANGED <<attempts, agents, sweep, lastClaim, retries, history>>

AckWrite(k) ==
    /\ k.stage = "read"
    /\ status' = [status EXCEPT ![k.row] =
                    IF k.ok THEN "sent"
                    ELSE IF k.attempts >= MAX_ATTEMPTS THEN "failed" ELSE "pending"]
    /\ claimId' = [claimId EXCEPT ![k.row] = NoClaim]
    /\ claimedAt' = [claimedAt EXCEPT ![k.row] = "null"]
    /\ acks' = acks \ {k}
    /\ UNCHANGED <<attempts, agents, sweep, lastClaim, retries, history>>

AckLost(k) ==
    /\ acks' = acks \ {k}
    /\ UNCHANGED <<rows, agents, sweep, lastClaim, retries, history>>

-----------------------------------------------------------------------------
(* Time, the sweep and the admin *)

ClaimExpires(d) ==
    /\ status[d] = "claimed"
    /\ claimedAt[d] = "fresh"
    /\ claimedAt' = [claimedAt EXCEPT ![d] = "stale"]
    /\ excused' = excused \cup {d}
    /\ UNCHANGED <<status, attempts, claimId, agents, acks, sweep, lastClaim, retries, printed>>

\* Claims whose claimedAt is `age` go back to pending, without their claimId.
Release(age) ==
    LET dead == {d \in Deliveries : status[d] = "claimed" /\ claimedAt[d] = age}
    IN  /\ status' = [d \in Deliveries |-> IF d \in dead THEN "pending" ELSE status[d]]
        /\ claimId' = [d \in Deliveries |-> IF d \in dead THEN NoClaim ELSE claimId[d]]
        /\ claimedAt' = [d \in Deliveries |-> IF d \in dead THEN "null" ELSE claimedAt[d]]
        /\ UNCHANGED attempts

SweepStale(s) ==
    /\ sweep[s] = "release"
    /\ Release("stale")
    /\ sweep' = [sweep EXCEPT ![s] = "release_null"]
    /\ UNCHANGED <<agents, acks, lastClaim, retries, history>>

SweepNull(s) ==
    /\ sweep[s] = "release_null"
    /\ Release("null")
    /\ sweep' = [sweep EXCEPT ![s] = "exhaust"]
    /\ UNCHANGED <<agents, acks, lastClaim, retries, history>>

SweepExhaustedLate(s) ==
    /\ sweep[s] = "exhaust"
    /\ status' = [d \in Deliveries |->
                    IF status[d] = "pending" /\ attempts[d] > MAX_ATTEMPTS
                    THEN "failed" ELSE status[d]]
    /\ sweep' = [sweep EXCEPT ![s] = "release"]
    /\ UNCHANGED <<attempts, claimId, claimedAt, agents, acks, lastClaim, retries, history>>

SweepExhausted(s) ==
    /\ sweep[s] = "exhaust"
    /\ status' = [d \in Deliveries |->
                    IF status[d] = "pending" /\ attempts[d] >= MAX_ATTEMPTS
                    THEN "failed" ELSE status[d]]
    /\ sweep' = [sweep EXCEPT ![s] = "release"]
    /\ UNCHANGED <<attempts, claimId, claimedAt, agents, acks, lastClaim, retries, history>>

Sweep(s) == SweepStale(s) \/ SweepNull(s) \/ SweepExhausted(s)

\* POST /api/admin/pos/[id]/retry, whatever the row's status.
AdminRetry(d) ==
    /\ retries < MaxRetries
    /\ status[d] # "none"
    /\ status' = [status EXCEPT ![d] = "pending"]
    /\ attempts' = [attempts EXCEPT ![d] = 0]
    /\ claimId' = [claimId EXCEPT ![d] = NoClaim]
    /\ claimedAt' = [claimedAt EXCEPT ![d] = "null"]
    /\ retries' = retries + 1
    /\ excused' = excused \cup {d}
    /\ UNCHANGED <<agents, acks, sweep, lastClaim, printed>>

-----------------------------------------------------------------------------
Poll(a) == PollRead(a) \/ PollClaim(a) \/ PollLoses(a) \/ PollAnswer(a)

Tick(a) ==
    \/ \E d \in Deliveries : PrintOk(a, d) \/ PrintFails(a, d)
    \/ NextTicket(a)

Settle(k) == AckRead(k) \/ AckWrite(k)

Next ==
    \/ \E d \in Deliveries : Create(d) \/ ClaimExpires(d) \/ AdminRetry(d)
    \/ \E a \in Agents : Poll(a) \/ AnswerLost(a) \/ Tick(a) \/ Crash(a)
    \/ \E k \in acks : Settle(k) \/ AckLost(k)
    \/ \E s \in Sweepers : Sweep(s)

Spec == Init /\ [][Next]_vars

\* The agents' timer, the server's handlers, the scheduler's timer and the
\* clock go on; no print has to succeed, no message has to arrive, and an
\* agent may crash with every batch.
Fairness ==
    /\ \A d \in Deliveries : WF_vars(Create(d)) /\ WF_vars(ClaimExpires(d))
    /\ \A a \in Agents : WF_vars(Poll(a) \/ AnswerLost(a)) /\ WF_vars(Tick(a) \/ Crash(a))
    /\ WF_vars(\E k \in acks : Settle(k) \/ AckLost(k))
    /\ \A s \in Sweepers : WF_vars(Sweep(s))

FairSpec == Spec /\ Fairness

-----------------------------------------------------------------------------
(* What the code keeps true *)

TypeOK ==
    /\ status \in [Deliveries -> {"none", "pending", "claimed", "sent", "failed"}]
    /\ attempts \in [Deliveries -> Nat]
    /\ claimId \in [Deliveries -> Nat]
    /\ claimedAt \in [Deliveries -> {"null", "fresh", "stale"}]
    /\ at \in [Agents -> {"idle", "polled", "claimed", "printing", "acking"}]
    /\ batch \in [Agents -> SUBSET Deliveries]
    /\ claim \in [Agents -> Nat]
    /\ acks \in SUBSET Acks
    /\ sweep \in [Sweepers -> {"release", "release_null", "exhaust"}]
    /\ lastClaim \in Nat
    /\ retries \in 0..MaxRetries
    /\ printed \in [Deliveries -> Nat]
    /\ excused \in SUBSET Deliveries

\* A row is claimed exactly when it says by whom and since when, so that no
\* claim is out of the reach of the time-out or of the poll's answer.
ClaimIsWhole ==
    \A d \in Deliveries :
        /\ status[d] = "claimed" <=> claimId[d] # NoClaim
        /\ status[d] = "claimed" <=> claimedAt[d] # "null"

\* "a payload that reliably crashes the agent still walks toward MAX_ATTEMPTS":
\* no ticket is handed out more often than that, however polls overlap.
AttemptsBounded == \A d \in Deliveries : attempts[d] <= MAX_ATTEMPTS

\* Two agents polling side by side never both print a ticket: a second copy
\* takes an expired claim, a print reported failed, or the admin's request.
PrintedOnceUnlessExcused ==
    \A d \in Deliveries : printed[d] > 1 => d \in excused

\* "sent" is never shown for a ticket that no printer has taken.
SentWasPrinted == \A d \in Deliveries : status[d] = "sent" => printed[d] > 0

\* The sweep and the ack give a ticket up only after MAX_ATTEMPTS.  An admin who
\* prints again while an ack is in flight is the one exception: the ack's write
\* then fails a ticket whose count has just been set back to zero.
FailedOnlyWhenExhausted ==
    retries = 0 => \A d \in Deliveries : status[d] = "failed" => attempts[d] >= MAX_ATTEMPTS

\* Every ticket ends up sent or failed, and stays there, even if every agent
\* crashes with every batch.
EveryTicketSettles ==
    \A d \in Deliveries : <>[](status[d] \in {"sent", "failed"})

-----------------------------------------------------------------------------
(* Why it is true *)

\* A claimId is drawn once, by one poll.
ClaimsDrawn ==
    /\ \A d \in Deliveries : claimId[d] <= lastClaim
    /\ \A a \in Agents : claim[a] <= lastClaim
    /\ \A a \in Agents : at[a] = "claimed" => claim[a] # NoClaim
    /\ \A a, b \in Agents : claim[a] = claim[b] /\ claim[a] # NoClaim => a = b

\* Agent a has ticket d, or the answer that will give it to a is on its way.
Owns(a, d) ==
    \/ at[a] = "claimed" /\ claimId[d] = claim[a]
    \/ at[a] \in {"printing", "acking"} /\ d \in batch[a]

\* What is known of a ticket with which nothing has gone wrong.
Regular(d) ==
    /\ status[d] # "failed"
    /\ status[d] \in {"none", "pending"} => printed[d] = 0 /\ attempts[d] = 0
    /\ status[d] = "claimed" => claimedAt[d] = "fresh"
    /\ printed[d] <= 1
    /\ \A a \in Agents : Owns(a, d) => status[d] = "claimed" /\ printed[d] = 0
    /\ \A a, b \in Agents : Owns(a, d) /\ Owns(b, d) => a = b
    /\ \A k \in acks : k.row = d => k.ok /\ printed[d] = 1

RegularUnlessExcused == \A d \in Deliveries : d \notin excused => Regular(d)

OkAcksWerePrinted == \A k \in acks : k.ok => printed[k.row] > 0

\* Until the admin prints again, the count an acknowledgement's handler read is
\* not above the row's.
CountsRead == retries = 0 => \A k \in acks : k.stage = "read" => k.attempts <= attempts[k.row]

\* Inductive: it implies the invariants above and every step keeps it.
InductiveInvariant ==
    /\ TypeOK
    /\ ClaimIsWhole
    /\ AttemptsBounded
    /\ ClaimsDrawn
    /\ RegularUnlessExcused
    /\ OkAcksWerePrinted
    /\ SentWasPrinted
    /\ CountsRead
    /\ FailedOnlyWhenExhausted

-----------------------------------------------------------------------------
(* What a ticket's life looks like from outside: TicketLife *)

Life == INSTANCE TicketLife WITH Tickets <- Deliveries, state <- status, copies <- printed

\* Polls, prints, acks and sweeps, however they overlap, move a ticket only as
\* TicketLife allows: without an excuse straight to its one print and to "sent",
\* where it stays.
KeepsTicketLife == Life!Spec

\* A ticket shown as sent is not served again unless the admin asks for it, or its
\* claim had expired or its print had been reported failed.
SentStays ==
    [][\A d \in Deliveries : status[d] = "sent" =>
           status'[d] = "sent" \/ d \in excused']_vars

-----------------------------------------------------------------------------
(* What the repository says, and the code does not keep true: checked as an *)
(* invariant, each of these has a counterexample.                          *)

\* ack/route.ts, of a late ack whose row was re-served to another agent: "Only
\* a row still sitting in the claim we handed out is settled here."  An ack
\* that is about to settle its row does not hold another claim's row.
AckSettlesOwnClaim ==
    \A k \in acks : k.stage = "read" => claimId[k.row] \in {k.claim, NoClaim}

=============================================================================
