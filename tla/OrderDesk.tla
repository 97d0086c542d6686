----------------------------- MODULE OrderDesk -----------------------------
(***************************************************************************)
(* The life of one placed order between the phone that placed it, the desk *)
(* and the kitchen's paper.                                                *)
(*                                                                         *)
(*   - the desk moves the order along (app/api/desk/orders/[id]/route.ts); *)
(*   - the desk corrects its lines (lib/orderEdit.ts, .../items/route.ts); *)
(*   - the phone withdraws it (app/api/orders/[id]/cancel/route.ts);       *)
(*   - a background job, started by an accept or by an edit of an order    *)
(*     that already has a ticket, stores a ticket in the outbox            *)
(*     (lib/pos/outbox.ts, enqueuePosDelivery).                            *)
(*                                                                         *)
(* Each handler reads the order in one database statement and writes it in *)
(* a later one, so a handler is two actions here and any other handler may *)
(* run between them.  An interactive transaction is one action: the rows   *)
(* it tests are the rows it has locked, until it commits.                  *)
(***************************************************************************)
EXTENDS Integers, Sequences

CONSTANTS
    Lines,       \* the lines the order was placed with
    Placed,      \* Placed[l]: the quantity line l was placed with
    Dish,        \* Dish[l]: OrderItem.nameSnapshot of line l; lines may share it
    Requests,    \* slots for desk requests in flight at the same time
    Phones,      \* taps of "withdraw" by the session that placed the order
    MaxQty,      \* orderEditSchema: the largest quantity of an entry (20)
    MaxEntries   \* orderEditSchema: the largest number of entries (30)

ASSUME BoundsAssumption == MaxQty \in Nat \ {0} /\ MaxEntries \in Nat \ {0}
ASSUME PlacedAssumption == Placed \in [Lines -> 1..MaxQty]

VARIABLES
    status,      \* Order.status
    qty,         \* OrderItem.qty, by line
    voided,      \* the lines whose OrderItem.voidedAt is set
    totalFor,    \* the quantities Order.totalKurus was summed over, by line
    edits,       \* the OrderEdit rows, oldest first
    req,         \* what each desk request holds between its read and its write
    phone,       \* where each "withdraw" request of the phone stands
    tickets      \* the background jobs started, and the ticket each one renders

vars == <<status, qty, voided, totalFor, edits, req, phone, tickets>>

-----------------------------------------------------------------------------
(* Data *)

Statuses == {"received", "accepted", "preparing", "ready", "served",
             "rejected", "cancelled"}

\* Orders still moving through the kitchen; these are the editable ones.
InFlight == {"received", "accepted", "preparing", "ready"}

CustomerCancellable == "received"

Transitions(s) ==
    CASE s = "received"  -> {"accepted", "rejected"}
      [] s = "accepted"  -> {"preparing", "ready", "rejected"}
      [] s = "preparing" -> {"ready", "rejected"}
      [] s = "ready"     -> {"served"}
      [] OTHER           -> {}

Quantities == [Lines -> 0..MaxQty]

\* One line of an edit on its way to the database, and as the row keeps it:
\* by the name of the dish, not by the line.
Changes == [line : Lines, from : 0..MaxQty, to : 0..MaxQty]
LineChange == [name : {Dish[l] : l \in Lines}, from : 0..MaxQty, to : 0..MaxQty]

\* Something for each entry of a body, or for some of them.
PerEntry(S) == UNION {[D -> S] : D \in SUBSET (1..MaxEntries)}

Idle == [op |-> "idle"]

MoveRequest == [op : {"move"}, to : Statuses]

EditRequest ==
    [op         : {"edit"},
     changes    : PerEntry(Changes),
     totalFor   : Quantities,
     afterPrint : BOOLEAN]

Tickets == [amends : BOOLEAN,
            stage  : {"queued", "rendered", "stored", "lost"},
            lines  : Quantities]

\* The body of an edit: entries that name a line and its new quantity.
EditInputs == UNION {[1..n -> [line : Lines, qty : 0..MaxQty]] : n \in 1..MaxEntries}

\* Mutant: every edit is taken to be after print.
HasDeliveryAlways == TRUE

\* The outbox holds a ticket of this order.
HasDelivery == \E i \in DOMAIN tickets : tickets[i].stage = "stored"

\* A job is started for every accept, so an unmarked ticket means one happened.
Accepted == \E i \in DOMAIN tickets : ~tickets[i].amends

\* Ticket t moved to another stage.
At(t, stage) == [amends |-> t.amends, stage |-> stage, lines |-> t.lines]

Started(amends) == [amends |-> amends, stage |-> "queued", lines |-> [l \in Lines |-> 0]]

-----------------------------------------------------------------------------
Init ==
    /\ status = "received"
    /\ qty = Placed
    /\ voided = {}
    /\ totalFor = Placed
    /\ edits = <<>>
    /\ req = [r \in Requests |-> Idle]
    /\ phone = [p \in Phones |-> "idle"]
    /\ tickets = <<>>

-----------------------------------------------------------------------------
(* PATCH /api/desk/orders/[id]: the transition is checked against the row  *)
(* that was read; the write that follows carries no condition.             *)

MoveRead(r) ==
    /\ req[r] = Idle
    /\ \E to \in Transitions(status) :
          req' = [req EXCEPT ![r] = [op |-> "move", to |-> to]]
    /\ UNCHANGED <<status, qty, voided, totalFor, edits, phone, tickets>>

\* Mutant: the accept forgets to start the ticket job.
MoveWriteWithoutTicket(r) ==
    /\ req[r].op = "move"
    /\ status' = req[r].to
    /\ req' = [req EXCEPT ![r] = Idle]
    /\ UNCHANGED <<qty, voided, totalFor, edits, phone, tickets>>

MoveWrite(r) ==
    /\ req[r].op = "move"
    /\ status' = req[r].to
    /\ tickets' = IF req[r].to = "accepted"
                  THEN Append(tickets, Started(FALSE))
                  ELSE tickets
    /\ req' = [req EXCEPT ![r] = Idle]
    /\ UNCHANGED <<qty, voided, totalFor, edits, phone>>

-----------------------------------------------------------------------------
(* editOrder *)

\* Mutant: the total is summed over the lines of the edit only.
AskedOfEdited(input, l) ==
    LET of == {i \in DOMAIN input : input[i].line = l}
    IN  IF of = {} THEN 0
        ELSE input[CHOOSE i \in of : \A j \in of : i <= j].qty

\* Array.find: the first entry of the line decides what the line is billed
\* at; without an entry it keeps its quantity.
Asked(input, l) ==
    LET of == {i \in DOMAIN input : input[i].line = l}
    IN  IF of = {} THEN qty[l]
        ELSE input[CHOOSE i \in of : \A j \in of : i <= j].qty

Changing(input) == {i \in DOMAIN input : input[i].qty # qty[input[i].line]}

Edit(input) ==
    [op         |-> "edit",
     changes    |-> [i \in Changing(input) |-> [line |-> input[i].line,
                                                from |-> qty[input[i].line],
                                                to   |-> input[i].qty]],
     totalFor   |-> [l \in Lines |-> Asked(input, l)],
     afterPrint |-> HasDelivery]

EditRead(r, input) ==
    /\ req[r] = Idle
    /\ status \in InFlight
    /\ \A i \in DOMAIN input : /\ input[i].line \notin voided
                               /\ input[i].qty <= qty[input[i].line]
    /\ Changing(input) # {}
    /\ \E l \in Lines \ voided : Asked(input, l) > 0
    /\ req' = [req EXCEPT ![r] = Edit(input)]
    /\ UNCHANGED <<status, qty, voided, totalFor, edits, phone, tickets>>

\* The entries of edit e that change line l.
EntriesOf(e, l) == {i \in DOMAIN e.changes : e.changes[i].line = l}

\* No two of its updates are of the same line: the second would not find the
\* quantity it was computed from.
OncePerLine(e) ==
    \A i, j \in DOMAIN e.changes : e.changes[i].line = e.changes[j].line => i = j

\* The line change c was computed from is still as it was.
Unmoved(c) == qty[c.line] = c.from /\ c.line \notin voided

\* Mutants: the updates of the lines, or of the order, without their conditions.
NoConflictOnStatusOnly(e) == OncePerLine(e) /\ status \in InFlight
NoConflictOnLinesOnly(e) ==
    OncePerLine(e) /\ \A i \in DOMAIN e.changes : Unmoved(e.changes[i])

\* Every update of the transaction finds the row it was computed from.
NoConflict(e) ==
    /\ OncePerLine(e)
    /\ \A i \in DOMAIN e.changes : Unmoved(e.changes[i])
    /\ status \in InFlight

QtyAfter(e, l) ==
    IF EntriesOf(e, l) = {}
    THEN qty[l]
    ELSE e.changes[CHOOSE i \in EntriesOf(e, l) : TRUE].to

\* changesJson: the changes by name.
Named(changes) ==
    [i \in DOMAIN changes |->
        [name |-> Dish[changes[i].line], from |-> changes[i].from, to |-> changes[i].to]]

EditCommit(r) ==
    /\ req[r].op = "edit"
    /\ NoConflict(req[r])
    /\ qty' = [l \in Lines |-> QtyAfter(req[r], l)]
    /\ voided' = voided \cup {l \in Lines : \E i \in EntriesOf(req[r], l) :
                                              req[r].changes[i].to = 0}
    /\ totalFor' = req[r].totalFor
    /\ edits' = Append(edits, [changes    |-> Named(req[r].changes),
                               afterPrint |-> req[r].afterPrint])
    /\ tickets' = IF req[r].afterPrint THEN Append(tickets, Started(TRUE)) ELSE tickets
    /\ req' = [req EXCEPT ![r] = Idle]
    /\ UNCHANGED <<status, phone>>

\* EditConflict: the transaction is rolled back and the desk told so.
EditConflict(r) ==
    /\ req[r].op = "edit"
    /\ ~NoConflict(req[r])
    /\ req' = [req EXCEPT ![r] = Idle]
    /\ UNCHANGED <<status, qty, voided, totalFor, edits, phone, tickets>>

-----------------------------------------------------------------------------
(* POST /api/orders/[id]/cancel *)

CancelRead(p) ==
    /\ phone[p] = "idle"
    /\ status = CustomerCancellable
    /\ phone' = [phone EXCEPT ![p] = "checked"]
    /\ UNCHANGED <<status, qty, voided, totalFor, edits, req, tickets>>

\* Mutant: an update without a condition, as the desk's is.
CancelWriteUnchecked(p) ==
    /\ phone[p] = "checked"
    /\ status' = "cancelled"
    /\ phone' = [phone EXCEPT ![p] = "withdrawn"]
    /\ UNCHANGED <<qty, voided, totalFor, edits, req, tickets>>

\* updateMany where status is still the cancellable one; the phone is told
\* "ok" when it changed the row and "already_accepted" when it did not.
CancelWrite(p) ==
    /\ phone[p] = "checked"
    /\ \/ /\ status = CustomerCancellable
          /\ status' = "cancelled"
          /\ phone' = [phone EXCEPT ![p] = "withdrawn"]
       \/ /\ status # CustomerCancellable
          /\ phone' = [phone EXCEPT ![p] = "refused"]
          /\ UNCHANGED status
    /\ UNCHANGED <<qty, voided, totalFor, edits, req, tickets>>

-----------------------------------------------------------------------------
(* enqueuePosDelivery, running in the background of the response *)

\* The order is read with its live lines and the ticket rendered from them.
Render(i) ==
    /\ tickets[i].stage = "queued"
    /\ tickets' = [tickets EXCEPT ![i] =
                     [amends |-> tickets[i].amends, stage |-> "rendered", lines |-> qty]]
    /\ UNCHANGED <<status, qty, voided, totalFor, edits, req, phone>>

\* db.posDelivery.create.
Store(i) ==
    /\ tickets[i].stage = "rendered"
    /\ tickets' = [tickets EXCEPT ![i] = At(tickets[i], "stored")]
    /\ UNCHANGED <<status, qty, voided, totalFor, edits, req, phone>>

\* Either statement fails: the catch block logs the error and nothing else.
EnqueueFails(i) ==
    /\ tickets[i].stage \in {"queued", "rendered"}
    /\ tickets' = [tickets EXCEPT ![i] = At(tickets[i], "lost")]
    /\ UNCHANGED <<status, qty, voided, totalFor, edits, req, phone>>

\* The server process restarts: what was between two statements is gone.
Restart ==
    /\ req' = [r \in Requests |-> Idle]
    /\ phone' = [p \in Phones |-> IF phone[p] = "checked" THEN "idle" ELSE phone[p]]
    /\ tickets' = [i \in DOMAIN tickets |->
                     IF tickets[i].stage \in {"queued", "rendered"}
                     THEN At(tickets[i], "lost")
                     ELSE tickets[i]]
    /\ UNCHANGED <<status, qty, voided, totalFor, edits>>

-----------------------------------------------------------------------------
Desk(r) ==
    \/ MoveRead(r)
    \/ MoveWrite(r)
    \/ \E input \in EditInputs : EditRead(r, input)
    \/ EditCommit(r)
    \/ EditConflict(r)

Phone(p) == CancelRead(p) \/ CancelWrite(p)

Job(i) == Render(i) \/ Store(i)

Next ==
    \/ \E r \in Requests : Desk(r)
    \/ \E p \in Phones : Phone(p)
    \/ \E i \in DOMAIN tickets : Job(i)

Fault ==
    \/ \E i \in DOMAIN tickets : EnqueueFails(i)
    \/ Restart

Spec == Init /\ [][Next]_vars

\* The same, with database errors and restarts of the server.
FaultySpec == Init /\ [][Next \/ Fault]_vars

\* The ticket jobs run on the event loop: one that can take its next step
\* takes it.  Nothing obliges the desk or the phone to do anything.
FairSpec == Spec /\ WF_vars(\E i \in DOMAIN tickets : Job(i))

-----------------------------------------------------------------------------
(* What the code keeps true *)

TypeOK ==
    /\ status \in Statuses
    /\ qty \in Quantities
    /\ voided \in SUBSET Lines
    /\ totalFor \in Quantities
    /\ edits \in Seq([changes : PerEntry(LineChange), afterPrint : BOOLEAN])
    /\ req \in [Requests -> {Idle} \cup MoveRequest \cup EditRequest]
    /\ phone \in [Phones -> {"idle", "checked", "withdrawn", "refused"}]
    /\ tickets \in Seq(Tickets)

\* A withdrawal never takes back an order the desk has accepted: the update
\* of the cancel route tests the status it writes over.  (The accept does not;
\* see WithdrawalStands.)
CancelNeverBeatsAccept == Accepted => status # "cancelled"

\* "Quantities may only go down" and "no reviving voided ones", whatever edits
\* of the same order were computed side by side.
LinesOnlyShrink ==
    [][/\ \A l \in Lines : qty'[l] <= qty[l]
       /\ voided \subseteq voided']_vars

\* A reading of the audit rows takes each entry to be about a line.  In it row
\* n names line l.
Names(reading, n, l) == \E i \in DOMAIN reading[n] : reading[n][i] = l

\* In a reading of the rows, line l stood at q after the first n corrections.
Explains(rows, reading, n, l, q) ==
    \/ q = Placed[l] /\ \A k \in 1..n : ~Names(reading, k, l)
    \/ \E k \in 1..n :
          /\ \E i \in DOMAIN reading[k] : reading[k][i] = l /\ rows[k].changes[i].to = q
          /\ \A m \in (k+1)..n : ~Names(reading, m, l)

\* The reading takes each entry of row n for a line of the dish it names, no
\* two for the same line, and each starts from where the rows before it left
\* that line.
RowFollows(rows, reading, n) ==
    /\ DOMAIN reading[n] = DOMAIN rows[n].changes
    /\ \A i \in DOMAIN reading[n] :
          /\ Dish[reading[n][i]] = rows[n].changes[i].name
          /\ Explains(rows, reading, n - 1, reading[n][i], rows[n].changes[i].from)
          /\ \A j \in DOMAIN reading[n] : reading[n][j] = reading[n][i] => j = i

Accounts(reading) ==
    /\ \A n \in DOMAIN edits : RowFollows(edits, reading, n)
    /\ \A l \in Lines : Explains(edits, reading, Len(edits), l, qty[l])

\* The OrderEdit rows are "enough ... to explain a total that changed": read in
\* the order they were written, they can be taken for a history of the lines
\* that starts from what was ordered and ends at the quantities the lines have
\* now.  The rows name dishes, so which of two lines of one dish an entry was
\* about is left to the reader.
AuditExplainsQuantities ==
    \E reading \in [DOMAIN edits -> PerEntry(Lines)] : Accounts(reading)

\* Once an order is served, rejected or withdrawn, no correction that was being
\* computed meanwhile changes what it costs.
BillFrozenOutsideKitchen ==
    [][status \notin InFlight => UNCHANGED <<qty, voided, totalFor>>]_vars

\* Order.totalKurus may be stale (see StoredTotalMatchesLines), but only ever
\* in one direction: it covers at least the lines the itemised bill shows.
StoredTotalCoversBill == \A l \in Lines : totalFor[l] >= qty[l]

\* A ticket marked as an amendment is never the first the kitchen hears of the
\* order: an unmarked ticket was in the outbox when the edit was computed.
AmendmentFollowsTicket ==
    \A i \in DOMAIN tickets : tickets[i].amends =>
        \E j \in 1..(i-1) : ~tickets[j].amends /\ tickets[j].stage = "stored"

\* As long as no statement fails, an order that went past the desk has a ticket
\* in the outbox sooner or later.
KitchenGetsTicket ==
    (status \in {"accepted", "preparing", "ready", "served"}) ~> HasDelivery

-----------------------------------------------------------------------------
(* Why it is true: what a request holds between its read and its write     *)

\* No request moves an order back to "received" or on to "cancelled".
MovesForward ==
    \A r \in Requests : req[r].op = "move" => req[r].to \notin {"received", "cancelled"}

AcceptedIsPastReceived == Accepted => status \notin {"received", "cancelled"}

\* An edit that has not committed yet only asks for less, and its total covers
\* the lines it leaves and, unless it is bound to conflict, those it changes.
SoundEdit(e) ==
    /\ \A i \in DOMAIN e.changes : e.changes[i].to < e.changes[i].from
    /\ OncePerLine(e) => \A i \in DOMAIN e.changes :
                            e.totalFor[e.changes[i].line] >= e.changes[i].to
    /\ \A l \in Lines : EntriesOf(e, l) = {} => e.totalFor[l] >= qty[l]
    /\ e.afterPrint => HasDelivery

SoundEdits == \A r \in Requests : req[r].op = "edit" => SoundEdit(req[r])

\* Inductive: it implies the invariants above and every step keeps it.
InductiveInvariant ==
    /\ TypeOK
    /\ MovesForward
    /\ AcceptedIsPastReceived
    /\ SoundEdits
    /\ StoredTotalCoversBill
    /\ AmendmentFollowsTicket
    /\ AuditExplainsQuantities

-----------------------------------------------------------------------------
(* What the repository says, and the code does not keep true: checked as an *)
(* invariant, each of these has a counterexample.                          *)

\* cancel/route.ts: "two taps, or a cancel racing the desk's accept, must not
\* both win.  Whoever writes first owns the outcome."
WithdrawalStands == (\E p \in Phones : phone[p] = "withdrawn") => status = "cancelled"

\* desk/bills/route.ts: "Order.totalKurus is kept current by the order-edit
\* path, so summing it matches what the itemised bill would show".
StoredTotalMatchesLines == totalFor = qty

\* orderEdit.ts: "Voiding every line would leave an order that exists but
\* contains nothing", refused as empties_order.
OrderKeepsALine == Lines \ voided # {}

\* items/route.ts: the kitchen "needs to be told the order changed - not handed
\* an unmarked second ticket".
OneUnmarkedTicket ==
    \A i, j \in DOMAIN tickets : ~tickets[i].amends /\ ~tickets[j].amends => i = j

\* orderEdit.ts: an edit of an order with a ticket is marked, because "the
\* kitchen may hold paper that no longer matches".  Hence, with every ticket
\* in the outbox, one of them shows the order as it is.
PaperShowsOrder ==
    /\ tickets # <<>>
    /\ \A i \in DOMAIN tickets : tickets[i].stage = "stored"
    => \E i \in DOMAIN tickets : tickets[i].lines = qty

\* outbox.ts: "the sweep picks up anything this misses".  The sweep only knows
\* rows of the outbox, so a job that ended must have left one.
NoTicketMissed == \A i \in DOMAIN tickets : tickets[i].stage # "lost"

=============================================================================
