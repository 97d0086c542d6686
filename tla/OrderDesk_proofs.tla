-------------------------- MODULE OrderDesk_proofs --------------------------
(***************************************************************************)
(* Theorems about OrderDesk, for any lines, quantities, number of desk     *)
(* requests and taps, with database errors and restarts.                   *)
(***************************************************************************)
EXTENDS OrderDesk, SequenceTheorems, WellFoundedInduction, TLAPS

-----------------------------------------------------------------------------
(* Lemmas about the data *)

\* Every non-empty set of naturals has a least element.
LEMMA LeastElement ==
    ASSUME NEW T \in SUBSET Nat, T # {}
    PROVE  \E x \in T : \A y \in T : x <= y
<1> DEFINE R == {ss \in Nat \X Nat : ss[1] < ss[2]}
<1>1. IsWellFoundedOn(R, Nat)
  BY NatLessThanWellFounded, Zenon DEF OpToRel
<1>2. \A x, y \in Nat : <<y, x>> \in R <=> y < x
  OBVIOUS
<1> HIDE DEF R
<1>3. PICK x \in T : \A y \in T : ~ (<<y, x>> \in R)
  BY <1>1, WFMin
<1>4. ASSUME NEW y \in T PROVE x <= y
  <2>1. x \in Nat /\ y \in Nat
    OBVIOUS
  <2>2. ~ (<<y, x>> \in R)
    BY <1>3
  <2>3. ~ (y < x)
    BY <1>2, <2>1, <2>2
  <2> QED BY <2>1, <2>3
<1> QED BY <1>4

\* A transition of the table moves forward, and stays within the statuses.
LEMMA TransitionsMoveForward ==
    \A s \in Statuses : Transitions(s) \subseteq Statuses \ {"received", "cancelled"}
BY DEF Transitions, Statuses

\* Without an entry a line keeps its quantity, with entries it gets the first.
LEMMA AskedIsFirstEntry ==
    ASSUME NEW input \in EditInputs, NEW l
    PROVE  \/ /\ \A i \in DOMAIN input : input[i].line # l
              /\ Asked(input, l) = qty[l]
           \/ \E i \in DOMAIN input :
                 /\ input[i].line = l
                 /\ Asked(input, l) = input[i].qty
<1> DEFINE of == {i \in DOMAIN input : input[i].line = l}
<1>1. of \in SUBSET Nat
  BY DEF EditInputs
<1>2. CASE of = {}
  BY <1>2 DEF Asked
<1>3. CASE of # {}
  <2> DEFINE first == CHOOSE i \in of : \A j \in of : i <= j
  <2>1. \E i \in of : \A j \in of : i <= j
    BY <1>1, <1>3, LeastElement
  <2>2. first \in of
    BY <2>1
  <2>3. Asked(input, l) = input[first].qty
    BY <1>3 DEF Asked
  <2> QED BY <2>2, <2>3
<1> QED BY <1>2, <1>3

\* An edit computed from smaller quantities is a request of the right type,
\* and a sound one.
LEMMA EditIsSound ==
    ASSUME TypeOK,
           NEW input \in EditInputs,
           \A i \in DOMAIN input : input[i].qty <= qty[input[i].line]
    PROVE  Edit(input) \in EditRequest /\ SoundEdit(Edit(input))
<1> DEFINE e == Edit(input)
<1>1. qty \in [Lines -> 0..MaxQty]
  BY DEF TypeOK, Quantities
<1>2. \A i \in DOMAIN input : input[i].line \in Lines /\ input[i].qty \in 0..MaxQty
  BY DEF EditInputs
<1>3. \A i \in DOMAIN input : qty[input[i].line] \in 0..MaxQty
  BY <1>1, <1>2
<1>4. \A l \in Lines : Asked(input, l) \in 0..MaxQty
  BY <1>1, <1>2, AskedIsFirstEntry
<1>5. e.totalFor \in Quantities /\ \A l \in Lines : e.totalFor[l] = Asked(input, l)
  BY <1>4 DEF Edit, Quantities
<1>6. /\ DOMAIN e.changes = Changing(input)
      /\ \A i \in Changing(input) : /\ e.changes[i] \in Changes
                                    /\ e.changes[i].line = input[i].line
                                    /\ e.changes[i].from = qty[input[i].line]
                                    /\ e.changes[i].to = input[i].qty
  BY <1>2, <1>3 DEF Edit, Changing, Changes
<1>7. e.changes \in PerEntry(Changes)
  <2>1. Changing(input) \subseteq 1..MaxEntries
    BY BoundsAssumption DEF Changing, EditInputs
  <2>2. e.changes \in [Changing(input) -> Changes]
    BY <1>6 DEF Edit
  <2> QED BY <2>1, <2>2 DEF PerEntry
<1>8. e \in EditRequest
  BY <1>5, <1>7 DEF Edit, EditRequest, HasDelivery
<1> HIDE DEF e
<1>9. \A i \in Changing(input) : i \in DOMAIN input /\ input[i].qty < qty[input[i].line]
  BY <1>2, <1>3 DEF Changing
<1>10. \A i \in DOMAIN e.changes : e.changes[i].to < e.changes[i].from
  BY <1>6, <1>9
<1>11. OncePerLine(e) => \A i, j \in Changing(input) : input[i].line = input[j].line => i = j
  BY <1>6 DEF OncePerLine
<1>13. ASSUME OncePerLine(e), NEW i \in DOMAIN e.changes
       PROVE  e.totalFor[e.changes[i].line] >= e.changes[i].to
  <2> DEFINE l == input[i].line
  <2>1. /\ i \in Changing(input) /\ i \in DOMAIN input /\ l \in Lines
        /\ e.changes[i].line = l /\ e.changes[i].to = input[i].qty
    BY <1>2, <1>6, <1>9, <1>13
  <2>2. e.totalFor[l] = Asked(input, l)
    BY <1>5, <2>1
  <2>3. PICK j \in DOMAIN input : input[j].line = l /\ Asked(input, l) = input[j].qty
    BY <2>1, AskedIsFirstEntry
  <2>4. CASE j \in Changing(input)
    <3>1. i = j
      BY <1>11, <1>13, <2>1, <2>3, <2>4
    <3> QED BY <1>2, <2>1, <2>2, <2>3, <3>1
  <2>5. CASE j \notin Changing(input)
    <3>1. Asked(input, l) = qty[l]
      BY <2>3, <2>5 DEF Changing
    <3> QED BY <1>2, <1>3, <1>9, <2>1, <2>2, <3>1
  <2> QED BY <2>4, <2>5
<1>14. ASSUME NEW l \in Lines, EntriesOf(e, l) = {}
       PROVE  e.totalFor[l] >= qty[l]
  <2>1. \A i \in Changing(input) : input[i].line # l
    BY <1>6, <1>14 DEF EntriesOf
  <2>2. \A i \in DOMAIN input : input[i].line = l => input[i].qty = qty[l]
    BY <2>1 DEF Changing
  <2>3. Asked(input, l) = qty[l]
    BY <2>2, AskedIsFirstEntry
  <2> QED BY <1>1, <1>5, <2>3
<1>15. e.afterPrint => HasDelivery
  BY DEF Edit, e
<1> QED BY <1>8, <1>10, <1>13, <1>14, <1>15 DEF SoundEdit, e

-----------------------------------------------------------------------------
(* Type correctness *)

LEMMA InitTypeOK == Init => TypeOK
BY PlacedAssumption, BoundsAssumption
   DEF Init, TypeOK, Statuses, Quantities, Idle, Tickets, Changes

LEMMA RequestKinds ==
    ASSUME TypeOK, NEW r \in Requests
    PROVE  /\ req[r].op = "move" => req[r] \in MoveRequest
           /\ req[r].op = "edit" => req[r] \in EditRequest
BY DEF TypeOK, Idle, MoveRequest, EditRequest

LEMMA StartedIsTicket ==
    ASSUME NEW b \in BOOLEAN
    PROVE  Started(b) \in Tickets
BY BoundsAssumption DEF Started, Tickets, Quantities

LEMMA AtIsTicket ==
    ASSUME NEW t \in Tickets, NEW stage \in {"stored", "lost"}
    PROVE  At(t, stage) \in Tickets
BY DEF At, Tickets

LEMMA TicketTypes ==
    ASSUME TypeOK
    PROVE  /\ Len(tickets) \in Nat
           /\ DOMAIN tickets = 1..Len(tickets)
           /\ \A i \in DOMAIN tickets : tickets[i] \in Tickets
<1>1. tickets \in Seq(Tickets)
  BY DEF TypeOK
<1> QED BY <1>1, LenProperties, ElementOfSeq

\* What starting a job does to the list of them.
LEMMA StartJob ==
    ASSUME TypeOK, NEW b \in BOOLEAN
    PROVE  /\ Append(tickets, Started(b)) \in Seq(Tickets)
           /\ Len(Append(tickets, Started(b))) = Len(tickets) + 1
           /\ DOMAIN Append(tickets, Started(b)) = 1..(Len(tickets) + 1)
           /\ \A i \in 1..Len(tickets) : Append(tickets, Started(b))[i] = tickets[i]
           /\ Append(tickets, Started(b))[Len(tickets) + 1] = Started(b)
<1>1. tickets \in Seq(Tickets)
  BY DEF TypeOK
<1>2. Append(tickets, Started(b)) \in Seq(Tickets)
  BY <1>1, StartedIsTicket, AppendProperties
<1> QED BY <1>1, <1>2, StartedIsTicket, AppendProperties, LenProperties

\* The changes an edit holds, by entry.
LEMMA ChangesOfRequest ==
    ASSUME NEW e \in EditRequest
    PROVE  /\ DOMAIN e.changes \subseteq 1..MaxEntries
           /\ \A i \in DOMAIN e.changes : e.changes[i] \in Changes
BY DEF EditRequest, PerEntry

\* A committed edit leaves quantities of the right type.
LEMMA QtyAfterType ==
    ASSUME TypeOK, NEW e \in EditRequest
    PROVE  [l \in Lines |-> QtyAfter(e, l)] \in Quantities
<1> SUFFICES ASSUME NEW l \in Lines PROVE QtyAfter(e, l) \in 0..MaxQty
  BY DEF Quantities
<1>1. CASE EntriesOf(e, l) # {}
  <2> DEFINE d == CHOOSE i \in EntriesOf(e, l) : TRUE
  <2>1. d \in DOMAIN e.changes
    BY <1>1 DEF EntriesOf
  <2>2. e.changes[d] \in Changes
    BY <2>1, ChangesOfRequest
  <2>3. QtyAfter(e, l) = e.changes[d].to
    BY <1>1 DEF QtyAfter
  <2> QED BY <2>2, <2>3 DEF Changes
<1>2. CASE EntriesOf(e, l) = {}
  BY <1>2 DEF QtyAfter, TypeOK, Quantities
<1> QED BY <1>1, <1>2

\* The row of an edit is of the right type.
LEMMA RowType ==
    ASSUME NEW e \in EditRequest
    PROVE  [changes |-> Named(e.changes), afterPrint |-> e.afterPrint]
             \in [changes : PerEntry(LineChange), afterPrint : BOOLEAN]
<1>1. DOMAIN e.changes \in SUBSET (1..MaxEntries)
  BY ChangesOfRequest
<1>2. \A i \in DOMAIN e.changes : e.changes[i] \in Changes
  BY ChangesOfRequest
<1>3. Named(e.changes) \in [DOMAIN e.changes -> LineChange]
  BY <1>2 DEF Named, Changes, LineChange
<1>4. Named(e.changes) \in PerEntry(LineChange)
  BY <1>1, <1>3 DEF PerEntry
<1> QED BY <1>4 DEF EditRequest

LEMMA TypeOKStep == TypeOK /\ [Next \/ Fault]_vars => TypeOK'
<1> SUFFICES ASSUME TypeOK, [Next \/ Fault]_vars PROVE TypeOK'
  OBVIOUS
<1> USE DEF TypeOK
<1>1. ASSUME NEW r \in Requests, MoveRead(r) PROVE TypeOK'
  <2>1. PICK to \in Transitions(status) : req' = [req EXCEPT ![r] = [op |-> "move", to |-> to]]
    BY <1>1 DEF MoveRead
  <2>2. [op |-> "move", to |-> to] \in MoveRequest
    BY TransitionsMoveForward DEF MoveRequest
  <2> QED BY <1>1, <2>1, <2>2 DEF MoveRead
<1>2. ASSUME NEW r \in Requests, MoveWrite(r) PROVE TypeOK'
  <2>1. req[r].to \in Statuses
    BY <1>2, RequestKinds DEF MoveWrite, MoveRequest
  <2>2. tickets \in Seq(Tickets)
    OBVIOUS
  <2>3. tickets' \in Seq(Tickets)
    BY <1>2, <2>2, StartJob DEF MoveWrite
  <2> QED BY <1>2, <2>1, <2>3 DEF MoveWrite
<1>3. ASSUME NEW r \in Requests, NEW input \in EditInputs, EditRead(r, input) PROVE TypeOK'
  <2>1. Edit(input) \in EditRequest
    BY <1>3, EditIsSound DEF EditRead
  <2> QED BY <1>3, <2>1 DEF EditRead
<1>4. ASSUME NEW r \in Requests, EditCommit(r) PROVE TypeOK'
  <2>1. req[r] \in EditRequest
    BY <1>4, RequestKinds DEF EditCommit
  <2>2. qty' \in Quantities
    BY <1>4, <2>1, QtyAfterType DEF EditCommit
  <2>3. voided' \in SUBSET Lines
    BY <1>4 DEF EditCommit
  <2>4. edits' \in Seq([changes : PerEntry(LineChange), afterPrint : BOOLEAN])
    BY <1>4, <2>1, RowType DEF EditCommit
  <2>5. tickets' \in Seq(Tickets)
    BY <1>4, StartJob DEF EditCommit
  <2>6. totalFor' \in Quantities
    BY <1>4, <2>1 DEF EditCommit, EditRequest
  <2>7. req' \in [Requests -> {Idle} \cup MoveRequest \cup EditRequest]
    BY <1>4 DEF EditCommit
  <2> QED BY <1>4, <2>2, <2>3, <2>4, <2>5, <2>6, <2>7 DEF EditCommit
<1>5. ASSUME NEW r \in Requests, EditConflict(r) PROVE TypeOK'
  BY <1>5 DEF EditConflict
<1>6. ASSUME NEW p \in Phones, Phone(p) PROVE TypeOK'
  BY <1>6 DEF Phone, CancelRead, CancelWrite, Statuses
<1>7. ASSUME NEW i \in DOMAIN tickets, Job(i) \/ EnqueueFails(i) PROVE TypeOK'
  <2>1. i \in 1..Len(tickets) /\ tickets[i] \in Tickets
    BY <1>7, TicketTypes
  <2>2. [amends |-> tickets[i].amends, stage |-> "rendered", lines |-> qty] \in Tickets
    BY <2>1 DEF Tickets
  <2>3. PICK t \in Tickets : tickets' = [tickets EXCEPT ![i] = t]
    BY <1>7, <2>1, <2>2, AtIsTicket DEF Job, Render, Store, EnqueueFails
  <2>4. tickets' \in Seq(Tickets)
    BY <2>1, <2>3, ExceptSeq
  <2> QED BY <1>7, <2>4 DEF Job, Render, Store, EnqueueFails
<1>8. ASSUME Restart PROVE TypeOK'
  <2>1. ASSUME NEW i \in 1..Len(tickets)
        PROVE  (IF tickets[i].stage \in {"queued", "rendered"}
                THEN At(tickets[i], "lost") ELSE tickets[i]) \in Tickets
    BY <2>1, TicketTypes, AtIsTicket
  <2>2. tickets' \in [1..Len(tickets) -> Tickets]
    BY <1>8, <2>1, TicketTypes DEF Restart
  <2>3. tickets' \in Seq(Tickets)
    BY <2>2, TicketTypes, SeqDef
  <2> QED BY <1>8, <2>3 DEF Restart
<1>9. CASE UNCHANGED vars
  BY <1>9 DEF vars
<1> QED
  BY <1>1, <1>2, <1>3, <1>4, <1>5, <1>6, <1>7, <1>8, <1>9 DEF Next, Fault, Desk

\* Every variable keeps the type the code gives it.
THEOREM TypeCorrect == FaultySpec => []TypeOK
<1>1. Init => TypeOK
  BY InitTypeOK
<1>2. TypeOK /\ [Next \/ Fault]_vars => TypeOK'
  BY TypeOKStep
<1> QED BY <1>1, <1>2, PTL DEF FaultySpec

-----------------------------------------------------------------------------
(* How a step changes the tickets and the lines *)

\* A ticket is never forgotten or remade; a new one comes from an accept, or
\* from an edit that was computed after print.
LEMMA TicketStep ==
    ASSUME TypeOK, [Next \/ Fault]_vars
    PROVE  /\ DOMAIN tickets \subseteq DOMAIN tickets'
           /\ \A i \in DOMAIN tickets :
                 /\ tickets'[i].amends = tickets[i].amends
                 /\ tickets[i].stage = "stored" => tickets'[i].stage = "stored"
           /\ \A i \in DOMAIN tickets' \ DOMAIN tickets :
                 /\ i = Len(tickets) + 1
                 /\ \/ ~tickets'[i].amends /\ status' = "accepted"
                    \/ /\ tickets'[i].amends
                       /\ \E r \in Requests : req[r].op = "edit" /\ req[r].afterPrint
<1> DEFINE Goal == /\ DOMAIN tickets \subseteq DOMAIN tickets'
                   /\ \A i \in DOMAIN tickets :
                         /\ tickets'[i].amends = tickets[i].amends
                         /\ tickets[i].stage = "stored" => tickets'[i].stage = "stored"
                   /\ \A i \in DOMAIN tickets' \ DOMAIN tickets :
                         /\ i = Len(tickets) + 1
                         /\ \/ ~tickets'[i].amends /\ status' = "accepted"
                            \/ /\ tickets'[i].amends
                               /\ \E r \in Requests : req[r].op = "edit" /\ req[r].afterPrint
<1>1. CASE tickets' = tickets
  BY <1>1
<1>2. ASSUME NEW r \in Requests, MoveWrite(r), req[r].to = "accepted" PROVE Goal
  <2>1. tickets' = Append(tickets, Started(FALSE)) /\ status' = "accepted"
    BY <1>2 DEF MoveWrite
  <2>2. ~Started(FALSE).amends
    BY DEF Started
  <2>3. /\ DOMAIN tickets' = 1..(Len(tickets) + 1)
        /\ \A i \in 1..Len(tickets) : tickets'[i] = tickets[i]
        /\ tickets'[Len(tickets) + 1] = Started(FALSE)
    BY <2>1, StartJob
  <2>4. Len(tickets) \in Nat /\ DOMAIN tickets = 1..Len(tickets)
    BY TicketTypes
  <2>5. \A i \in DOMAIN tickets' \ DOMAIN tickets : i = Len(tickets) + 1
    BY <2>3, <2>4
  <2>6. ASSUME NEW i \in DOMAIN tickets' \ DOMAIN tickets
        PROVE  i = Len(tickets) + 1 /\ ~tickets'[i].amends /\ status' = "accepted"
    BY <2>1, <2>2, <2>3, <2>5
  <2>7. \A i \in DOMAIN tickets : i \in DOMAIN tickets' /\ tickets'[i] = tickets[i]
    BY <2>3, <2>4
  <2> QED BY <2>6, <2>7
<1>3. ASSUME NEW r \in Requests, EditCommit(r), req[r].afterPrint PROVE Goal
  <2>1. tickets' = Append(tickets, Started(TRUE)) /\ req[r].op = "edit"
    BY <1>3 DEF EditCommit
  <2>2. Started(TRUE).amends
    BY DEF Started
  <2>3. /\ DOMAIN tickets' = 1..(Len(tickets) + 1)
        /\ \A i \in 1..Len(tickets) : tickets'[i] = tickets[i]
        /\ tickets'[Len(tickets) + 1] = Started(TRUE)
    BY <2>1, StartJob
  <2>4. Len(tickets) \in Nat /\ DOMAIN tickets = 1..Len(tickets)
    BY TicketTypes
  <2>5. \A i \in DOMAIN tickets' \ DOMAIN tickets : i = Len(tickets) + 1
    BY <2>3, <2>4
  <2>6. ASSUME NEW i \in DOMAIN tickets' \ DOMAIN tickets
        PROVE  i = Len(tickets) + 1 /\ tickets'[i].amends /\ req[r].op = "edit" /\ req[r].afterPrint
    BY <1>3, <2>1, <2>2, <2>3, <2>5
  <2>7. \A i \in DOMAIN tickets : i \in DOMAIN tickets' /\ tickets'[i] = tickets[i]
    BY <2>3, <2>4
  <2> QED BY <2>6, <2>7
<1>4. ASSUME NEW i \in DOMAIN tickets, Job(i) \/ EnqueueFails(i) PROVE Goal
  <2>1. PICK t \in Tickets : /\ tickets' = [tickets EXCEPT ![i] = t]
                             /\ t.amends = tickets[i].amends
                             /\ tickets[i].stage # "stored"
    <3>1. tickets[i] \in Tickets /\ qty \in Quantities
      BY TicketTypes DEF TypeOK
    <3>2. [amends |-> tickets[i].amends, stage |-> "rendered", lines |-> qty] \in Tickets
      BY <3>1 DEF Tickets
    <3>3. \A stage \in {"stored", "lost"} :
             /\ At(tickets[i], stage) \in Tickets
             /\ At(tickets[i], stage).amends = tickets[i].amends
      BY <3>1, AtIsTicket DEF At
    <3> QED BY <1>4, <3>2, <3>3 DEF Job, Render, Store, EnqueueFails
  <2> QED BY <2>1, TicketTypes
<1>5. ASSUME Restart PROVE Goal
  <2>1. tickets' = [i \in DOMAIN tickets |->
                      IF tickets[i].stage \in {"queued", "rendered"}
                      THEN At(tickets[i], "lost") ELSE tickets[i]]
    BY <1>5 DEF Restart
  <2> QED BY <2>1 DEF At
<1>6. tickets' = tickets \/ Goal
  BY <1>2, <1>3, <1>4, <1>5
     DEF Next, Fault, Desk, Phone, MoveRead, MoveWrite, EditRead, EditCommit, EditConflict,
         CancelRead, CancelWrite, vars
<1> QED BY <1>1, <1>6

\* A committed edit takes each line it names to its new quantity, which is
\* less, and leaves the others.
LEMMA CommitStep ==
    ASSUME TypeOK, SoundEdits, NEW r \in Requests, EditCommit(r)
    PROVE  /\ req[r] \in EditRequest /\ SoundEdit(req[r]) /\ OncePerLine(req[r])
           /\ \A i \in DOMAIN req[r].changes :
                 /\ req[r].changes[i].line \in Lines
                 /\ qty[req[r].changes[i].line] = req[r].changes[i].from
                 /\ qty'[req[r].changes[i].line] = req[r].changes[i].to
           /\ \A l \in Lines : EntriesOf(req[r], l) = {} => qty'[l] = qty[l]
           /\ \A l \in Lines : qty'[l] <= qty[l]
<1> DEFINE e == req[r]
<1>1. e \in EditRequest /\ SoundEdit(e) /\ NoConflict(e)
  BY RequestKinds DEF EditCommit, SoundEdits
<1>2. \A i \in DOMAIN e.changes : /\ e.changes[i].line \in Lines
                                   /\ e.changes[i].from \in Nat
                                   /\ e.changes[i].to \in Nat
  BY <1>1, ChangesOfRequest DEF Changes
<1>3. \A l \in Lines : qty'[l] = QtyAfter(e, l) /\ qty[l] \in Nat
  BY DEF EditCommit, TypeOK, Quantities
<1>4. ASSUME NEW i \in DOMAIN e.changes
      PROVE  /\ qty[e.changes[i].line] = e.changes[i].from
             /\ qty'[e.changes[i].line] = e.changes[i].to
  <2>1. \A j \in DOMAIN e.changes : e.changes[j].line = e.changes[i].line => j = i
    BY <1>1 DEF NoConflict, OncePerLine
  <2>2. QtyAfter(e, e.changes[i].line) = e.changes[i].to
    BY <2>1 DEF QtyAfter, EntriesOf
  <2> QED BY <1>1, <1>2, <1>3, <2>2 DEF NoConflict, Unmoved
<1>5. ASSUME NEW l \in Lines, EntriesOf(e, l) = {} PROVE qty'[l] = qty[l]
  BY <1>3, <1>5 DEF QtyAfter
<1>6. ASSUME NEW l \in Lines PROVE qty'[l] <= qty[l]
  <2>1. CASE EntriesOf(e, l) # {}
    <3>1. PICK i \in DOMAIN e.changes : e.changes[i].line = l
      BY <2>1 DEF EntriesOf
    <3>2. e.changes[i].to < e.changes[i].from
      BY <1>1, <3>1 DEF SoundEdit
    <3> QED BY <1>2, <1>4, <3>1, <3>2
  <2>2. CASE EntriesOf(e, l) = {}
    BY <1>3, <1>5, <2>2
  <2> QED BY <2>1, <2>2
<1> QED BY <1>1, <1>2, <1>4, <1>5, <1>6 DEF NoConflict

\* Only a commit touches the lines, the total or the audit rows.
LEMMA OnlyCommitsEdit ==
    ASSUME [Next \/ Fault]_vars, \A r \in Requests : ~EditCommit(r)
    PROVE  UNCHANGED <<qty, voided, totalFor, edits>>
BY DEF Next, Fault, Desk, Phone, Job, MoveRead, MoveWrite, EditRead, EditConflict, CancelRead,
       CancelWrite, Render, Store, EnqueueFails, Restart, vars

\* Lines shrink in every step.
LEMMA ShrinkStep ==
    ASSUME TypeOK, SoundEdits, [Next \/ Fault]_vars
    PROVE  (\A l \in Lines : qty'[l] <= qty[l]) /\ voided \subseteq voided'
<1>1. ASSUME NEW r \in Requests, EditCommit(r)
      PROVE  (\A l \in Lines : qty'[l] <= qty[l]) /\ voided \subseteq voided'
  BY <1>1, CommitStep DEF EditCommit
<1>2. CASE \A r \in Requests : ~EditCommit(r)
  <2>1. qty' = qty /\ voided' = voided
    BY <1>2, OnlyCommitsEdit
  <2>2. \A l \in Lines : qty[l] \in Nat
    BY DEF TypeOK, Quantities
  <2> QED BY <2>1, <2>2
<1> QED BY <1>1, <1>2

-----------------------------------------------------------------------------
(* The inductive invariant, conjunct by conjunct *)

LEMMA HasDeliveryStays ==
    ASSUME TypeOK, [Next \/ Fault]_vars, HasDelivery
    PROVE  HasDelivery'
BY TicketStep DEF HasDelivery

LEMMA MovesForwardStep ==
    ASSUME TypeOK, MovesForward, [Next \/ Fault]_vars
    PROVE  MovesForward'
<1> SUFFICES ASSUME NEW r \in Requests, req'[r].op = "move"
             PROVE  req'[r].to \notin {"received", "cancelled"}
  BY DEF MovesForward
<1>1. CASE req'[r] = req[r]
  BY <1>1 DEF MovesForward
<1>2. ASSUME NEW s \in Requests, MoveRead(s), req'[r] # req[r]
      PROVE  req'[r].to \notin {"received", "cancelled"}
  <2>1. PICK to \in Transitions(status) : req' = [req EXCEPT ![s] = [op |-> "move", to |-> to]]
    BY <1>2 DEF MoveRead
  <2>2. to \notin {"received", "cancelled"}
    BY <2>1, TransitionsMoveForward DEF TypeOK
  <2> QED BY <1>2, <2>1, <2>2 DEF TypeOK
<1>3. ASSUME NEW s \in Requests, NEW input \in EditInputs, EditRead(s, input)
      PROVE  req'[r] = req[r]
  <2>1. req' = [req EXCEPT ![s] = Edit(input)] /\ Edit(input).op = "edit"
    BY <1>3 DEF EditRead, Edit
  <2> QED BY <2>1 DEF TypeOK
<1>4. ASSUME NEW s \in Requests, MoveWrite(s) \/ EditCommit(s) \/ EditConflict(s)
      PROVE  req'[r] = req[r]
  <2>1. req' = [req EXCEPT ![s] = Idle]
    BY <1>4 DEF MoveWrite, EditCommit, EditConflict
  <2>2. Idle.op = "idle"
    BY DEF Idle
  <2> QED BY <2>1, <2>2 DEF TypeOK
<1>5. ASSUME Restart PROVE req'[r] = req[r]
  BY <1>5 DEF Restart, Idle
<1> QED
  BY <1>1, <1>2, <1>3, <1>4, <1>5
     DEF Next, Fault, Desk, Phone, Job, CancelRead, CancelWrite, Render, Store, EnqueueFails, vars

LEMMA AcceptedIsPastReceivedStep ==
    ASSUME TypeOK, MovesForward, AcceptedIsPastReceived, [Next \/ Fault]_vars
    PROVE  AcceptedIsPastReceived'
<1>1. Accepted' => Accepted \/ status' = "accepted"
  <2> SUFFICES ASSUME NEW i \in DOMAIN tickets', ~tickets'[i].amends
               PROVE  Accepted \/ status' = "accepted"
    BY DEF Accepted
  <2>1. CASE i \in DOMAIN tickets
    BY <2>1, TicketStep DEF Accepted
  <2>2. CASE i \notin DOMAIN tickets
    BY <2>2, TicketStep
  <2> QED BY <2>1, <2>2
<1>2. ASSUME NEW r \in Requests, MoveWrite(r) PROVE status' \notin {"received", "cancelled"}
  BY <1>2 DEF MoveWrite, MovesForward
<1>3. ASSUME NEW p \in Phones, CancelWrite(p), status # "received" PROVE status' = status
  BY <1>3 DEF CancelWrite, CustomerCancellable
<1>4. CASE status' = status
  BY <1>1, <1>4 DEF AcceptedIsPastReceived
<1>5. status' = status \/ (\E r \in Requests : MoveWrite(r)) \/ (\E p \in Phones : CancelWrite(p))
  BY DEF Next, Fault, Desk, Phone, Job, MoveRead, EditRead, EditCommit, EditConflict, CancelRead,
         Render, Store, EnqueueFails, Restart, vars
<1> QED BY <1>1, <1>2, <1>3, <1>4, <1>5 DEF AcceptedIsPastReceived

\* A sound edit stays sound while it waits: lines only shrink meanwhile, and a
\* stored ticket stays stored.
LEMMA SoundEditsStep ==
    ASSUME TypeOK, SoundEdits, [Next \/ Fault]_vars
    PROVE  SoundEdits'
<1> SUFFICES ASSUME NEW r \in Requests, req'[r].op = "edit"
             PROVE  SoundEdit(req[r])'
  BY DEF SoundEdits
<1>1. CASE req'[r] = req[r]
  <2> DEFINE e == req[r]
  <2>1. e \in EditRequest /\ SoundEdit(e)
    BY <1>1, RequestKinds DEF SoundEdits
  <2>2. ASSUME NEW l \in Lines, EntriesOf(e, l) = {}
        PROVE  e.totalFor[l] >= qty'[l]
    <3>1. e.totalFor[l] >= qty[l] /\ qty'[l] <= qty[l]
      BY <2>1, <2>2, ShrinkStep DEF SoundEdit
    <3>2. e.totalFor[l] \in Nat /\ qty[l] \in Nat /\ qty'[l] \in Nat
      BY <2>1, TypeOKStep DEF EditRequest, Quantities, TypeOK
    <3> QED BY <3>1, <3>2
  <2>3. e.afterPrint => HasDelivery'
    BY <2>1, HasDeliveryStays DEF SoundEdit
  <2> QED BY <1>1, <2>1, <2>2, <2>3 DEF SoundEdit
<1>2. ASSUME NEW s \in Requests, NEW input \in EditInputs, EditRead(s, input), req'[r] # req[r]
      PROVE  SoundEdit(req[r])'
  <2>1. req'[r] = Edit(input)
    BY <1>2 DEF EditRead, TypeOK
  <2>2. SoundEdit(Edit(input))
    BY <1>2, EditIsSound DEF EditRead
  <2>3. qty' = qty /\ tickets' = tickets
    BY <1>2 DEF EditRead
  <2> HIDE DEF Edit
  <2> QED BY <2>1, <2>2, <2>3 DEF SoundEdit, HasDelivery
<1>3. ASSUME NEW s \in Requests, MoveRead(s) \/ MoveWrite(s) \/ EditCommit(s) \/ EditConflict(s)
      PROVE  req'[r] = req[r]
  <2>1. CASE MoveRead(s)
    <3>1. PICK to : req' = [req EXCEPT ![s] = [op |-> "move", to |-> to]]
      BY <2>1 DEF MoveRead
    <3> QED BY <3>1 DEF TypeOK
  <2>2. CASE MoveWrite(s) \/ EditCommit(s) \/ EditConflict(s)
    <3>1. req' = [req EXCEPT ![s] = Idle]
      BY <2>2 DEF MoveWrite, EditCommit, EditConflict
    <3>2. Idle.op = "idle"
      BY DEF Idle
    <3> QED BY <3>1, <3>2 DEF TypeOK
  <2> QED BY <1>3, <2>1, <2>2
<1>4. ASSUME Restart PROVE req'[r] = req[r]
  BY <1>4 DEF Restart, Idle
<1> QED
  BY <1>1, <1>2, <1>3, <1>4
     DEF Next, Fault, Desk, Phone, Job, CancelRead, CancelWrite, Render, Store, EnqueueFails, vars

LEMMA StoredTotalStep ==
    ASSUME TypeOK, SoundEdits, StoredTotalCoversBill, [Next \/ Fault]_vars
    PROVE  StoredTotalCoversBill'
<1>1. ASSUME NEW r \in Requests, EditCommit(r), NEW l \in Lines PROVE totalFor'[l] >= qty'[l]
  <2>1. totalFor' = req[r].totalFor
    BY <1>1 DEF EditCommit
  <2>2. CASE EntriesOf(req[r], l) # {}
    BY <1>1, <2>1, <2>2, CommitStep DEF SoundEdit, EntriesOf
  <2>3. CASE EntriesOf(req[r], l) = {}
    BY <1>1, <2>1, <2>3, CommitStep DEF SoundEdit
  <2> QED BY <2>2, <2>3
<1>2. CASE \A r \in Requests : ~EditCommit(r)
  BY <1>2, OnlyCommitsEdit DEF StoredTotalCoversBill
<1> QED BY <1>1, <1>2 DEF StoredTotalCoversBill

LEMMA AmendmentStep ==
    ASSUME TypeOK, SoundEdits, AmendmentFollowsTicket, [Next \/ Fault]_vars
    PROVE  AmendmentFollowsTicket'
<1> SUFFICES ASSUME NEW i \in DOMAIN tickets', tickets'[i].amends
             PROVE  \E j \in 1..(i-1) : ~tickets'[j].amends /\ tickets'[j].stage = "stored"
  BY DEF AmendmentFollowsTicket
<1>1. Len(tickets) \in Nat /\ DOMAIN tickets = 1..Len(tickets)
  BY TicketTypes
<1>2. ASSUME NEW j \in DOMAIN tickets, ~tickets[j].amends, tickets[j].stage = "stored"
      PROVE  ~tickets'[j].amends /\ tickets'[j].stage = "stored"
  BY <1>2, TicketStep
<1>3. CASE i \in DOMAIN tickets
  <2>1. PICK j \in 1..(i-1) : ~tickets[j].amends /\ tickets[j].stage = "stored"
    BY <1>3, TicketStep DEF AmendmentFollowsTicket
  <2>2. j \in DOMAIN tickets
    BY <1>1, <1>3
  <2> QED BY <1>2, <2>1, <2>2
<1>4. CASE i \notin DOMAIN tickets
  <2>1. i = Len(tickets) + 1 /\ HasDelivery
    BY <1>4, TicketStep DEF SoundEdits, SoundEdit
  <2>2. PICK k \in DOMAIN tickets : tickets[k].stage = "stored"
    BY <2>1 DEF HasDelivery
  <2>3. \E j \in DOMAIN tickets : ~tickets[j].amends /\ tickets[j].stage = "stored"
    <3>1. CASE tickets[k].amends
      <4>1. PICK j \in 1..(k-1) : ~tickets[j].amends /\ tickets[j].stage = "stored"
        BY <3>1 DEF AmendmentFollowsTicket
      <4> QED BY <1>1, <4>1
    <3> QED BY <2>2, <3>1
  <2> QED BY <1>1, <1>2, <2>1, <2>3
<1> QED BY <1>3, <1>4

\* What the first rows of a reading explain, they explain when rows are added.
LEMMA ExplainsStays ==
    ASSUME NEW n \in Nat, NEW old, NEW new, NEW a, NEW b, NEW l, NEW q,
           \A k \in 1..n : new[k] = old[k] /\ b[k] = a[k],
           Explains(a, old, n, l, q)
    PROVE  Explains(b, new, n, l, q)
<1>1. \A k \in 1..n : Names(new, k, l) <=> Names(old, k, l)
  BY DEF Names
<1>2. CASE q = Placed[l] /\ \A k \in 1..n : ~Names(old, k, l)
  <2>1. \A k \in 1..n : ~Names(new, k, l)
    BY <1>1, <1>2
  <2> QED BY <1>2, <2>1, Zenon DEF Explains
<1>3. ASSUME NEW k \in 1..n,
             \E i \in DOMAIN old[k] : old[k][i] = l /\ a[k].changes[i].to = q,
             \A m \in (k+1)..n : ~Names(old, m, l)
      PROVE  Explains(b, new, n, l, q)
  <2>1. \A m \in (k+1)..n : ~Names(new, m, l)
    BY <1>1, <1>3
  <2>2. \E i \in DOMAIN new[k] : new[k][i] = l /\ b[k].changes[i].to = q
    BY <1>3
  <2> QED BY <1>3, <2>1, <2>2, Zenon DEF Explains
<1> QED BY <1>2, <1>3, Zenon DEF Explains

\* One more row, that does not name the line, leaves it where it was.
LEMMA ExplainsPasses ==
    ASSUME NEW n \in Nat, NEW rows, NEW rd, NEW l, NEW q,
           Explains(rows, rd, n, l, q), ~Names(rd, n + 1, l)
    PROVE  Explains(rows, rd, n + 1, l, q)
<1>1. \A k \in 1..(n + 1) : k \in 1..n \/ k = n + 1
  OBVIOUS
<1>2. CASE q = Placed[l] /\ \A k \in 1..n : ~Names(rd, k, l)
  <2>1. \A k \in 1..(n + 1) : ~Names(rd, k, l)
    BY <1>1, <1>2
  <2> QED BY <1>2, <2>1, Zenon DEF Explains
<1>3. ASSUME NEW k \in 1..n,
             \E i \in DOMAIN rd[k] : rd[k][i] = l /\ rows[k].changes[i].to = q,
             \A m \in (k+1)..n : ~Names(rd, m, l)
      PROVE  Explains(rows, rd, n + 1, l, q)
  <2>1. \A m \in (k+1)..(n + 1) : m \in (k+1)..n \/ m = n + 1
    BY <1>3
  <2>2. \A m \in (k+1)..(n + 1) : ~Names(rd, m, l)
    BY <1>3, <2>1
  <2>3. k \in 1..(n + 1)
    BY <1>3
  <2> QED BY <1>3, <2>2, <2>3, Zenon DEF Explains
<1> QED BY <1>2, <1>3, Zenon DEF Explains

\* The reading of the rows so far, and the lines a committed edit was of, make
\* a reading of the rows with its own.
LEMMA AuditStep ==
    ASSUME TypeOK, SoundEdits, AuditExplainsQuantities, [Next \/ Fault]_vars
    PROVE  AuditExplainsQuantities'
<1>1. CASE \A r \in Requests : ~EditCommit(r)
  <2>1. qty' = qty /\ edits' = edits
    BY <1>1, OnlyCommitsEdit
  <2> QED BY <2>1 DEF AuditExplainsQuantities, Accounts
<1>2. ASSUME NEW r \in Requests, EditCommit(r) PROVE AuditExplainsQuantities'
  <2>1. PICK old \in [DOMAIN edits -> PerEntry(Lines)] : Accounts(old)
    BY DEF AuditExplainsQuantities
  <2>2. PICK n, c, row : /\ n = Len(edits) /\ c = req[r].changes
                         /\ row = [changes    |-> Named(req[r].changes),
                                   afterPrint |-> req[r].afterPrint]
    OBVIOUS
  <2>3. /\ n \in Nat /\ DOMAIN edits = 1..n /\ DOMAIN edits' = 1..(n + 1)
        /\ Len(edits') = n + 1
        /\ edits'[n + 1] = row
        /\ \A k \in 1..n : edits'[k] = edits[k]
    BY <1>2, <2>2 DEF EditCommit, TypeOK
  <2>4. /\ DOMAIN row.changes = DOMAIN c
        /\ \A i \in DOMAIN c : /\ row.changes[i].name = Dish[c[i].line]
                               /\ row.changes[i].from = c[i].from
                               /\ row.changes[i].to = c[i].to
    BY <2>2 DEF Named
  <2>5. /\ DOMAIN c \in SUBSET (1..MaxEntries)
        /\ \A i \in DOMAIN c : /\ c[i].line \in Lines
                               /\ qty[c[i].line] = c[i].from
                               /\ qty'[c[i].line] = c[i].to
        /\ \A i, j \in DOMAIN c : c[i].line = c[j].line => i = j
        /\ \A l \in Lines : (\A i \in DOMAIN c : c[i].line # l) => qty'[l] = qty[l]
    BY <1>2, <2>2, CommitStep, ChangesOfRequest DEF OncePerLine, EntriesOf
  <2>6. PICK last : last = [i \in DOMAIN c |-> c[i].line]
    OBVIOUS
  <2>7. PICK new : new = [k \in 1..(n + 1) |-> IF k = n + 1 THEN last ELSE old[k]]
    OBVIOUS
  <2>8. /\ new[n + 1] = last
        /\ \A k \in 1..n : new[k] = old[k]
    BY <2>3, <2>7
  <2>9. /\ DOMAIN last = DOMAIN c
        /\ \A i \in DOMAIN c : last[i] = c[i].line
    BY <2>6
  <2>10. new \in [DOMAIN edits' -> PerEntry(Lines)]
    <3>1. last \in [DOMAIN c -> Lines]
      BY <2>5, <2>6
    <3>2. last \in PerEntry(Lines)
      BY <2>5, <3>1 DEF PerEntry
    <3>3. \A k \in 1..(n + 1) : k # n + 1 => k \in 1..n
      BY <2>3
    <3> QED BY <2>1, <2>3, <2>7, <3>2, <3>3
  <2>11. \A m \in 0..n : \A k \in 1..m : new[k] = old[k] /\ edits'[k] = edits[k]
    BY <2>3, <2>8
  <2>12. ASSUME NEW m \in 0..n, NEW l, NEW q, Explains(edits, old, m, l, q)
         PROVE  Explains(edits', new, m, l, q)
    <3>1. m \in Nat
      BY <2>3
    <3> QED BY <2>11, <2>12, <3>1, ExplainsStays
  <2>13. ASSUME NEW k \in 1..n PROVE RowFollows(edits', new, k)
    <3>1. RowFollows(edits, old, k)
      BY <2>1, <2>3 DEF Accounts
    <3>2. new[k] = old[k] /\ edits'[k] = edits[k] /\ k - 1 \in 0..n
      BY <2>3, <2>8
    <3>3. \A i \in DOMAIN new[k] : Explains(edits', new, k - 1, new[k][i], edits'[k].changes[i].from)
      BY <2>12, <3>1, <3>2 DEF RowFollows
    <3> QED BY <3>1, <3>2, <3>3 DEF RowFollows
  <2>14. RowFollows(edits', new, n + 1)
    <3>1. DOMAIN new[n + 1] = DOMAIN edits'[n + 1].changes
      BY <2>3, <2>4, <2>8, <2>9
    <3>2. ASSUME NEW i \in DOMAIN c
          PROVE  Explains(edits', new, n, c[i].line, c[i].from)
      <4>1. Explains(edits, old, n, c[i].line, qty[c[i].line])
        BY <2>1, <2>2, <2>5 DEF Accounts
      <4>2. n \in 0..n
        BY <2>3
      <4> QED BY <2>5, <2>12, <4>1, <4>2
    <3>3. (n + 1) - 1 = n
      BY <2>3
    <3>4. ASSUME NEW i \in DOMAIN new[n + 1]
          PROVE  /\ Dish[new[n + 1][i]] = edits'[n + 1].changes[i].name
                 /\ Explains(edits', new, (n + 1) - 1, new[n + 1][i], edits'[n + 1].changes[i].from)
                 /\ \A j \in DOMAIN new[n + 1] : new[n + 1][j] = new[n + 1][i] => j = i
      <4>1. i \in DOMAIN c /\ new[n + 1][i] = c[i].line
        BY <2>8, <2>9
      <4>2. edits'[n + 1].changes[i].from = c[i].from
        BY <2>3, <2>4, <4>1
      <4>3. Explains(edits', new, (n + 1) - 1, new[n + 1][i], edits'[n + 1].changes[i].from)
        BY <3>2, <3>3, <4>1, <4>2
      <4>4. \A j \in DOMAIN new[n + 1] : new[n + 1][j] = new[n + 1][i] => j = i
        BY <2>5, <2>8, <2>9, <4>1
      <4> QED BY <2>3, <2>4, <4>1, <4>3, <4>4
    <3> QED BY <3>1, <3>4 DEF RowFollows
  <2>15. ASSUME NEW l \in Lines PROVE Explains(edits', new, n + 1, l, qty'[l])
    <3>1. CASE \E i \in DOMAIN c : c[i].line = l
      <4>1. PICK i \in DOMAIN c : c[i].line = l
        BY <3>1
      <4>2. i \in DOMAIN new[n + 1] /\ new[n + 1][i] = l
        BY <2>8, <2>9, <4>1
      <4>3. edits'[n + 1].changes[i].to = qty'[l]
        BY <2>3, <2>4, <2>5, <4>1
      <4>4. n + 1 \in 1..(n + 1) /\ \A m \in (n + 2)..(n + 1) : FALSE
        BY <2>3
      <4>5. n + 1 + 1 = n + 2
        BY <2>3
      <4> QED BY <4>2, <4>3, <4>4, <4>5, Zenon DEF Explains
    <3>2. CASE \A i \in DOMAIN c : c[i].line # l
      <4>1. Explains(edits, old, n, l, qty'[l])
        BY <2>1, <2>2, <2>5, <3>2 DEF Accounts
      <4>2. PICK q : q = qty'[l]
        OBVIOUS
      <4>3. Explains(edits', new, n, l, q)
        BY <2>3, <2>12, <4>1, <4>2
      <4>4. ~Names(new, n + 1, l)
        BY <2>8, <2>9, <3>2 DEF Names
      <4>5. Explains(edits', new, n + 1, l, q)
        BY <2>3, <4>3, <4>4, ExplainsPasses
      <4> QED BY <4>2, <4>5
    <3> QED BY <3>1, <3>2
  <2>16. Accounts(new)'
    <3>1. \A k \in DOMAIN edits' : k \in 1..n \/ k = n + 1
      BY <2>3
    <3>2. \A k \in DOMAIN edits' : RowFollows(edits', new, k)
      BY <2>13, <2>14, <3>1
    <3> QED BY <2>3, <2>15, <3>2 DEF Accounts
  <2> QED BY <2>10, <2>16 DEF AuditExplainsQuantities
<1> QED BY <1>1, <1>2

-----------------------------------------------------------------------------
(* Theorems *)

LEMMA InitInductive == Init => InductiveInvariant
<1> SUFFICES ASSUME Init PROVE InductiveInvariant
  OBVIOUS
<1>1. TypeOK
  BY InitTypeOK
<1>2. /\ status = "received" /\ qty = Placed /\ totalFor = Placed
      /\ edits = <<>> /\ tickets = <<>>
      /\ \A r \in Requests : req[r].op = "idle"
  BY DEF Init, Idle
<1>3. \A l \in Lines : Placed[l] \in Nat
  BY PlacedAssumption, BoundsAssumption
<1>4. MovesForward /\ SoundEdits
  BY <1>2 DEF MovesForward, SoundEdits
<1>5. AcceptedIsPastReceived /\ AmendmentFollowsTicket
  BY <1>2 DEF AcceptedIsPastReceived, AmendmentFollowsTicket, Accepted
<1>6. StoredTotalCoversBill
  <2>1. \A x \in Nat : x >= x
    OBVIOUS
  <2>2. \A l \in Lines : Placed[l] >= Placed[l]
    BY <1>3, <2>1
  <2> QED BY <1>2, <2>2 DEF StoredTotalCoversBill
<1>7. AuditExplainsQuantities
  <2>1. PICK none : none = [n \in DOMAIN edits |-> {}]
    OBVIOUS
  <2>2. DOMAIN edits = {} /\ Len(edits) = 0
    BY <1>2
  <2>3. none \in [DOMAIN edits -> PerEntry(Lines)]
    BY <2>1, <2>2
  <2>4. \A k \in 1..0 : FALSE
    OBVIOUS
  <2>5. \A l \in Lines : Explains(edits, none, 0, l, qty[l])
    BY <1>2, <2>4 DEF Explains
  <2> QED BY <2>2, <2>3, <2>5 DEF AuditExplainsQuantities, Accounts
<1> QED BY <1>1, <1>4, <1>5, <1>6, <1>7 DEF InductiveInvariant

LEMMA StepInductive == InductiveInvariant /\ [Next \/ Fault]_vars => InductiveInvariant'
BY TypeOKStep, MovesForwardStep, AcceptedIsPastReceivedStep, SoundEditsStep, StoredTotalStep,
   AmendmentStep, AuditStep
   DEF InductiveInvariant

\* The conjunction of all of them, and what in-flight requests hold, is invariant.
THEOREM Invariance == FaultySpec => []InductiveInvariant
BY InitInductive, StepInductive, PTL DEF FaultySpec

\* A withdrawal never takes back an order the desk accepted.
THEOREM CancelNeverBeatsAcceptHolds == FaultySpec => []CancelNeverBeatsAccept
<1>1. InductiveInvariant => CancelNeverBeatsAccept
  BY DEF InductiveInvariant, AcceptedIsPastReceived, CancelNeverBeatsAccept
<1> QED BY <1>1, Invariance, PTL

\* The stored total covers the lines of the itemised bill.
THEOREM StoredTotalCoversBillHolds == FaultySpec => []StoredTotalCoversBill
<1>1. InductiveInvariant => StoredTotalCoversBill
  BY DEF InductiveInvariant
<1> QED BY <1>1, Invariance, PTL

\* The first ticket of an order is never an amendment.
THEOREM AmendmentFollowsTicketHolds == FaultySpec => []AmendmentFollowsTicket
<1>1. InductiveInvariant => AmendmentFollowsTicket
  BY DEF InductiveInvariant
<1> QED BY <1>1, Invariance, PTL

\* The audit rows account for every quantity.
THEOREM AuditExplainsQuantitiesHolds == FaultySpec => []AuditExplainsQuantities
<1>1. InductiveInvariant => AuditExplainsQuantities
  BY DEF InductiveInvariant
<1> QED BY <1>1, Invariance, PTL

\* Lines only shrink, and a voided line stays voided.
THEOREM LinesOnlyShrinkHolds == FaultySpec => LinesOnlyShrink
<1>1. InductiveInvariant /\ [Next \/ Fault]_vars
      => [/\ \A l \in Lines : qty'[l] <= qty[l]
          /\ voided \subseteq voided']_vars
  BY ShrinkStep DEF InductiveInvariant
<1> QED BY <1>1, Invariance, PTL DEF FaultySpec, LinesOnlyShrink

\* An order that left the kitchen costs what it costs.
THEOREM BillFrozenHolds == FaultySpec => BillFrozenOutsideKitchen
<1>1. [Next \/ Fault]_vars => [status \notin InFlight => UNCHANGED <<qty, voided, totalFor>>]_vars
  <2>1. ASSUME NEW r \in Requests, EditCommit(r) PROVE status \in InFlight
    BY <2>1 DEF EditCommit, NoConflict
  <2> QED BY <2>1, OnlyCommitsEdit
<1> QED BY <1>1, PTL DEF FaultySpec, BillFrozenOutsideKitchen

=============================================================================
