------------------------------ MODULE LiveBoard ------------------------------
(***************************************************************************)
(* The desk's screen (components/DeskBoard.tsx) and how it keeps up with   *)
(* the database: events of the bus (lib/bus.ts) reach it on a stream       *)
(* (lib/sse.ts, app/api/desk/stream) as hints to load again, a poll every  *)
(* minute backs them up, and a card moves as soon as its button is         *)
(* pressed.                                                                *)
(*                                                                         *)
(* The screen has two views, the orders and the open bills.  What a view   *)
(* would show is the number of changes made so far to what it is about,    *)
(* with finished orders or without.  Answers to loads may overtake each    *)
(* other, and be cut off.                                                  *)
(***************************************************************************)
EXTENDS Integers

CONSTANTS
    MaxChanges,  \* bound on the changes to what either view is about
    MaxLoads,    \* bound on the loads of one view under way
    MaxFaults    \* bound on failed loads, lost answers, drops, restarts, and uses
                 \*   of the checkbox that reopens the stream

ASSUME BoundsAssumption ==
    MaxChanges \in Nat /\ MaxLoads \in Nat \ {0} /\ MaxFaults \in Nat

VARIABLES
    ver,        \* how often what each view is about has changed
    shown,      \* what each view shows: as of which change, or a guess
    load,       \* the loads of each view: free, sent, or the answer on its way
    pub,        \* changes, by kind, that are committed and not published
    inbox,      \* hints, by kind, on their way to the screen
    stream,     \* "opening" before the server has subscribed it, "up", "dead"
                \*   before the browser has noticed, "down"
    connected,  \* the screen's flags for its banner
    loadError,
    press,      \* the request of the button pressed last
    faults,     \* how many faults there have been
    excused,    \* history: views that may be out of date with no banner
    cut         \* history: an answer with orders was cut off since the guess that
                \*   stands was made

vars == <<ver, shown, load, pub, inbox, stream, connected, loadError, press, faults, excused, cut>>

-----------------------------------------------------------------------------
Views == {"orders", "bills"}

Versions == 0..MaxChanges

Free == -2
Sent == -1
Guess == -1

\* Orders and bills are announced on the bus; how a ticket fared at the printer
\* is not.
Announced == {"order", "bill"}

About(k) ==
    CASE k = "order" -> Views
      [] k = "bill" -> {"bills"}
      [] k = "print" -> {"orders"}

\* Mutant: an event about an order loads the orders only.
ReloadsOwnView(k) == IF k = "order" THEN {"orders"} ELSE {"bills"}

\* What the screen loads again on a hint.
Reloads(k) == IF k = "order" THEN Views ELSE {"bills"}

Buttons == {"move", "edit", "settle", "dismiss"}

\* What a button's request changes.
Changes(b) == IF b \in {"move", "edit"} THEN "order" ELSE "bill"

\* Mutant: a move is not followed by a load.
AfterForgets(b, answer) ==
    CASE b = "move" -> {}
      [] b = "dismiss" -> {"bills"}
      [] b \in {"edit", "settle"} /\ answer = "done" -> Views
      [] b = "edit" /\ answer = "stale" -> {"orders"}
      [] b = "settle" /\ answer = "stale" -> {"bills"}
      [] OTHER -> {}

\* What the screen loads again when a request is answered.
After(b, answer) ==
    CASE b = "move" -> {"orders"}
      [] b = "dismiss" -> {"bills"}
      [] b \in {"edit", "settle"} /\ answer = "done" -> Views
      [] b = "edit" /\ answer = "stale" -> {"orders"}
      [] b = "settle" /\ answer = "stale" -> {"bills"}
      [] OTHER -> {}

\* How a button's request is turned down: an edit or a settlement may have come too
\* late ("conflict", "not_editable", "already_closed").
Refusals(b) == IF b \in {"edit", "settle"} THEN {"stale", "refused"} ELSE {"refused"}

NoPress == [button |-> "none", answer |-> "none"]

Slots == 1..MaxLoads

Room(V) == \A v \in V : \E i \in Slots : load[v][i] = Free

FreeSlot(v) == CHOOSE i \in Slots : load[v][i] = Free

Reload(V) ==
    /\ Room(V)
    /\ load' = [v \in Views |-> IF v \in V THEN [load[v] EXCEPT ![FreeSlot(v)] = Sent]
                                ELSE load[v]]

Quiet ==
    /\ \A v \in Views, i \in Slots : load[v][i] = Free
    /\ \A k \in Announced : pub[k] = 0 /\ inbox[k] = 0
    /\ press = NoPress

\* The page is served, and loads both views as it opens its stream; it takes
\* itself to be connected already.
Init ==
    /\ ver = [v \in Views |-> 0]
    /\ shown = [v \in Views |-> 0]
    /\ load = [v \in Views |-> [i \in Slots |-> IF i = 1 THEN Sent ELSE Free]]
    /\ pub = [k \in Announced |-> 0]
    /\ inbox = [k \in Announced |-> 0]
    /\ stream = "opening"
    /\ connected = TRUE
    /\ loadError = FALSE
    /\ press = NoPress
    /\ faults = 0
    /\ excused = {}
    /\ cut = FALSE

-----------------------------------------------------------------------------
(* The server *)

\* A change is committed; what nobody announces is seen when it is polled for.
Commit(k) ==
    /\ \A v \in About(k) : ver[v] < MaxChanges
    /\ ver' = [v \in Views |-> IF v \in About(k) THEN ver[v] + 1 ELSE ver[v]]
    /\ pub' = [a \in Announced |-> IF a = k THEN pub[a] + 1 ELSE pub[a]]
    /\ excused' = IF k \in Announced THEN excused ELSE excused \union About(k)

Change(k) ==
    /\ Commit(k)
    /\ UNCHANGED <<shown, load, inbox, stream, connected, loadError, press, faults, cut>>

\* publish: only streams that are up at that moment get the event.
Publish(k) ==
    /\ pub[k] > 0
    /\ pub' = [pub EXCEPT ![k] = @ - 1]
    /\ IF stream = "up"
       THEN inbox' = [inbox EXCEPT ![k] = @ + 1] /\ UNCHANGED excused
       ELSE excused' = excused \union About(k) /\ UNCHANGED inbox
    /\ UNCHANGED <<ver, shown, load, stream, connected, loadError, press, faults, cut>>

\* GET /api/desk/orders, GET /api/desk/bills
ServeLoad(v, i) ==
    /\ load[v][i] = Sent
    /\ load' = [load EXCEPT ![v][i] = ver[v]]
    /\ UNCHANGED <<ver, shown, pub, inbox, stream, connected, loadError, press, faults, excused, cut>>

\* The request of a button changes something, comes too late, or is refused.
ServePress ==
    /\ press.answer = "waiting"
    /\ \/ /\ press' = [press EXCEPT !.answer = "done"]
          /\ Commit(Changes(press.button))
       \/ /\ \E answer \in Refusals(press.button) : press' = [press EXCEPT !.answer = answer]
          /\ UNCHANGED <<ver, pub, excused>>
    /\ UNCHANGED <<shown, load, inbox, stream, connected, loadError, faults, cut>>

-----------------------------------------------------------------------------
(* The screen *)

\* A view shows whichever answer came last.
Show(v, i) ==
    /\ load[v][i] \in Versions
    /\ shown' = [shown EXCEPT ![v] = load[v][i]]
    /\ load' = [load EXCEPT ![v][i] = Free]
    /\ loadError' = (v # "orders" /\ loadError)
    /\ excused' = IF load[v][i] = ver[v] THEN excused \ {v}
                  ELSE IF shown[v] > load[v][i] \/ loadError THEN excused \union {v}
                  ELSE excused
    /\ cut' = (v # "orders" /\ cut)
    /\ UNCHANGED <<ver, pub, inbox, stream, connected, press, faults>>

\* onmessage
Hint(k) ==
    /\ inbox[k] > 0
    /\ inbox' = [inbox EXCEPT ![k] = @ - 1]
    /\ Reload(Reloads(k))
    /\ UNCHANGED <<ver, shown, pub, stream, connected, loadError, press, faults, excused, cut>>

\* Mutant: the poll stands in for the stream only while that is down.
PollDisconnected ==
    /\ ~connected
    /\ Reload(Views)
    /\ UNCHANGED <<ver, shown, pub, inbox, stream, connected, loadError, press, faults, excused, cut>>

\* Every sixty seconds.
Poll ==
    /\ Reload(Views)
    /\ UNCHANGED <<ver, shown, pub, inbox, stream, connected, loadError, press, faults, excused, cut>>

\* A button is pressed; a move shows at once.
Press(b) ==
    /\ press = NoPress
    /\ press' = [button |-> b, answer |-> "waiting"]
    /\ shown' = IF b = "move" THEN [shown EXCEPT !["orders"] = Guess] ELSE shown
    /\ cut' = (b # "move" /\ cut)
    /\ UNCHANGED <<ver, load, pub, inbox, stream, connected, loadError, faults, excused>>

\* The answer arrives.
Answered ==
    /\ press.answer \in {"done", "stale", "refused"}
    /\ Reload(After(press.button, press.answer))
    /\ press' = NoPress
    /\ UNCHANGED <<ver, shown, pub, inbox, stream, connected, loadError, faults, excused, cut>>

-----------------------------------------------------------------------------
(* Faults, and the stream *)

Fault == faults < MaxFaults /\ faults' = faults + 1

\* The request, before or after it was served, or its answer is lost.
PressLost ==
    /\ Fault
    /\ press # NoPress
    /\ Reload(After(press.button, "lost"))
    /\ loadError' = (loadError \/ press.button = "move")
    /\ press' = NoPress
    /\ UNCHANGED <<ver, shown, pub, inbox, stream, connected, excused, cut>>

\* A failed load of the orders raises the banner; one of the bills does not.
LoadFails(v, i) ==
    /\ Fault
    /\ load[v][i] # Free
    /\ load' = [load EXCEPT ![v][i] = Free]
    /\ loadError' = (loadError \/ v = "orders")
    /\ excused' = IF v = "bills" THEN excused \union {v} ELSE excused
    /\ UNCHANGED <<ver, shown, pub, inbox, stream, connected, press, cut>>

\* An answer is cut off after its status was read: nothing catches that, and
\* neither the view nor the banner is set.
LoadCut(v, i) ==
    /\ Fault
    /\ load[v][i] \in Versions
    /\ load' = [load EXCEPT ![v][i] = Free]
    /\ excused' = excused \union {v}
    /\ cut' = (cut \/ (v = "orders" /\ shown[v] = Guess))
    /\ UNCHANGED <<ver, shown, pub, inbox, stream, connected, loadError, press>>

Unheard(counts) == UNION {About(k) : k \in {a \in Announced : counts[a] > 0}}

\* The stream breaks, and the hints on it are lost.
Drop ==
    /\ Fault
    /\ stream \in {"opening", "up"}
    /\ stream' = "dead"
    /\ excused' = excused \union Unheard(inbox)
    /\ inbox' = [k \in Announced |-> 0]
    /\ UNCHANGED <<ver, shown, load, pub, connected, loadError, press, cut>>

\* The server restarts before it publishes what it has committed.
Restart ==
    /\ Fault
    /\ stream' = IF stream = "down" THEN "down" ELSE "dead"
    /\ excused' = excused \union Unheard(inbox) \union Unheard(pub)
    /\ pub' = [k \in Announced |-> 0]
    /\ inbox' = [k \in Announced |-> 0]
    /\ UNCHANGED <<ver, shown, load, connected, loadError, press, cut>>

\* onerror
Notice ==
    /\ stream = "dead"
    /\ stream' = "down"
    /\ connected' = FALSE
    /\ UNCHANGED <<ver, shown, load, pub, inbox, loadError, press, faults, excused, cut>>

\* The checkbox for finished orders makes another stream of the same screen, whose
\* hints it drops, and loads both views; the flags stay as they are.
ShowAll ==
    /\ Fault
    /\ Reload(Views)
    /\ stream' = "opening"
    /\ inbox' = [k \in Announced |-> 0]
    /\ UNCHANGED <<ver, shown, pub, connected, loadError, press, excused, cut>>

\* The server subscribes a stream, or EventSource connects again by itself; onopen
\* takes the banner down and loads nothing.
Open ==
    /\ stream \in {"opening", "down"}
    /\ stream' = "up"
    /\ connected' = TRUE
    /\ UNCHANGED <<ver, shown, load, pub, inbox, loadError, press, faults, excused, cut>>

Server ==
    \/ \E k \in Announced \union {"print"} : Change(k)
    \/ \E k \in Announced : Publish(k)
    \/ \E v \in Views, i \in Slots : ServeLoad(v, i)
    \/ ServePress

Screen ==
    \/ \E v \in Views, i \in Slots : Show(v, i)
    \/ \E k \in Announced : Hint(k)
    \/ Poll
    \/ \E b \in Buttons : Press(b)
    \/ Answered
    \/ ShowAll

Network ==
    \/ PressLost \/ Drop \/ Restart \/ Notice \/ Open
    \/ \E v \in Views, i \in Slots : LoadFails(v, i) \/ LoadCut(v, i)

Next == Server \/ Screen \/ Network

\* The poll's timer runs; a load that is under way goes on, served first and then shown.
Fairness ==
    /\ WF_vars(Poll)
    /\ \A v \in Views, i \in Slots : WF_vars(ServeLoad(v, i) \/ Show(v, i))

Spec == Init /\ [][Next]_vars

FairSpec == Spec /\ Fairness

-----------------------------------------------------------------------------
TypeOK ==
    /\ ver \in [Views -> Versions]
    /\ shown \in [Views -> Versions \union {Guess}]
    /\ load \in [Views -> [Slots -> Versions \union {Free, Sent}]]
    /\ pub \in [Announced -> Nat]
    /\ inbox \in [Announced -> Nat]
    /\ stream \in {"opening", "up", "dead", "down"}
    /\ connected \in BOOLEAN /\ loadError \in BOOLEAN
    /\ press \in [button : Buttons \union {"none"},
                  answer : {"none", "waiting", "done", "stale", "refused"}]
    /\ faults \in 0..MaxFaults
    /\ excused \subseteq Views /\ cut \in BOOLEAN

(* "staff should know they are looking at a delayed picture rather than trusting *)
(* a silent screen" (DeskBoard): with no banner, and nothing under way, a view    *)
(* shows the database.  The excuses are an event lost with the stream, or before  *)
(* the stream is open, a change nobody announces, an answer, or the failure of a  *)
(* load, overtaken by an older answer, a failed load of the bills, and an answer  *)
(* that is cut off.                                                               *)
SilentScreenIsCurrent ==
    Quiet /\ connected /\ ~loadError => \A v \in Views \ excused : shown[v] = ver[v]

(* A card that was moved before the server agreed is reconciled (transition):   *)
(* the guess stands only while its request or a load of the orders is under     *)
(* way, under the banner, or because such a load was cut off.                   *)
GuessIsReconciled ==
    shown["orders"] = Guess =>
        \/ press.button = "move"
        \/ \E i \in Slots : load["orders"][i] # Free
        \/ loadError
        \/ cut

(* The poll is a safety net: when changes, presses and faults are over, both    *)
(* views come to show the database and stay with it, whatever was lost.         *)
BoardCatchesUp ==
    <>[](press = NoPress) => <>[](\A v \in Views : shown[v] = ver[v])

-----------------------------------------------------------------------------
(* Why it is true *)

\* What will bring view v up to date, or has raised the banner over it.
Hope(v) ==
    \/ \E i \in Slots : load[v][i] \in {Sent, ver[v]}
    \/ \E k \in Announced : v \in About(k) /\ (pub[k] > 0 \/ inbox[k] > 0)
    \/ v = "orders" /\ (press.button = "move" \/ loadError)

NotAhead ==
    \A v \in Views : shown[v] <= ver[v] /\ \A i \in Slots : load[v][i] <= ver[v]

\* Inductive: it implies the safety properties above and every step keeps it.
InductiveInvariant ==
    /\ TypeOK
    /\ NotAhead
    /\ GuessIsReconciled
    /\ \A v \in Views \ excused : shown[v] = ver[v] \/ Hope(v)
=============================================================================
