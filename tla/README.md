# The ordering system in TLA+

This directory holds TLA+ models of the restaurant ordering application, the
TLC runs that check them, and TLAPS proofs about them. Paths below are relative
to the root of the repository.

The application is one Node.js process in front of PostgreSQL. Its handlers are
short sequences of database statements, so almost everything that can go wrong
in it does so *between* two statements: another handler, a timer or a restart
runs there. The models are therefore about statements, in the order in which the
code issues them, and about what each one tests again of what an earlier one
read.

## 1. Inventory

| Component | Source | State | Operations |
|---|---|---|---|
| Order at the desk | `app/api/desk/orders/[id]/route.ts`, `.../items/route.ts`, `lib/orderEdit.ts`, `lib/orderStatus.ts`, `app/api/orders/[id]/cancel/route.ts` | `Order.status`, `Order.totalKurus`, `OrderItem.qty/voidedAt`, `OrderEdit` | move along the kitchen, correct lines, withdraw |
| Kitchen outbox, pull side | `lib/pos/outbox.ts`, `app/api/bridge/pending`, `app/api/bridge/ack`, `app/api/admin/pos/[id]/retry`, `bridge/agent.mjs` | `PosDelivery.status/attempts/claimId/claimedAt`; the batch in the agent's memory | enqueue, poll and claim, print, acknowledge, sweep, print again |
| Kitchen outbox, push side | `lib/pos/outbox.ts`, `lib/pos/adapters.ts` | the same rows, console adapter | inline attempt, sweep's retry |
| Table visits and sessions | `app/scan/[code]/route.ts`, `lib/visit.ts`, `lib/tableSession.ts`, `app/api/bill`, `app/api/desk/bills/[id]`, `.../settle`, `app/api/admin/sessions/[id]` | `TableVisit`, `TableSession`, `Table.qrVersion` | scan, join or open a visit, mint and displace sessions, ask for the bill, dismiss, settle, close what was abandoned |
| Tables and codes | `app/api/admin/tables`, `lib/qr.ts`, `app/api/admin/venue/qr-secret` | `Table`, the venue's secret | create, rename, regenerate, delete, rotate the secret |
| Order placement | `app/api/orders/route.ts`, `components/CustomerApp.tsx` | `Order`, `OrderAttempt`; cart and idempotency key of the phone | submit, replay, cap, number |
| Bills and reports | `lib/visit.ts`, `app/api/desk/bills`, the dialog in `components/DeskBoard.tsx`, `lib/reporting.ts` | `Order.paidAt`, `TableVisit.totalKurus`; the bill a dialog shows | total, show, mark paid, close, report by venue day |
| Staff accounts | `lib/staffAdmin.ts`, `lib/staffAuth.ts`, `app/api/auth/*`, `app/api/admin/staff`, `components/admin/StaffPanel.tsx` | `StaffUser.role/active/tokenVersion`; an account cache of 30 s; the cookie of each browser | sign in, change password, add, edit, switch off, sign out everywhere |
| Menu and its cache | `lib/menu.ts`, `app/api/admin/items`, `.../categories`, `components/admin/MenuTab.tsx`, `ItemEditor.tsx`, `components/CustomerApp.tsx` | menu rows; one cache entry per venue; the list and form of each admin's tab; menu and cart of each phone | load, invalidate, switch, edit, create, delete, hide, order |
| Live updates | `lib/bus.ts`, `lib/sse.ts`, the two stream routes, `components/DeskBoard.tsx` | event bus, open streams; the screen's two views, its banner, its loads | publish, serialise, send, close; load, poll, press, notice, open |
| Rate limiter | `lib/rateLimit.ts`, `lib/attempts.ts` | windows by key, at most `MAX_KEYS`; a ledger of attempts | hit, evict, count |
| Scheduler and health | `lib/scheduler.ts`, `lib/retention.ts`, `app/api/health`, `app/api/cron/pos-sweep` | timers, time of the last sweep | sweep the outbox, close abandoned visits, prune, report |
| The rest | ticket layout, printer shim, photos, paging, money, texts, environment, screens, scripts | — | rendering, file I/O, configuration |

How they meet:

- a **scan** finds or opens a visit and mints a session in it; a session's phone
  places **orders**, which hang on the session and on the visit;
- the **desk** accepts an order and thereby starts a background job that stores a
  ticket in the **outbox**; an edit of an order with a ticket starts another;
- the **bridge agent** fetches tickets over HTTP, so it and the server may fail
  independently; the **scheduler** cleans up after it;
- the **till** closes a visit, marks its orders paid and revokes its sessions in
  one transaction; the scheduler closes visits that nobody settles;
- changes to orders, bills and the menu are announced over the **bus** to open
  streams; screens take the events as hints to load again. How a ticket fared at
  the printer is not announced;
- the **menu** is read by phones through a cache that its events invalidate, and by
  the handler of an order from the database.

What makes the code hard to test is listed line by line under `hazards` in
`PROJECT.json`. In short: check-then-act across two statements (desk moves, bill
requests, the abandoned sweep), timestamps taken before a row is visible, claims
that expire while their holder is alive, acknowledgements that come late, a
background job nobody waits for, caches filled by reads that began before a change,
lists and forms and dialogs older than what they change, answers that overtake each
other, and restarts between any two of these.

## 2. The modules

| Module | Contents |
|---|---|
| `OrderDesk` | one order between phone, desk and outbox |
| `BridgeOutbox` | the outbox rows of the bridge adapter, the agents, sweeps and the admin |
| `TicketLife` | what the kitchen is promised of a ticket; `BridgeOutbox` implements it |
| `TableVisits` | one table: scans, sessions, visits, bill requests, till, sweep |
| `OrderPlacement` | the phones of a table: carts, idempotency keys, and the statements of `POST /api/orders` |
| `OrderBook` | what a customer is promised of an order; `OrderPlacement` implements it |
| `Settlement` | one visit with its orders: bill, dialog, settlement, sweep, phones |
| `StaffAccounts` | accounts, the account cache, cookies, and the requests of browsers |
| `LiveBoard` | the desk's screen between its stream, its poll and its buttons |
| `MenuRows` | the rows of a menu and the admin's handlers, one action per statement |
| `MenuBoard` | `MenuRows` with the admins' tabs: lists, switches in flight, forms |
| `MenuCache` | `MenuRows` with the server's cache and the phones' menus, carts and orders |
| `MC...` | constants and symmetry for TLC, one for each module with a run |
| `..._proofs` | theorems and their proofs, of every module with a run; `Menu_proofs` has those of `MenuCache` and of `MenuBoard` |

In each module the definitions stand in the order: data, `Init`, the actions
handler by handler, `Next` and the specifications, what the code keeps true, why
(the inductive invariant), and what the repository says but the code does not
keep. A definition commented as *Mutant* is a plausible slip in the definition
that follows it; nothing uses it except the sensitivity checks named under
`mutants` in `PROJECT.json`.

### Conventions

- **One statement is one action.** An `await db.x(...)` reads and writes
  atomically; whatever the code does between two awaits belongs to the action of
  the first. A read with `include` is one snapshot. A conditional `updateMany`
  tests and writes in one action, an `update` by id writes without a test.
- **A transaction whose tests are its own updates is one action**: `editOrder`
  and `settleVisit` count the rows of conditional updates, which stay locked
  until the commit, and roll back on a miss. Reads before such a transaction are
  an action of their own.
- **Inputs** are picked by `\E` from small sets: an edit is a sequence of entries
  `[line, qty]`, duplicates included, as `orderEditSchema` lets them through.
- **Amounts.** Prices of lines do not change, so a total is represented by the
  quantities it was summed over (`totalFor`): two totals differ for some prices
  iff their quantity vectors do.
- **Time.** No action depends on a duration, only on whether one has passed: a
  claim is `fresh` or `stale`; a visit is in `fresh` until three hours have
  passed since it was opened or last ordered from. Both may flip at any moment
  the code's ordering of the constants allows.
- **Versions.** Where only "is this still what the database says" matters, data is
  the number of the change that made it: `tokenVersion`, a dish's prices, names and
  option ids, what a view of the screen shows.
- **History variables**
  record what happened for the properties: `printed`, `excused`, `shownAt`,
  `settled`, `reopened`, `tapped`, `late`, `adrift`, `wiped`, `crossed`,
  `overtaken`, `between`, `behind`, `cut`, `offAt`, `revived` (of orders, and of dishes), `orphaned`, `raced`,
  `served`, the fields `stale`, `late` and `overtaken` of `StaffAccounts`. No guard
  reads them, except that `settled` bounds how often the till settles a visit
  (`MaxSettled`), and `tapped` makes every dish one tap.

### `OrderDesk`

`status`, `qty`, `voided` and `totalFor` are the order and its lines, `edits` the
audit rows, `req[r]` what a desk request holds between its read and its write,
`phone[p]` the progress of a withdrawal, and `tickets` the background jobs with
the ticket each renders.

| Action | Code |
|---|---|
| `MoveRead`, `MoveWrite` | `PATCH /api/desk/orders/[id]`: the transition is checked against the row read, the update is by id; an accept starts a ticket job |
| `EditRead` | `editOrder` up to the transaction: status, voided lines, quantities that only go down, at least one line left, the new total, `afterPrint` |
| `EditCommit`, `EditConflict` | the transaction: every line still at the quantity read, the order still in flight; else `EditConflict` |
| `CancelRead`, `CancelWrite` | `POST /api/orders/[id]/cancel`; the update is conditional |
| `Render`, `Store` | `enqueuePosDelivery`: read the order and render, insert the row |
| `EnqueueFails`, `Restart` | a statement of the job throws; the process restarts and loses requests and jobs |

A line named twice in an edit is billed at its first entry (`Array.find`) while
updates are made of every entry that changes something; that two such updates
can never both find the row they expect (`OncePerLine`) is what saves the total. Unit
prices are taken to be positive, though an option's surcharge may be any integer
(`validation.ts:25`) and could bring one below zero.
The rows of `edits` keep the names of the dishes (`Dish`, `Named`) and not the lines,
as `changesJson` does; a cart may hold two lines of one dish, so an audit row has to
be *read* as being about lines (`AuditExplainsQuantities`: some reading is a history
of the order), and which of two lines of one dish was meant cannot be told from it.

### `BridgeOutbox`

Rows are numbered in the order of `createdAt`. A poll is three statements:
`PollRead` (the candidates), `PollClaim` or `PollLoses` (the conditional update
that draws a `claimId`), `PollAnswer` (the rows that carry it). The agent prints
what it is handed in that order (`PrintOk`, `PrintFails`) and sends an
acknowledgement for each; an acknowledgement stays in `acks` until the route has
settled it (`AckRead`, `AckWrite`) or it is lost, so it may be overtaken by
anything, also after the agent has moved on. `Crash` drops the agent's batch.
`SweepStale`, `SweepNull`, `SweepExhausted` are the three updates of the sweep,
which the timer and the cron route may run at the same time; `AdminRetry` is the
admin's "print again". `printed[d]` counts how often a printer *took* the ticket:
without `PRINTER_ACK` the agent knows no more than that, so nothing here says that
paper came out.

`BridgeOutbox` implements `TicketLife` (`KeepsTicketLife`), which knows no agents, claims,
counts or messages: a ticket waits, is held, comes out once while it is held, and is
settled as sent for good. A ticket leaves that path only with an excuse, which is part of
the promise: its claim expired, its print was reported failed, or the admin asked for it
again. The mapping is the identity on `status`, `printed` and `excused`; what there is
to show is that every statement, with everything it does not test, is one of
those steps.

### `TableVisits`

Scan `s` creates at most one visit and one session, so scans name both. `at[s]`
says which statement of the scan comes next: `Verify`, then `Join` or `FindNone`,
`Stamp` and `Insert` (the default of `openedAt` is taken before the row is visible
to others), `Reread`, `Discard`, `Mint` or `MintFails`, `CountPhones`, `Displace`.
`req[r]` is a bill request, its dismissal or a settlement between read and write.
`SweepRead` and `SweepClose` are the sweep of abandoned visits. `Order`, `Expire`
and `GrowOld` are the passing of time as far as these handlers can tell.
`RevokeSession` and `RegenerateQr` are the admin's. `Discard` deletes a visit,
which sets the `visitId` of sessions that were minted on it to null
(`ON DELETE SET NULL`), and makes a session that is about to be minted on it fail
on its foreign key.

Abstracted: the 30-minute idle window and the two-hour expiry are one action,
`Expire`; who may settle and with which `force` flag does not matter to the visit;
the orders of a visit are only what keeps it fresh. `Settlement` has the orders and
abstracts the scans.

### `OrderPlacement`

`cart`, `key`, `awaited`, `page` and `session` are what a phone holds: the cart is
kept in `localStorage`, the key in the memory of the page. `req[r]` is a submission
the server works on, `orders` the rows in the order of their inserts; `open`
(how many are in the kitchen) and `recent` are what the two caps count. A dish stands for one tap of "add", so
that "ordered twice" can be said.

| Action | Code |
|---|---|
| `Add`, `Submit`, `GiveUp`, `AnswerHeard` | `CustomerApp`: the key is drawn at the first submission (`??=`), kept when `fetch` rejects or the answer is bad, forgotten with the cart when it is good |
| `Reload`, `Rescan`, `NoticeEnd` | the page is loaded again (`Load`: the cart comes back, the key does not), the table's code is scanned, the live stream reports a revoked session |
| `CheckSession`, `LookForReplay`, `CountRecent`, `CountOpen`, `ReadMenu` | `POST` up to the insert, a statement each; the two counts are tested together after the second |
| `ReadNumber`, `Insert`, `InsertReplays`, `InsertCollides` | an attempt of `createOrderWithNextNumber`: the transaction reads the highest number and inserts, at READ COMMITTED, so other inserts fall between the two; one of the two unique indexes may refuse the row |
| `AnswerDropped`, `Dies` | the page gave up before the answer came; the request or the process is cut off at any statement |
| `Leave`, `Revive` | an order is served, rejected or withdrawn; a request of the desk that read an order before that writes it by id, and it is in the kitchen again |
| `Age`, `EndSession` | what the clock and the admin do to what this handler reads |

A row can violate both unique indexes at once, and PostgreSQL does not promise
which it reports: `InsertReplays` and `InsertCollides` are then both enabled.
Not modelled: taking a line out of the cart again, prices and modifiers (a
menu that does not fit is the answer `"refused"`), requests without a key, which
only older clients send, and the ledger of attempts. `MenuCache` has the menu of a
phone, the lines of its cart and what of them the handler refuses.

`OrderPlacement` implements `OrderBook` (`KeepsOrderBook`): the kitchen's book has a
page for each ticket number, pages are only added, in order, what is on one page is
on no other, and a cart is emptied of what is in the book. The mapping reads the
book off the numbers the orders carry (`Pages`), not off the order of their inserts,
so two orders under one number, or a skipped one, would be no step of `OrderBook`.
The exceptions are part of the promise, and are named by what the phone did: dishes
that were added while an answer was outstanding, and pages that went meanwhile.

### `Settlement`

`order`, `visit` and `phone` are the rows; `req[c]` is, for a till, the dialog it
shows and the request it has sent, and for `Sweeper` the sweep. Other requests
(placing, withdrawing, moving an order, asking for the bill and taking that back,
scanning the code) are between their read and their write in `ops`. A bill is a function from the
orders on it to what each is worth, so that a total is wrong for some prices iff
the functions differ.

| Action | Code |
|---|---|
| `Submit`, `Place`, `AskWithdraw`, `Withdraw`, `AskMove`, `Move`, `Edit` | the writes to an order of the visit, conditional or not as in the code; `Edit` is the transaction alone, which tests again all it read but that a line is left (`orderEdit.ts:92-96`), so two edits may empty an order |
| `AskStatus`, `PutStatus` | `requestBill`, `clearBillRequest`: an update by id after a check |
| `OpenBill`, `Dismiss`, `Press` | `DeskBoard`'s dialog; "close anyway" is offered after a refusal |
| `BillOrders`, `BillLines` | `buildBill`, for the dialog, the settlement and the sweep: the orders, then their lines |
| `FindVisit`, `CountInFlight`, `Close`, `Revoke`, `Commit` | `settleVisit`: the read, the count of orders in flight, the conditional close (which locks the row), the statement that revokes the sessions there are (`gone`), and the commit, which shows all that was written |
| `SweepFind`, `SweepClose` | `closeAbandonedVisits`: the read, and the update by id |
| `Publish` | `visit.closed` to the streams of the table; the filter of the stream names the table, not the party |
| `Scan`, `Mint` | `mintSession`: the read that finds the visit open or not, and the insert of the session, on a visit that may be settled by then or about to be |
| `Expire`, `Restart` | phones go, the process ends: transactions roll back, tills keep their dialogs |

"cooking" stands for accepted, preparing and ready, and "open" for open and bill
requested, which nothing here tells apart.

### `StaffAccounts`

A browser (`cookie`) works on one request at a time (`req`). Everything but a login
begins with `getStaff`: a hit of the cache, or `LookUp` and `Fill`, between which
anything may happen. `updateStaff` is `FindTarget`, `CountOthers`, `Write` and
`Invalidate`; a change of one's own password is `Compare`, `Change`, `Invalidate`
and `Reissue`, which reads the version again for the new token. Time is counted in
ticks: an entry lives `ACCOUNT_CACHE` of them, a lookup takes at most `MaxRead`.
The screens' inputs are what `StaffPanel` can send: its list may be out of date, so
any button may name any account, and its form always names a role.

### `LiveBoard`

A view (`orders`, `bills`) shows the database as of the change numbered `shown[v]`,
or a guess. `pub` are changes that are committed and not yet announced, `inbox`
events on their way, of which several may be under way and arrive in any order, and
so may the answers to loads (`Show`): the screen takes whichever comes last.
`stream` is opening until the server has subscribed it, and dead before the browser
notices; `connected`, which is true from the start, and `loadError` are the flags
behind the banner. A load has two ways to end badly: `LoadFails`, without an answer or
with an error, raises the banner over the orders, while `LoadCut`, whose body breaks
off after its status was read, sets nothing (`await res.json()` is outside the
`catch`). `ShowAll` is the checkbox "last 24 hours": the effect runs again, with
another stream and two loads. Under which of its two settings an answer was asked for
is not told apart, so an answer to the other one counts as current. A load that is
answered 401 leaves the screen for the login page and is not followed.
`After` is what the four kinds of button load when they are answered. The stream's serializers read the database before they send, so an
event is a hint whose contents the desk's screen does not use; that is all of
`lib/sse.ts` that matters to it.

### `MenuRows`, `MenuBoard`, `MenuCache`

`MenuRows` has the rows and the handlers of `app/api/admin/items` and
`.../categories`: `Check` is what a handler reads first, one action for each kind of
write, `WriteFails` a statement whose row has gone or whose foreign key the database
enforces, `Announced` the event and the answer. What a request asks for is a record
of `Changes`; a full edit writes all fields of its form and gives the options of the
dish new ids (`version`).

`MenuBoard` adds the tabs. `Toggle` is SWR's optimistic `mutate`: the list shows the
switch at once, on top of the list before the switches still in flight
(`committed`); `Answered` puts that list back, since the update function returns
what it was given; `Reload` fetches. A form is a copy of a row of the list, as old
as the list, and a `guess` if the row then shows a switch that was not answered.

`MenuCache` adds the entry of `lib/menu.ts`, which is a pending load, a menu or
nothing, and the statements of a load (`ReadCats`, `ReadItems`): an event drops the
entry (`Dropped`), a load that ends fills it only if it is still its own, a load
that fails deletes it whoever's it is. A phone loads its menu on opening, on an
event, on focus, after a refused order and, with `errorRetryCount`, after a
failure; its cart keeps lines under the options that were shown when their dish was
opened, and the handler of an order reads the dishes (`ReadDishes`) some time
before it inserts (`InsertOrder`).

## 3. The runs

| Run | Instance | What it shows |
|---|---|---|
| `desk_edits` | two coffees and a cake, two desk requests, the ticket jobs, no faults, fair jobs | edits computed side by side leave audit rows that can be read as a history of the lines, and a stored total that is stale only upwards; an accepted order gets its ticket |
| `desk_faults` | two lines of one dish, one piece each, edits of up to two entries, two requests, one withdrawal, faults | a withdrawal never takes back an accepted order; no amendment ticket before an unmarked one; nothing is edited outside the kitchen; the inductive invariant |
| `bridge_agents` | one ticket, two agents, two overlapping sweeps, two attempts, fair | a second copy needs an excuse; a ticket fails only when they are used up; every ticket settles |
| `bridge_batches` | two tickets in a batch, two agents, one attempt, one "print again" | every step is one of `TicketLife`'s; the inductive invariant, in it that "sent" means printed (`SentWasPrinted`) |
| `visit_till` | two scans, two requests, the sweep, restarts, cap of one phone; a third scan while the visits are new and nobody asks about them (`ThirdScanUndisturbed`) | settlement is final except through a late bill request; racing scans never all discard; the inductive invariant |
| `visit_freed` | two scans, one bill request, one reset, no till, no restarts, fair | a table becomes free without anybody's doing; the cap of phones is exceeded only by scans on their way |
| `placement_phone` | one phone with two submissions at the server, two dishes, a cap of one open order, two attempts | a dish is ordered once unless its page was left while it held a key; the cap is exceeded by less than the submissions at work, leaving aside orders that a late update of the desk has brought back; every step is one of `OrderBook`'s; the inductive invariant |
| `settlement_till` | one order of one line, one phone, one till, the sweep, two other requests at a time, of which one while the sweep is at work (`SweepMeetsOneRequest`), restarts | a settlement is exact about what does not change under it, and records what the dialog showed unless an order changed; a phone that thanks its party is done; the inductive invariant, which says the same of the kitchen and the sweep |
| `staff_accounts` | two accounts of which one is an administrator, two browsers, a cache of two ticks, lookups of up to one, two revoking changes, restarts | revocations land within the cache's life and a lookup; good tokens follow the password; the last administrator goes only by overlapping updates; the inductive invariant |
| `live_board` | one change of each view, two loads of each under way, one fault or use of the checkbox, a first stream that may be subscribed late, fair | a quiet screen without a banner is current, with named excuses; guesses are reconciled, unless the load that would do so is cut off; the poll brings both views up to date; the inductive invariant |
| `menu_tabs` | one tab, two requests at the server, two dishes, three categories, three presses | a dish is put back on sale by an edit only if its form was filled from a list older than that, or from a switch nobody had answered; orders and dishes keep what they refer to, but for an order that raced the deletion |
| `menu_phones` | one phone, one dish, one press, two loads of the cache, one retry, two faults, fair | when the events are out the cache is current; so is a phone that was sent them; nothing that was sold out when an order was sent is served; the phone catches up; the inductive invariant |

Every module's `InductiveInvariant` contains its `TypeOK` and those of its invariants
that have no name of their own in a run (`NumbersHaveNoGaps`, `KitchenDone`,
`StaleOnlyByRace` and others), so the runs check these as well. `MenuCache`'s
`TypeOK`, `MenuBoard`'s `BoardTypeOK` and its `BoardInvariant` are in no run; they pass on
the instances above.

**Why these bounds.** The races of `OrderDesk` are between two requests, or a
request and a withdrawal or a job; a third request adds no kind of step. One line
of two and one of one give a reduction, a removal, and edits of the same and of
different lines; two entries give an edit that names a line twice. For the outbox,
two agents, one claim that expires and is drawn again (`MAX_ATTEMPTS = 2`), and
batches larger than one cover every overlap of a poll with a print, an ack, a
sweep and a retry. For visits three scans are needed,
because the visit the second discards can have been joined by a third, whose session
the foreign key then refuses (`MintFails`). `visit_till` follows the third scan only
while the visits are new and nobody asks about them (its `CONSTRAINT`): the requests
and the sweep meet every interleaving of two scans, and the proof has no bound;
settling a visit twice
(`MaxSettled = 2`) is enough to see that it happens.

For placement one phone
already has two submissions at work once it has given up on the first, which gives
every race of a submission with its own repetition, with its successor under
another key, and with another order for the number; that its rivals may be other
phones changes nothing the server can see (the run also passes with two phones,
two sessions and two keys, which takes TLC twice as long, and the proof is for any
number). Three keys (`MaxKeys`) are an order, a reload and the same cart again, and
one more; one session (`MaxSessions`) that can end at any statement; one order at a
time that has been brought back (`MaxRevived`), which is all it takes to exceed the cap.

For a settlement the races are between the till, the sweep and one order's writes;
`MaxOps = 2` lets two of those be under way at once, a scan among them, but only one
while the sweep is at work (its `CONSTRAINT`; without it, 9.9 million states, the run
passes too, in more time than a run should take, and the proof is without it); an order
of one line can change its worth once and no more. Two tills that settle side by side are in the
proof, and in `visit_till`. Two browsers and two accounts are an administrator and
whom they manage, or two administrators who demote each other once one has promoted
the other; a version can be overtaken twice. A cache of two ticks and a lookup of
one are the smallest with an entry that is neither new nor gone. On the screen one
change of each view is enough for an answer from before it to overtake one from
after it. On the menu, one change with two loads gives a load that starts before
it, ends after it, and meets its successor; `menu_phones` with two changes
(`MaxPresses = 2`, 13.2 million states) passes too, in more time than a run should
take. `menu_tabs` has three presses: a switch off, a switch that is lost, and the edit
saved from a form opened on it, which is why `OnlyStaleFormRevives` speaks of guesses. One
tab with two requests gives every overlap of the handlers; two tabs with two presses
(2.8 million states) pass too, and the proof is for any number of both.

The other bounds: `MaxRetries` (uses of "print again"), `MaxResets` (regenerations
of the code), `MaxFaults` (failures of any kind, and in `LiveBoard` uses of the checkbox, each of
which starts the poll's minute anew). The proofs hold for every value of
all of these.

**Deadlock.** TLC looks for deadlocks in `BridgeOutbox`, `Settlement`,
`StaffAccounts` and `LiveBoard`, whose timers never stop. An order comes to rest, a
table too when its scans have all happened, and so do the menu and a phone's page
once the presses are used up and nobody orders: `OrderDesk`, `TableVisits`,
`OrderPlacement`, `MenuBoard` and `MenuCache` are checked with
`CHECK_DEADLOCK FALSE`.

**Fairness.** `OrderDesk`: weak fairness of the ticket jobs only, which run on the
event loop once started; nobody has to press anything. `BridgeOutbox`: the agents'
poll timer, the handlers, the sweep's timer and the clock go on; prints may always
fail, messages may always be lost, agents may crash with every batch, so that
`EveryTicketSettles` rests on attempts being counted when a row is claimed, not
when it is acknowledged. `TableVisits`: a scan that has begun goes on, sessions
expire, time passes and the sweep's timer fires; nobody has to order, ask or
settle. `OrderPlacement` claims no liveness: whether a submission is answered is up
to the network. `LiveBoard`: the poll's timer fires, which the checkbox sets
back only as often as `MaxFaults` allows, loads are served and their answers arrive
whole after the last fault; the stream may stay down for good. `MenuCache`: handlers, loads and
the browser's retries go on, which SWR makes only while the page is visible and online
(a page that comes back refetches by `Focus`, so the claim is about a menu in view); an answer that newer requests keep voiding arrives
sooner or later (strong fairness of `Show`), for a customer may press faster than
answers come, but not always. `Settlement`, `StaffAccounts` and `MenuBoard` claim no
liveness: everything in them waits for somebody to press something. But for `Show`,
all are weak fairness of steps that a timer or the event loop takes.

## 4. Proofs

Everything below is proved by `tlapm` for all values of the constants, under the
`ASSUME`s of the modules only: bounds are natural numbers, `Placed` is a positive
quantity per line, scans and submissions at work are finitely many and are not
`None`, `None` is no number, the limits of `POST /api/orders` are at least one, the
sweep is no till, the first administrators have accounts, an entry of the account
cache lives at least a tick, an order is worth something, the ids of dishes and
categories differ, and the rows that exist at first are among them.

| Module | Theorems |
|---|---|
| `OrderDesk_proofs` (for `FaultySpec`, hence for `Spec`) | `TypeCorrect`, `Invariance`, `CancelNeverBeatsAcceptHolds`, `StoredTotalCoversBillHolds`, `AmendmentFollowsTicketHolds`, `AuditExplainsQuantitiesHolds`, `LinesOnlyShrinkHolds`, `BillFrozenHolds` |
| `BridgeOutbox_proofs` (for `Spec`) | `TypeCorrect`, `Invariance`, `ClaimIsWholeHolds`, `AttemptsBoundedHolds`, `PrintedOnceHolds`, `SentWasPrintedHolds`, `FailedOnlyWhenExhaustedHolds`, `ImplementsTicketLife`, `SentStaysHolds` |
| `TableVisits_proofs` (for `FaultySpec`, the last for `Spec`) | `TypeCorrect`, `Invariance`, `OldestVisitSurvivesHolds`, `RereadCatchesOlderVisitHolds`, `SettlementIsFinalHolds`, `CountedPhonesFit`, `SeatsBoundedHolds` |
| `OrderPlacement_proofs` (for `Spec`) | `TypeCorrect`, `Invariance`, `NumbersHaveNoGapsHolds`, `OrderedOnceHolds`, `ClearedWasOrderedHolds`, `OpenOrdersBoundedHolds`, `FailsOnlyForRivalsHolds`, `ImplementsOrderBook` |
| `Settlement_proofs` (for `Spec`) | `TypeCorrect`, `Invariance`, `BillIsExactHolds`, `KitchenDoneHolds`, `CollectedIsRecordedHolds`, `WallMeansOverHolds`, `PaidWasBilledHolds`, `SweepTakesAbandonedHolds` |
| `StaffAccounts_proofs` (for `Spec`) | `TypeCorrect`, `Invariance`, `RevocationLandsHolds`, `StaleOnlyByRaceHolds`, `TokensFollowPasswordHolds`, `LastAdminStaysHolds` |
| `LiveBoard_proofs` (for `Spec`, hence for `FairSpec`) | `TypeCorrect`, `Invariance`, `SilentScreenIsCurrentHolds`, `GuessIsReconciledHolds` |
| `Menu_proofs` (`MenuCache`, for `Spec`) | `Invariance`, `CacheIsCurrentHolds`, `SilentPhoneIsCurrentHolds`, `SoldOutNotServedHolds` |
| `Menu_proofs` (`MenuBoard`, for `BoardSpec`) | `BoardInvariance`, `OnlyStaleFormRevivesHolds`, `ReferencesHoldHolds` |

Each rests on the module's `InductiveInvariant` (`MenuBoard`: `BoardInvariant`), proved
with one lemma per action and checked by TLC in a run as well (`BoardInvariant` by hand). What has to be added to the properties:

- **`OrderDesk`** — `SoundEdits`, about edits that have been computed and not
  committed: they only lower quantities, the total of one that names each line at
  most once covers what it leaves (also after another edit has lowered the
  lines it does not name), and if it is marked after-print there *is* a ticket.
  `AcceptedIsPastReceived` with `MovesForward` gives `CancelNeverBeatsAccept`. The
  audit property needs the chain for every prefix of the rows, hence `Explains`; the
  reading it asks for is extended, at a commit, by the lines the request was computed
  from, so no history variable is needed.
- **`BridgeOutbox`** — `RegularUnlessExcused`: as long as nothing went wrong with a
  ticket, it has at most one owner, a ticket in an agent's hands has not been
  printed, and an acknowledgement in flight is of its one print. `ClaimsDrawn`
  makes the owner unique: a `claimId` belongs to one poll. `OkAcksWerePrinted`
  gives `SentWasPrinted`. `CountsRead`: the count an acknowledgement has read is never
  ahead of the row's as long as nobody sets it back, hence a ticket it gives up has used
  up its attempts (`FailedOnlyWhenExhausted`, which is about `retries = 0`).
  `ImplementsTicketLife` maps each statement: a poll's update is `HandOut`, for a row it
  wins waits or had its claim expire; a print is `ComeOut` since its agent owns the ticket;
  a good acknowledgement is `Settle` since its ticket was printed, or a stutter when
  another has settled it; a bad one and the sweep are `TakeBack`, for a ticket that is
  `Regular` meets neither. `SentStays`, that a ticket leaves "sent" only with an
  excuse, follows from that alone.
- **`TableVisits`** — `OpenedApart` (opening times differ and precede visibility),
  `ScanProgress` (what a scan at a given statement has created), and
  `LoserHasElder`: whoever discards a visit has seen an older one. The oldest visit
  of all hence has nobody to lose to. `Seated`: a scan that has counted the phones has
  room for each of them up to its own that it is not about to displace, whoever comes
  later. Of the phones whose scans have ended take the first and the last: the others
  lie between, and the last one's scan left fewer than the cap there
  (`CountedPhonesFit`). The remaining live sessions belong to scans that have yet to
  count or displace, unless a restart has cut those off (`LiveIsCounted`, under `Spec`),
  which is `SeatsBounded`.
- **`OrderPlacement`** — everything about keys is said of `Sent`, the bodies of all
  orders and of all submissions at work, which only `Submit` adds to. `SentApart`: one
  key is used in one session, so that an index on (session, key) is as good as one on
  the key; bodies under different keys share only dishes adrift. `SentFromCart`: what
  was sent under the key a page holds covers its cart but for late dishes, hence a
  replayed answer may clear it. `TriesHaveRivals`: an attempt that collides has met an
  order inserted since its read, so attempts never outnumber orders; with
  `NumbersHaveNoGaps` a number that is free is the next one. `PassedTogether` counts
  open orders that never left the kitchen and submissions past the cap in one sum;
  `Revive` adds to both sides of `open - revived`. `ImplementsOrderBook` shows
  that the initial state is one of `OrderBook`'s and every step one of its steps or a
  stutter; an insert is `Take` because the number is the next one and the rows have no
  gaps, an answer is `Clear` because of `ClearedWasOrdered` and `CartsApart`.
- **`Settlement`** — `ReadRight`: what a settlement has read of an order is so unless
  the order crossed it, at each of its statements. `ShowsBill`: a dialog that is not
  outdated shows what the bill would be, and its settlement computes the same; this
  has to be said of the two statements of `buildBill` one by one. `LockHolds`: the
  row's lock lets one settlement commit, and it commits over an open visit.
  `LeavesNobody`: a phone that is not of the sessions a settlement revokes is of no
  party, or came after that statement; so whoever is about to announce a close leaves
  no phone behind but those that came since.
- **`StaffAccounts`** — `FollowsPassword`, of cookies and of tokens about to be cut:
  not newer than the account, and if as new, then for its password. `ReadRight`: a
  lookup is superseded no longer than it runs. `CountRight`: an update that removes an
  administrator has counted another one and has not been overtaken, or says so.
  `VersionsCounted` bounds versions by the changes made.
- **`LiveBoard`** — `Hope`: a view that is not current is about to be loaded, or an
  event about it is on its way, or the screen owes it a load, or the banner is up.
  `NotAhead`: nothing shows, or brings, what has not happened yet, without which a
  load that is answered could not be told from one to come.
- **`MenuCache`** — `CacheRight` and `PhoneRight` say when the events are out what
  the properties say, also of loads that have read the categories and not the dishes,
  and of phones that wait for them. `OrderRight`: of the dishes of an order found on
  sale, one that is off sale by now went after the order was sent.
- **`MenuBoard`** — `ListRight`: the list a tab falls back on (`Believed`) shows a dish on
  sale only if it was when the list was fetched, so that a dish that is off by now went
  later; the list on display has no dish the other lacks. `FormRight` says the same of a
  form that is no guess, and `EditRight` of the request that saves it.
  `ReferencesHold` needs that a deletion that has counted no order meets
  only orders that came since (`raced`), and is otherwise the database's foreign key.

The lemmas in the proof modules also cover `Init` and stuttering; the temporal
steps close by PTL.

**Only model-checked:** the liveness properties (`KitchenGetsTicket`,
`EveryTicketSettles`, `TableFreed`, `BoardCatchesUp`, `PhoneCatchesUp`), which need
`ENABLED`; and `MenuCache`'s `TypeOK` and `MenuBoard`'s `BoardTypeOK`, whose bound of the
clock by the presses is a count over requests (`Shapes` and `BoardShapes` are what the
proofs need of types). Every invariant that a run checks is a theorem.

## 5. What is not modelled

`PROJECT.json` has an entry for each.

- *Push side of the outbox.* The one push adapter in the repository writes tickets to
  the console and cannot fail; its inline attempt and the sweep may both deliver a
  row (`outbox.ts:79`).
- *Rate limiter and the ledger of attempts.* Counters by address that no other part
  reads.
- *Reports.* Read-only sums over closed visits by venue day.
- *Retention and health.* Deletions of old rows by age, and a report of times.
- *Deleting tables, rotating the venue's secret.* Single statements, that end every
  code at once as `RegenerateQr` ends one.
- *The event streams of the phones' orders, and the admin's panels that poll.* They
  load what they show, as the desk's screen does in `LiveBoard`.
- *Not at all:* byte layout of tickets, the Windows print shim, photos, signing, the
  layout and the languages of the screens, paging, money and texts, build scripts.
  These are pure output, cryptography or file I/O, without state that another part
  of the system reads back.

Beyond a database's guarantees the models assume that the process is the only
writer ("Run one application process" in the repository's README), that two visits
are not opened in the same millisecond, and that the interval for which a visit
stays fresh outlasts a session and a scan. `StaffAccounts` assumes that a lookup of
an account ends within `MaxRead` ticks; `RevocationLands` is as good as that bound.

## 6. Divergences met while modelling

Each of these is stated at the end of its module and is violated within seconds
when one adds it to a configuration of a run of the same module, `OneOpenVisit` and
the settlements and `LiveSessionHasVisit` to that of `visit_till`.

| Definition | What happens | What the repository says |
|---|---|---|
| `WithdrawalStands` | the desk reads "received"; the phone withdraws and is told so; the desk's update, by id, writes "accepted" | `cancel/route.ts:34` "a cancel racing the desk's accept, must not both win" |
| `AckSettlesOwnClaim` | agent A's claim expires, agent B is served the row, A's acknowledgement arrives: the route tests the status, which is "claimed", and not whose claim it is | `ack/route.ts:16` "the claim we handed out" |
| `OneOpenVisit` | the newer visit is inserted and re-read before the older one is visible; both are kept | `visit.ts:78` "a table never ends up with two open visits" |
| `StoredTotalMatchesLines` | edits of different lines both commit; the later total was summed over the lines before the earlier | `desk/bills/route.ts:27` "kept current by the order-edit path" |
| `OrderKeepsALine` | two edits each void the line the other leaves | `orderEdit.ts:89` |
| `OneUnmarkedTicket` | two accepts checked against the same read | `items/route.ts:32` "not handed an unmarked second ticket" |
| `PaperShowsOrder` | an edit reads before the ticket is stored and commits after it was rendered, so no amendment follows | `orderEdit.ts:104` |
| `NoTicketMissed` (`FaultySpec`) | the insert of a ticket fails or a restart cuts it off; the sweep reads the outbox only | `outbox.ts:172` "the sweep picks up anything this misses" |
| `FailedOnlyWhenExhausted` (`MaxRetries = 1`) | the admin's retry falls between the read and the write of the last ack | `retry/route.ts:5` |
| `OneSettlement` | a bill request read before the close writes the visit open again, and it is settled twice | `visit.ts:190` |
| `LiveSessionHasVisit` | a third scan joins the visit the loser deletes | `tableSession.ts:30` "null only for pre-visit sessions" |
| `PaidPhonesStop` | a scan mints its session on a visit settled meanwhile | `visit.ts:237` "their phones must not keep ordering" |
| `AbandonedWasNotSettled` | the till settles between the sweep's read and its write by id, which makes the visit "abandoned" | `schema.prisma:84` |
| `AbandonedPartyIsGone` | a phone joins in the same window | `schema.prisma:84` |
| `OpenOrdersWithinCap` | two submissions count before either inserts; or an order is withdrawn, another is admitted, and the desk's update, by id, brings the first one back | `README.md:55` "ten open orders per table" |
| `OrderedOnce` | the answer is lost, the page is loaded again, and the cart it still has goes out under a new key | `CustomerApp.tsx:51` "only cleared once an order is actually placed" |
| `ClearedMeansOrdered` | a dish is added after a lost answer; the retry is answered with the first order, and the dish is cleared with the cart | `orders/route.ts:57` "as if this were the original request" |
| `ResetIsTotal` | a scan verified before the code was regenerated mints afterwards | `tables/[id]/route.ts:14` "the reset is total" |

In the other modules the exceptions are part of the properties, and their history
variables name them. What they stand for:

*Staff accounts.* Two updates that each see the other administrator remove both
(`LastAdminStays`; `staffAdmin.ts:108`). A lookup that began before a change fills
the cache after it was invalidated, so that a revocation takes effect not "at once"
(`staffAuth.ts:41`) but up to the cache's life and the lookup's duration later
(`StaleOnlyByRace`, `RevocationLands`). A reset or a sign-out everywhere that comes
between a change of one's own password and its new token is undone for that browser,
since the version is read again (`TokensFollowPassword`; `password/route.ts:43`). The
edit form sends the role its list showed with every edit, changed or not
(`StaffPanel.tsx:152` "Only send what changed").

*Bills.* An order that is withdrawn or rejected between the bill and the commit is in
the total and marked paid (`BillIsExact` excepts orders that crossed the settlement).
The dialog's total is as old as the dialog; the till records its own
(`CollectedIsRecorded`). The next party's phone may be thanked for the visit before,
for the event is filtered by table; and so may a phone whose scan found the visit open
and minted its session after the statement that revokes them (`visit.ts:238`), whose
session is live for all that (`WallMeansOver` excepts both, in `between`). The sweep writes over a
settlement that came since its read (`SweepTakesAbandoned`).

*The desk's screen.* When the stream is up again the banner goes and nothing is loaded
until the next event or poll (`DeskBoard.tsx:116`); a failed load of the bills raises
no banner (`:103`), nor does an answer whose body is cut off, for `res.json()` is
outside the `catch` (`:94`); an older answer may replace a newer one, and take the
banner down with it (`:94`); before its first stream is subscribed the screen counts as
connected (`:85`), and what is published then is lost; how a ticket fared at the printer
is published nowhere. All of these are excuses of `SilentScreenIsCurrent`, against the
comment at `DeskBoard.tsx:82`, and last until the next poll (`BoardCatchesUp`). A card
moved ahead of a server that refused likewise stays moved till then when the load that
follows the refusal is cut off (`GuessIsReconciled`, `cut`).

*The menu.* Saving any field of a dish sends the switch its form was opened with, and
so puts a dish that another tab has taken off back on sale (`OnlyStaleFormRevives`;
`items/[id]/route.ts:46`). An order between the count of a dish's orders and its
deletion loses its reference (`ReferencesHold`; `MenuTab.tsx:274` "hidden instead if it
appears in past orders"). A phone whose stream was down when the menu changed is not
told (`SilentPhoneIsCurrent`, `behind`). Two more follow from the actions of
`MenuCache` and are no property of it: an edit gives a dish's options new ids, so a cart
filled before is refused for good with no new menu (`orders/route.ts:111`); and a
line whose dish has left the menu is not listed and cannot be taken out, and yet is
submitted (`CartSheet.tsx:46`).

The properties in the section "What the code keeps true" are what remains of these
claims: they say exactly how far each one can be off.

## 7. Plan

Done: the modules of section 2, each with its theorems. What is left,
in the order in which it would add most:

1. An abstract visit (open, closed once, paid for what was on its bill) that
   `TableVisits` with `Settlement` implements.
2. A push adapter, once there is one that can fail.
3. The rate limiter at `MAX_KEYS`, paging and the windows of the reports as operators
   against reference definitions.
