# TPV-Moderno, specified

TLA+ models of TPV-Moderno (a point of sale for shops and restaurants), checked
with TLC and, where it matters most, proved with TLAPS. The backend is a FastAPI
process over PostgreSQL (`src/backend/app`); around it are web clients for the
till, the kitchen, the waiter and the back office (`src/frontend`). Every handler
is one database transaction at READ COMMITTED, and almost everything that can go
wrong is in what two transactions do to the same rows, in what a retry repeats,
and in what a client believes meanwhile.

## 1. Inventory

Paths are under `src/backend/app` unless they say otherwise.

| Component | State | Operations | Talks to | What is hard | What makes it correct | Here |
|---|---|---|---|---|---|---|
| Sales (`services/sales.py`) | orders, lines, payments, refunds, sale events | create, edit lines, charge, void, refund | cash session (row lock), series, keys, kitchen hooks, fiscal outbox, event log, drawer | edits racing with a charge, two charges, refund of a refund, crash around the commit | charged = lines = payments; settled is history; one refund; one event per transition; one drawer pulse | `Till`, `Ledger` |
| Cash (`services/cash.py`) | sessions, movements, counts | open, move, count, close (Z) | sales (same session row) | a charge that reaches a session being closed; two openings | the Z stays true; one open session per terminal | `Till`, `Ledger` |
| Idempotency (`services/idempotency.py`) | key, request, frozen answer | look up, freeze, replay, expire | every money handler | two retries at once; a retry that meets its own effect | one effect per stored key; the frozen answer stays true | `Till`, `Ledger` |
| Numbering (`repos/documents.py`) | one counter per terminal and series | next number | charges, refunds, invoices | a transaction that took a number and fails | no gap, no repeat | `Till`, `Documents` |
| Kitchen (`services/kitchen.py`, `domain/kitchen.py`) | ticket, its lines, their states | sale hooks, line and ticket buttons | order row, event log | the display's handlers lock nothing before they write; the header is derived | header = f(lines); terminal states last; kitchen lines = sale lines | `Kitchen` |
| Event bus and feed (`core/events.py`, `services/events.py`, `api/v1/ws.py`) | event log, staged envelopes, queue and outbox per connection | record, publish, subscribe, replay, pump | every handler; web clients | ids given before the commit; bounded queues that drop; replay against live | nobody sees an uncommitted event; nothing is lost silently | `Feed` |
| Kitchen display (`src/frontend/kds/src/screens/BoardScreen.tsx`) | board, hub state, timers, reads on the way | read on event, poll when down | REST, feed | stale answers; the moment the poll stops | the board catches up | `Feed` |
| Printing (`services/printing.py`, `domain/printing.py`) | jobs: state, attempts, next try | enqueue, dispatch, confirm, retry, cancel | printers, feed (printer down) | two dispatchers; crash between send and commit; retry limit and backoff | every hand-over is a counted attempt; done is done; one alert | `PrintQueue` |
| Tables (`services/restaurant.py`) | zones, tables, draft per table, bill state | open, transfer, merge, split, bill, layout | orders, kitchen | two tables locked at once; lines moved while charged | no unit lost or doubled by a move; a charged ticket keeps its lines | `Floor` |
| Documents (`services/documents.py`) | invoices, their lines, series, reprints | issue, void, rectify, reprint | orders, series | two invoices of one sale; void against rectify | a sale on one invoice; a refund taken off once | `Documents` |
| Fiscal outbox (`services/fiscal.py`) | sale events, fiscal documents | claim, submit, record the answer | regime (adapter), sales | two passes; a pass that dies after the regime accepted; adapter failure against rejection | nothing is sent twice or forgotten | `Fiscal`, `Paperwork` |
| Authentication (`services/auth.py`) | sessions of refresh tokens | login, refresh, logout | every request | two refreshes with one token | a token that was exchanged is refused | `Access` |
| Accounts (`services/accounts.py`) | users, roles, permission matrix | create, edit, credentials | sessions | the permissions that let an edit in change meanwhile | no lost update | `Access` |
| Terminals, devices (`services/infrastructure.py`), payment methods (`services/payments.py`) | rows | create, edit, deactivate, rotate a token | — | two forms over one row | no lost update | `Access` |
| Catalog (`services/catalog.py`) | departments, categories, tiers, products, prices, barcodes, taxes, panels, buttons | create, edit, delete, reorder, version | till (reads) | check, then write, without locks; rows replaced as they were found | one price in force; history append-only; a tax without gaps | `Catalog` |
| Phone outbox (`src/frontend/mobile/src/state/outbox.ts`) | queue of openings and lines, their orders | tap, flush, resend | keys of the server | answers lost, flushes that overlap, reloads | nothing sent twice, nothing lost in silence | `Outbox` |
| Reports, backups, audit trail, hardware adapters, till and back-office screens, deployment | — | read-only SQL, external tools, input and output, forms | — | little that has state | — | not modelled (section 7) |

`PROJECT.json` lists the same components with their files and status, and the
hazards found in the code with the line where each bites and the property that
would catch it.

## 2. Plan

Done: the till and its abstract ledger, the kitchen, the feed, the print queue,
the dining room, invoices and fiscal passes, the back office, and the phone's
outbox; and the proofs of section 5. What is left, in order:

1. Pure functions: the settlement of a payment, the amounts and taxes of a line,
   the backoff of a printer, checked against reference definitions.
2. Reports: what an X or a daily report adds up to, over the rows of `Till`.

## 3. The models

### Till (`Till`, `TillInv`, `TillProofs`, `MCTill`)

A worker is a request handler and its transaction. `Begin` receives a request
whose key, if any, is free (a live key answers from the frozen row and changes
nothing). The handler then runs the statements that lock, in the order of the
code:

| Statement | Code | Actions |
|---|---|---|
| order row, `FOR UPDATE`, then the status checks | `get_order_for_update` | `LockOrder`, `RefuseOrder` |
| cash session row, then open and same terminal | `_cash_session_for_sale` | `LockCash`, `RefuseCash` |
| series row | `next_number` | `TakeNumber` |
| entry in a partial unique index (table, till) | `create_order`, `open_session` | `ClaimSlot`, `RefuseSlot` |
| primary key of `idempotency_keys` | `idem_store` | `StoreKey`, `ReplayAfterConflict` |
| commit | one action per handler | `CreateOrder`, `AddLine`, ... `CloseSession` |
| drawer pulse, after the commit | `close_order` | `OpenDrawer` |

Writes appear at the commit, which is what READ COMMITTED lets others see.
`Abort` is any exception or crash before the commit. `OpenDrawer` may never run:
a crash after the commit loses the pulse and nothing else.

Abstracted: an article costs one unit, so an amount is a quantity; no tax,
discount or change; a payment is cash or other. Left out of the transactions
because no handler reads them back: audit rows, printed tickets, event-log rows.
The kitchen hooks are in `Kitchen`. Whether a terminal or a payment method is
active, and who may do what, is fixed.

### Ledger and its refinement (`Ledger`, `TillLedger`, `TillProofs`)

`Ledger` is what the till promises, without requests, transactions or locks: a
book of receipts per terminal, the cash in each drawer, what a Z says, and one
answer per key. Its steps are `Sell`, `GiveBack`, `Cancel`, `OpenTill`, `MoveCash`,
`CloseTill`, `Note` (an order or a line, which is no receipt yet) and `Forget` (a
key expires). `TillLedger` reads the rows of `Till` as that book (an `INSTANCE ...
WITH`) and states `ImplementsLedger`: each commit is one entry of the book, and
every other step of a handler leaves it alone. That numbers have no gaps, that a
sale is given back once, that the cash of a receipt is in the one open drawer of
its terminal and that a key has one answer with one effect all follow, because the
steps of `Ledger` cannot do otherwise. How much a refund may give back is not said
there: the code allows more than was sold (section 6).

### Kitchen (`Kitchen`, `KitchenProofs`, `MCKitchen`)

One order and its kitchen ticket. Handlers of the sale hold the order row for
their whole life (`OrderFree`); handlers of the display (`set_line_status`,
`set_ticket_status`) lock nothing, so a handler is split where another can come
in: `Read` (the rows it loads and the checks), `Flush` (its UPDATEs take the row
locks, then the lines are listed again to derive the header) and the commit.
`seen` is the identity map of the ORM session: a row that was loaded keeps the
value it was loaded with even when it is listed again, which is why two buttons
pressed together derive a header from lines that are no longer so. `Headed`
writes only the columns that differ from what was loaded. Two refusals come
late: a header that may not make the move and the table's CHECK (`RefuseFlush`,
`RefuseStatus`). Stations, priority, notes and the printed order are left out.

### Feed (`Feed`, `FeedProofs`, `MCFeed`)

One topic, one client. `Record`, `Commit`, `Rollback` and `Publish` are the life
of an event: it takes its id at the INSERT, becomes a row at the commit, and is
published by the `after_commit` listener, which is a moment of its own because
others can read the row first. `Connect`, `Subscribe`, `ReadReplay`, `Replay`,
`Pump` are the server's side of a connection: live events start before the
replay is read, and the replay is a read of the database during which the bus
and the pump go on. `Deliver`, `Poll`, `Fetch`, `Answer`, `Fail` are the client.
`Disconnect` and `Restart` may happen anywhere. The board is the set of events
whose effects a GET has seen. A connection is made with `since_id`, as the
documents describe for a reconnection, or without it (`NoSince`), as the clients of
the repository do. Two observers say what the code does not keep: `dropped`, what
a full queue or the replay limit left out, and `unread`, what only a failed read
of the board has seen; a third, `shown`, is what the board has shown at some time.
`Fetch` starts a read whether or not another is on its way, as `scheduleRefresh`
and the poll do, and `Answer` takes any of them, so that an older answer may come
last and take back what a newer one had brought.

### PrintQueue (`PrintQueue`, `PrintQueueProofs`, `MCPrintQueue`)

One printer. A dispatcher is a transaction of four kinds of step: `Start` takes
the time, locks the oldest failed rows (`failed_jobs`) and puts back those that are
due; `Claim` locks the first queued rows, its own among them; `Attempt` counts the
attempt and hands one job to the printer, which takes it or raises
`PrinterError`; `Commit` makes rows and alerts visible. `draft` is what the
transaction has written, `Abort` throws it away, and `sends`, what the printer was
given, stays. Rows another dispatcher holds are skipped (`Unlocked`); operators
and the agent wait for them (`Free`) and change one row in one step. Times appear
as ranks (`sentAt`, `now`), renumbered at every start; `BackoffElapses` follows the
order in which the delays end.

### Floor (`Floor`, `FloorProofs`, `MCFloor`)

The dining room, with the handlers of the sale that meet its moves on the order
row. A request is a list of statements (`Steps`), run one by one by `Advance`: a
statement that locks waits while another transaction holds its row (`Granted`),
checks what the code checks at that point (`Check`), and keeps the row to the end.
`Refuse` is an error response, `Abort` a crash or the victim of a deadlock, and
there is one commit action per handler. `LockTwo` is `_lock_two_tables`, in id
order; the drafts are then found and locked, source and target; what a merge moves
is what it listed after that (`seen`). The foreign key of a new order locks its
table row after the entry of the index, which is why `open_table` may deadlock
with a move to that table. The state of a table is not stored: `Plan` derives it
from the draft. `dishes` is the ticket each line's dish is on, which moves do not
change, and `Board` the filter of the kitchen's query.

### Documents, Fiscal and Paperwork (`BackOfficeProofs`, `MCPaperwork`)

`Documents` has the same shape as `Floor`: clerks run `DocSteps`, with the orders
locked in id order, the series row (`number` is what it took) and the UNIQUE
entries of the invoice lines. Nobody locks an invoice: void and rectify read it
and write later. The amounts of a sale are its VAT summary, a function on rates.

`Fiscal` is a pass of the outbox, one transaction: `ClaimEvents` and
`ClaimDocuments` skip the rows that another pass holds, `Submit` calls the regime
(which is outside: what it accepted stays accepted), `CommitPass` marks events and
documents, `Die` rolls all of it back and counts in `lost` the acceptances nobody
remembers. `Restart` brings the process up under another provider, `"none"`
included, which consumes events and makes no documents.

`Paperwork` composes them: each charge, refund and void of `Documents` leaves, in
the same step, the event `Fiscal` consumes. Invoices and passes share no row, so a
behaviour has the ones or the others (`OfPasses`) and their states add up instead
of multiplying.

### The back office: Desk, Access, Catalog and Office (`BackOfficeProofs`, `MCOffice`)

`Desk` is how every handler of the office edits rows. None locks what it reads:
`Begin` checks the request and keeps the row it read, `Commit` writes, other
handlers commit between the two, and a unique index has the last word (`NoClash`).
The mapper writes only the attributes whose new value differs from the one it read
(`Patched`). Where rows of a second table are replaced (barcodes, buttons, grants,
the price or the tax version that ends), `Gather` runs the statement that finds
them and `Kept` is the table without them; one `Gather` stands for several such
statements of the same handler. `Access` has sessions, users, roles, terminals,
devices and payment methods; `Catalog` what is sold, its prices and taxes, and the
panels. `Office` composes them: a request of the office is let in by the session,
the user and the grants that the handlers of `Access` change (`MayDo`).

### Outbox (`Outbox`, `OutboxProofs`, `MCOutbox`)

The waiter's phone runs one thing at a time, but `flush` waits for every answer,
and meanwhile the waiter taps, the page reloads, and the connection goes and comes
back, which starts another flush (`Reconnect`). `entries` and `serverIds` are saved
at once and survive `Reload`; the rest does not. `Send` to `Finish` is one flush:
what it kept takes the place of the queue. A request can be lost, answered to
nobody or come later than the flush that sent it (`Fails`, `Reload`, `ServeLate`).
A refusal is any answer that is not 2xx (`Dropped`). A ticket begun off line stays
on the screen until the server has its order, and its lines are queued even with
the connection back (`Tap`, `Adopt`). The server answers at once, which is what
`Till` and `Ledger` show of it, and the 24 hours of a key never pass: after them a
resent opening would make a second order. `calm` is true until a flush has met a
tap, another flush or a refusal with another ticket behind it.

## 4. What the runs check

| Run | Instance | Shows |
|---|---|---|
| `till_sell` | 2 workers, 3 orders of 2 lines, 2 sessions of a till, 2 keys, one expires | the charge is exact whatever was edited meanwhile (`PaidExactly`), `OneEventPerTransition`, `DrawerOnce`, `ZFrozen`, and the refinement of the ledger (`ImplementsLedger`: numbers, refunds, receipts, drawers, Z, answers of keys) |
| `till_meet` | 2 workers, 2 tills, a table, 4 orders, fair | `OneDraftPerTable`, `NoLockCycle`, `RequestTerminates` |
| `till_over_refund` | 1 worker | a counterexample to `RefundWithinSale` (section 6) |
| `kitchen` | 2 handlers, 2 lines | `KitchenFollowsSale`, and `KitchenTypeOK` with the table's CHECK, always; `HeaderDerived` and `CalmHistory` until handlers overlap or a dish comes late |
| `feed` | 2 transactions, 2 ids, a queue of 1, 2 reads of the board at once, fair | `NoPhantom`, `FedSince`, `AnnouncedShown`, `EventShown` |
| `print_queue` | 2 dispatchers, 2 jobs, 2 attempts | `SendsCounted`, `DoneForGood`, `AlertedOnce` |
| `floor` | 2 devices, 3 tables, 3 orders, 3 lines, 2 zones | `UnitsKept`, `PaidKeepsLines`, `MovesNeverDeadlock` |
| `floor_board` | the same | a counterexample to `VoidedLeavesNoDish` (section 6) |
| `paperwork` | 2 clerks, 2 sales with a refund each, one for more than the sale, 2 VAT rates; 2 passes, 2 events, one crash | `InvoicedOnce`, `InvoiceNumbersGapless`, `PartialsCovered`, `InvoicesNeverDeadlock`; `ConsumedHasDocument`, `AcceptancesKept`, `CertifiedOnce`, `EventsConsumed` |
| `office` | 2 handlers, 14 families of requests | `ReuseRefused`, `PriceInForce`, `NoTaxGap`, `PricesAppendOnly`, `OnlyAskedFields` |
| `office_reuse` | the same | a counterexample to `OnlyNewTokenValid` (section 6) |
| `outbox` | 2 flushes, 4 keys, 2 orders, one late request | `SentOnce`, `TicketsAsTapped`, `KeptOrTold` |

The bounds, and why they are enough. Every invariant of `Till` relates at most
two transactions that hold a common row, or one transaction and what an earlier
one left behind; no handler holds more than four rows. `NoLockCycle` could need
more than two workers; it is proved for any number. `MaxLines`, `MaxMoves` and
`MaxCounts` bound amounts, and the sets of requests in `MCTill` contain, for each
run, every operation that writes what its properties read. A key that may
expire is in `till_sell`, where a retry after the window is a new request. `MaxCounts = 2` lets a
count come before the Z, and race with it.

In `Kitchen` two lines are needed for a header that differs from a line, and two
handlers for a stale read. `calm` is true until two handlers have overlapped or
a dish has joined a ticket that was ready or served; without it the two properties
are false (section 6). One line alone goes back to pending, changes its quantity and
is removed; the other is there for the header.

In `Feed` two ids are a replayed and an overlapping event, or an event and one that
commits late; the queue, the outbox and the replay limit are so small that each
of them drops. `MaxFetches = 2` lets two reads of the board overlap and be answered
in either order. What the board shows last may then be the older answer (section
6); `AnnouncedShown` and `EventShown` are about what it has shown, and need no
order of the answers.

In `PrintQueue` two jobs are one that is tried and one that waits for it; with two
attempts there are a retry and an exhaustion, as with the three of the code.
`Window` is `limit * 3`; it is scaled down with `Limit` and the number of jobs.
The rollback of a dispatch that handed over a job happens once per job and cycle
(a bound in `Abort`).

In `Floor` a behaviour is one of three scenes (`MCFloor`): two tables that move
onto each other while they are charged, the bill of a table that is split and
merged again, and the room laid out while tables are opened. Three tables are the
two that move and one that does not exist yet; three orders are two and what a
split makes. `MovesNeverDeadlock` leaves `open_table` out, because with it the
property is false (section 6).

In `Paperwork` two sales suffice for two invoices that share a sale and list it in
another order, and for a rectification by a refund of a sale the invoice does not
have. `MaxNumber = 2` leaves one number to take after another. `Limit = 1` makes
a pass leave rows to the other; one crash is enough for an acceptance to be
forgotten, and `AcceptancesKept` says how many were. The refund of one sale is
larger than the sale, which the code allows (section 6): `PartialsCovered` compares
what is rectified with what was given back, and not with what was sold.
`CertifiedOnce` takes the transitions of a sale as single steps; that handlers who
race for an order make one event per transition is `OneEventPerTransition`.

In `Office` each behaviour sends one family of requests (staff, sessions, PINs,
roles, terminals, devices, methods, departments, categories, prices, barcodes,
taxes, panels, grid), because rows of different families are not written together;
`MaxRows` leaves room for two inserts in the tables that grow. Two handlers make
every pair of a check and a write that can be stale; `ReuseRefused` counts the
sessions of a token against the handlers, so that a third refresh is one too many.

In `Outbox` two tickets are needed for a refusal that has another one behind it,
two flushes for an overlap and one late request for a resend that comes after its
own answer. Four keys are two tickets of an opening and a line, or one of three
lines.

`CHECK_DEADLOCK FALSE` is said where a story ends: a paid or voided order in
`kitchen`, and in `office` the expiry of the last session where nobody logs in. The
other runs check deadlock.

The kitchen's type invariant is in its run because it contains the CHECK of the
table, which a stale write could break; it is proved too. Those of the till, the print
queue and the dining room (`TypeOK`, `PrintTypeOK`, `FloorTypeOK`) are proved; those of the
others (`FeedTypeOK`, `DocTypeOK`, `FiscalTypeOK`, `DeskTypeOK`) are stated in their
modules, and the proofs carry what they need of them in their invariants.

Fairness. `till_meet` takes strong fairness of the statements, because PostgreSQL
queues the waiters of a row and a released row goes to one of them, and weak
fairness of commits and pulses, because a handler that is not waiting runs on.
No request is assumed to arrive, fail or expire. `feed` takes weak fairness of
the connection's tasks (the event loop), of delivery while the connection lasts,
and of the browser's timers and answers. It assumes that events stop coming for a
moment: the timer of the client starts again with each event, so a burst without
pauses of 200 ms would put the read off; time is not modelled. `paperwork` takes
weak fairness of the steps of a pass: an external timer calls `/fiscal/dispatch`
(`services/fiscal.py` says so), and a pass that runs goes on. Nothing is assumed to
be sold, to crash or to restart. Nothing is assumed of the print queue, the phone
or the office: they move when somebody asks.

## 5. What is proved

For every value of the constants that satisfies the ASSUMEs of the modules: any
number of workers, rows, keys and requests, not only the instances of section 4.

| Module | Theorem | States |
|---|---|---|
| `TillProofs` | `Invariance`, `TypeCorrect` | the inductive invariant, and types |
| | `AppliedOnceHolds` | a stored key stands for exactly one committed effect |
| | `FrozenAnswerHolds` | what a retry is answered stays true |
| | `PaidExactlyHolds` | lines = total = payments, at a session of the same terminal |
| | `SettledForGoodHolds` | a settled order is never rewritten, only voided |
| | `ZFrozenHolds`, `ClosedForGoodHolds` | the Z stays true, and nothing writes a closed session |
| | `OneOpenPerTerminalHolds`, `OneDraftPerTableHolds` | the unique indexes do what they are for |
| | `TicketsUniqueHolds` | no ticket number twice |
| | `OneEventHolds`, `DrawerOnceHolds` | one event per transition; one pulse per cash sale |
| | `NoLockCycleHolds` | no set of waiting requests waits on itself |
| | `LedgerImplemented` | `ImplementsLedger`: every step of `Till` is one step of `Ledger` or none |
| `KitchenProofs` | `KitchenTypeOKHolds` | types, and that served needs ready |
| | `KitchenFollowsSaleHolds` | the kitchen has the lines of the sale and no other, and a ticket while it has a line |
| | `HeaderDerivedHolds`, `CalmHistoryHolds` | the header is derived, and what is finished stays, while handlers do not overlap |
| `FeedProofs` | `NoPhantomHolds` | nothing uncommitted is published, queued, replayed or received |
| | `FedSinceHolds` | a replayed subscription has every later event that was not dropped |
| | `AnnouncedShownHolds` | a live board at rest has shown every event that was announced, however its reads overlap |
| `PrintQueueProofs` | `PrintInvariance`, `PrintTypeCorrect` | the inductive invariant, and types |
| | `SendsCountedHolds`, `DoneForGoodHolds`, `AlertedOnceHolds` | every hand-over is counted, done is done, one alert |
| `FloorProofs` | `FloorTypeOKHolds` | types |
| | `UnitsKeptHolds` | no move loses or doubles a unit |
| | `PaidKeepsLinesHolds` | a charged order keeps its lines |
| | `MovesNeverDeadlockHolds` | no set of moves waits on itself |
| `BackOfficeProofs` | `InvoicedOnceHolds`, `InvoiceNumbersGaplessHolds` | a sale on one document, numbers without gaps |
| | `PartialsCoveredHolds` | partial rectifications take off no more than was given back |
| | `InvoicesNeverDeadlockHolds` | no set of clerks waits on itself |
| | `ConsumedHasDocumentHolds`, `AcceptancesKeptHolds`, `CertifiedOnceHolds` | an event has its document, no acceptance but those a crash forgot is repeated |
| | `DeskTypeOKHolds` | the tables keep their shape, and a request leaves nothing that it read |
| | `ReuseRefusedHolds` | a token that was exchanged gives no session to a later request |
| | `PriceInForceHolds`, `PricesAppendOnlyHolds` | one price in force, the one the till charges; the history is only added to |
| | `NoTaxGapHolds` | a tax has a version in force every day |
| | `OnlyAskedFieldsHolds` | no lost update between two forms over one row |
| `OutboxProofs` | `KeepingHolds` | the inductive invariant |
| | `SentOnceHolds` | no opening and no line twice on the server |
| | `TicketsAsTappedHolds` | an order has the lines of its ticket; in order, while calm |
| | `KeptOrToldHolds` | nothing tapped is lost in silence, while calm |

`Sums` has the lemmas the amounts need: what the folds of the community modules
(`SumFunctionOnSet`) give for a changed element, for disjoint sets, for values moved
between groups. They are by induction on the size of the set, over the well-founded
order of `Nat`: the library's induction theorems take an operator, which these provers
cannot supply, so `NatSetInduction` says it with a set.

### The arguments

**Till.** A property such as `PaidExactly` is not inductive: at its commit a charge
writes a total it computed statements before. `IInv` says why that total is still
right:

- `Disjoint`: no two transactions hold the same row;
- `Placed`: a busy worker is at a statement its handler has;
- `HeldExactly`: a transaction holds the rows of the statements behind it, and
  no others;
- `Facts`: what it checked or computed at each of those statements (`Fact`) is
  still so. This is the heart: a fact about a row can only be changed by a
  commit that holds the row, and by `Disjoint` that is not another one's;
- `Unsettled`: only a settlement gives an order its session.

`TillProofs` proves it action by action, and then each property
with one lemma per writer of the rows it reads. `NoLockCycle` follows from
`HeldExactly` and the fixed order of the statements (`Rank`): the waiter of the
highest rank waits for nobody in its set.

**The ledger.** The refinement is under `LInv`: `IInv`, the properties of the till
it needs, and three facts about rows that were never written (`Unnumbered`,
`Unopened`, `RefundSigns`). There is one lemma per commit, which names the entry of
`Ledger` that it is and shows each of the eight mapped variables to change as that
entry says. The cash of a drawer is a sum over all orders (`Brought`), and a commit
changes one summand.

**Kitchen.** `KInv`: types; `OneSale`, the lock of the order row lets one handler of
the sale run; `Stages`, what a handler has written and is about to write at each of
its moments; `Rows`, no two transactions have written a line; `Sales`, what a handler
of the sale found is still so, because the display changes states and never which
lines there are; and `Cancels`, only a void cancels. With it `KitchenFollowsSale` needs
no calm: the display may write over anything, but a line it writes is there, since
the removal that would take it waits for its row (`Rows`). `HeaderDerived` does need
it: `Still` says that the only handler at work has loaded the rows as they are
(`Fresh`), so that the lines it believes when it derives the header are those it
leaves (`Written`).

**Invoices.** `DocInv`: types; `Underway`, where each clerk is among the statements of
its request and what it holds (`AtStep`); `RowsExclusive`; `LinesFree`, an entry of the
index that a clerk took is on no document; `NumbersTaken` and `Numbered`, for the gaps;
`Checked`, what a request checked under its locks; and `Billed`, what the totals of
each document are made of. `PartialsCovered` follows from `Billed` and `InvoicedOnce`:
each partial rectification takes off one refund of the invoice's own sales, no two
the same one, and no line of a refund is positive, so what they take off is a part
of what was given back. The lock order is a
`Rank` of the rows: the series of the rectifications, the orders by id, the series of
the invoices, the entries of the lines. The lines of an invoice have one rank and no
order, but whoever inserts them holds the series, alone.

**Passes.** `PassInv`: `Filings`, `Stages`, `Claimed` and `Held` (SKIP LOCKED: no two
passes share a row) and `Balanced`: what the regime accepted is what a crash forgot,
plus what is in flight, plus what is on file.

**Office.** No handler locks what it reads, so what it found may have changed when it
commits. `OfficeInv` keeps what survives that: `Tables` and `Handlers`, types;
`LoginsInv`, a session that another came from is revoked, and an old session may only
be revoked or expire; `PricesInv`, each product has one open row in its history, at
its price, and an edit has found at most one row of its product to close; `TaxesInv`,
a version that ended did so on a day when another of its code starts, and the ones a
handler has found to close start before its own. The row an edit found may have been
closed by another edit meanwhile. Then its commit would leave two open rows, and the
partial unique index refuses it (`OnePriceOpen`): a commit that succeeds closes
exactly the row in force, so `PricesAppendOnly` holds with `PriceInForce`. Two versions
of a tax may both close the same row, the second moving its end (section 6), and no
gap appears, since each end is the start of a version: the last version to start
by a day is in force on it (`LastDay`). `OnlyAskedFields` is one lemma for each shape
of write, from what the mapper writes (`Patched`). For `ReuseRefused` a session is
charged with those that came from it and with its refreshes under way (`Spent`): a
refresh begins only while the session is live, hence while nothing came from it
(`LoginsInv`), and its commit turns the one into the other (`NextKin`), so that the
sum stays within the number of handlers.

**Dining room.** `Working`: types; `OnItsWay`, that a worker at its k-th statement
holds the rows of those behind it (`Took`) and that what it found under them is still
so (`Found`); `RowsExclusive`; `OneDraft` per table. Each commit then has an
`Effect` that touches nothing but lines of drafts whose row it holds (`OrdersKept`,
`LinesKept`, `DraftsKept`), which gives `PaidKeepsLines`. For `UnitsKept` the lines are
grouped by their order (`Owned`, `Summed`), and `SumMoved` says that what a group
loses another wins. `MovesNeverDeadlock` ranks what a request waits for: tables by
id, then the row of an order, then what a move finds on its tables (the drafts, the
entry of the index); two moves never meet beyond their tables, because one of them
already waited there.

**Print queue.** `PInv`: `Exclusive` rows, `Drafts` (the draft of a row is at most one
attempt ahead of it), `Claims`, `Budget`, `SendsBounded` and `Alerts`. That `Drafts`
speaks of the row as it still is, and not of the row as it was read, is what SKIP
LOCKED and the locks of operators are for.

**Feed.** `Committed`: the id of a transaction past its commit is in the log, and queue,
replay and outbox are sequences over the log. `Fed` follows one connection: each
event since the subscription is due, waiting, queued, in the outbox, received, or was
dropped. `LiveInv` is about the client: a closed connection has nothing left
(`Closed`), a subscription is answered once (`OneAnswer`), the board is one that a
read brought (`Reads`), and what was announced was shown, is in a read on its way,
is only in one that failed, or something will make the client read (`Told`,
`Stirred`). None of it speaks of the order of the reads.

**Phone.** A key says nothing of its ticket: an entry could claim any. `Keeping` is
that there is one map `T` from the keys made to their tickets with which all agree:
the queue, the notices, the jobs of the flushes, the requests that are late, and on
the server each key that has an answer (`Answered`, `Opened`, `Once`). With it the
answer kept under a key decides on which order an entry is, and `SentOnce` needs no
calm. While `calm`, `Quiet` adds that the queue is in the order of the taps, that
there is one flush at most, at a part of the queue (`Rest`) whose entries before it
were answered, and that whatever was tapped before an entry on its ticket, when the
entry is sent or on the server, was answered or is given up (`Before`): that is why a
late request cannot overtake its ticket.

### Assumptions

Each is an ASSUME of the module that declares the constant, or a hypothesis of the
theorem, and the runs satisfy them.

- `None` (`Null` in `Documents` and `Paperwork`) is no row, key, request, answer, reason
  or receipt; every request is well formed as the API schemas require; an order and a
  session belong to one terminal.
- Office: at the start each session is the fruit of a login, each product has one open
  row in its history at its own price, each tax version is open; prices are not
  negative (`Money` in `api/v1/catalog.py`), and a new product has one. Handlers are
  finitely many.
- Documents: no line of a refund is positive (`refund_order` writes what it gives back
  with a minus, and the schemas take a quantity above zero, a price of at least zero
  and a discount up to 100), and the VAT rates are finitely many. Nothing is assumed of
  how much a refund gives back.
- `AnnouncedShownHolds` takes a bus queue of at least one event and an outbox of at
  least two frames (the code has 256 and 1024), and any number of reads at once.

### Only model-checked

Liveness (`RequestTerminates`, `EventShown`, `EventsConsumed`) is out of the prover's
reach, and so is what depends on ENABLED: the absence of deadlock that TLC checks on
its instances. Every safety property and action property of the runs that pass is
proved.

## 6. Where code and documents part

Three runs end with a counterexample; `PROJECT.json` quotes the lines.

| Run | What happens |
|---|---|
| `till_over_refund` | a refund that names a line twice gives back more than was sold |
| `floor_board` | a merge voids the order whose lines it took, and the dishes of that order stay open on a ticket the kitchen board no longer shows |
| `office_reuse` | two refreshes of one token find it alive and leave two live sessions; the comment of `refresh` says the new token is the only one that is valid |

Further properties that a document or a comment states, or a reader would expect,
and that TLC refutes. They are
not among the runs of `PROJECT.json`; `tlc -config <cfg> <module>` shows each trace.

| Property | Configuration | What happens |
|---|---|---|
| `ReplayBeatsConflict` (`Till`) | `MCTillReplay.cfg` | a retry that overlaps its charge is told "already paid", although its key holds the answer |
| `TerminalForGood` (`Kitchen`) | `MCKitchenRevive.cfg` | a button pressed before a void and written after it revives a cancelled dish |
| `NothingLost` (`Feed`) | `MCFeedOverlap.cfg` | a live event overtakes the replay; if the connection ends there, the rest is skipped |
| `LiveBoardFresh` (`Feed`) | `MCFeedLateAnswer.cfg` | of two overlapping reads of the board the older one is shown |
| `RetriesMove` (`PrintQueue`) | `MCPrintQueueStarved.cfg` | failed jobs without attempts fill the window of rows a dispatch looks at, and no job is retried |
| `NeverDeadlock` (`Floor`) | `MCFloorDeadlock.cfg` | `open_table` takes the entry of the index before the table's row, and a split the other way round: one of the two is the victim of a deadlock, although the docstring of `_lock_two_tables` says there are none |
| `NetNotNegative` (`Documents`) | `MCPaperworkTwice.cfg` | an invoice is rectified in whole and in part: nothing compares a rectification with the invoice or with earlier ones, and more is taken off than was charged |
| `OnlyNewEvents` (`Fiscal`) | `MCPaperworkHistory.cfg` | events left under no regime, not yet consumed, get a document when one is activated |
| `OneButtonPerCell` (`Catalog`) | `MCOfficeCells.cfg` | two designs of a panel saved at once put two buttons in a cell |
| `OneTaxInForce` (`Catalog`) | `MCOfficeTaxes.cfg` | two versions of a tax created at once are both in force |
| `NothingSilent` (`Outbox`) | `MCOutboxSilent.cfg` | what was tapped during a flush, or was behind a refused entry, disappears without a notice |

Others were met while modelling and are said here only:

- a dish that joins a ready or served ticket leaves the header ahead of it; a
  quantity changes on a dish that became ready meanwhile; removing the last line
  that is not served is refused when the header may not jump (`services/kitchen.py:75`);
- an event commits with an id below a client's cursor, or is dropped and passed by
  it, and no later replay brings it; what commits between a client's last read and
  its subscription is not shown; events closer than 200 ms put the read of the
  display off (`BoardScreen.tsx:246`);
- two reorders that list the same rows the other way round can deadlock
  (`services/catalog.py:265`);
- a job the printer took and nobody confirms stays sent for ever
  (`services/printing.py:166`);
- a document the regime rejected is never claimed again, though the docstring calls
  it requeueable (`services/fiscal.py:15`);
- changing the kind of a payment method changes, in retrospect, what a session
  should hold (`services/payments.py:77`); a settled order can be voided and keeps
  its cash (`services/sales.py:790`);
- a login on its way survives the reset of its credential
  (`services/accounts.py:191`); the last administrator can be demoted
  (`services/accounts.py:146`); a device can be enrolled on a terminal that is being
  deactivated (`services/infrastructure.py:143`); products keep the tax version
  that was closed.

## 7. Not modelled

Taxes, discounts, change and rounding; the permissions of the requests of the till
and the rate limit of logins; customers, logos and business settings; names, images
and kitchen stations of the catalog, and the read-only trees the till loads. Reports
are SQL over rows the other models keep right and keep no state of their own.
Backups, the adapters of printers and drawers, and deployment are input and output.
The audit trail is written in the transaction of the change and read by no handler.
The screens of the till and of the back office are forms: what they ask for are the
requests of `Till`, `Floor`, `Documents` and `Office`. Real time appears only as events
that may happen: a key or a session expires, a poll fires, a timer runs.
