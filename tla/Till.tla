------------------------------- MODULE Till -------------------------------
(***************************************************************************)
(* Sales and cash of the POS backend: the handlers of services/sales.py    *)
(* and services/cash.py, the idempotency keys of services/idempotency.py   *)
(* and the ticket numbers of repos/documents.py, run by concurrent workers *)
(* against one PostgreSQL database at READ COMMITTED.                      *)
(*                                                                         *)
(* A request is one transaction.  It locks rows one statement at a time    *)
(* (SELECT ... FOR UPDATE, or the entry of a unique index it inserts) and  *)
(* checks each row once it holds it; everything it wrote becomes visible   *)
(* in one step, its commit, which also releases its rows.  A refused or    *)
(* crashed request rolls back: it leaves nothing but its released rows.    *)
(*                                                                         *)
(* Money is in units: every article costs one, so the amount of a line is  *)
(* its quantity.  Taxes, discounts, change and names are left out.         *)
(***************************************************************************)
EXTENDS Integers, Sequences, FiniteSets, Functions

CONSTANTS
  Worker,          \* request handlers that run at the same time
  Terminal,        \* tills
  Order, Session,  \* row ids the database may hand out
  Table, Key,      \* dining tables, Idempotency-Key headers
  MaxLines,        \* bound: line rows per order
  OrderTerminal,   \* orders.terminal_id, fixed when the row is born
  SessionTerminal, \* cash_sessions.terminal_id
  Request,         \* the requests clients may send, each any number of times
  ExpiringKey,     \* bound: the keys whose 24 h window may elapse
  MaxMoves,        \* bound: how far cash movements may take a session
  MaxCounts,       \* bound: count rows per session
  None             \* SQL NULL, no worker, no request

Line == 1..MaxLines

SettleOp == {"close_order", "refund_order"}
OrderOp  == SettleOp \union {"add_line", "update_line", "remove_line", "void_order"}
CashOp   == {"add_movement", "add_count", "close_session"}
BirthOp  == {"create_order", "open_session"}
KeyedOp  == BirthOp \union {"add_line", "close_order", "add_movement"}

(***************************************************************************)
(* What the API layer lets through.  close_order must carry a key, the     *)
(* other operations of KeyedOp may, the rest take none.                    *)
(***************************************************************************)
WellFormed(r) ==
  /\ r.op \in OrderOp \union CashOp \union BirthOp
  /\ r.key \in Key \union {None}
  /\ r.key # None => r.op \in KeyedOp
  /\ r.op = "close_order" => r.key # None
  /\ r.op \in OrderOp => r.order \in Order
  /\ r.op \in SettleOp \union CashOp => r.sess \in Session
  /\ r.op \in SettleOp => r.cash \in Nat /\ r.card \in Nat
  /\ r.op \in {"add_line", "update_line"} => r.qty \in Nat \ {0}
  /\ r.op \in {"update_line", "remove_line"} => r.line \in Line
  /\ r.op = "refund_order" =>
       /\ r.items \in Seq([line : Line, qty : Nat \ {0}])
       /\ Len(r.items) \in Line
  /\ r.op \in BirthOp => r.term \in Terminal
  /\ r.op = "create_order" => r.table \in Table \union {None}
  /\ r.op = "open_session" => r.opening \in Nat
  /\ r.op = "add_movement" => r.amount \in Int
  /\ r.op \in {"add_count", "close_session"} => r.counted \in Nat

ASSUME LineAssumption    == MaxLines \in Nat \ {0}
ASSUME OrderAssumption   == IsFiniteSet(Order)
ASSUME NoneAssumption ==
  /\ None \notin Order \union Session \union Table \union Key
  /\ None \notin [req : Request, answer : Nat]
ASSUME RequestAssumption == None \notin Request /\ \A r \in Request : WellFormed(r)
ASSUME TerminalAssumption ==
  /\ OrderTerminal \in [Order -> Terminal]
  /\ SessionTerminal \in [Session -> Terminal]

VARIABLES
  \* committed rows
  orders,      \* orders: status, table, session that settled it, total
  lines,       \* order_lines: quantity by slot, 0 where there is no row
  payments,    \* payments of an order, summed by cash and other methods
  refunds,     \* refunds: original order -> refund order
  tickets,     \* tickets.number of an order, 0 where there is no ticket
  sequences,   \* document_sequences.current_value of a terminal's series
  saleEvents,  \* sale_events of an order, oldest first
  sessions,    \* cash_sessions: status, opening and counted amounts
  expected,    \* cash_sessions.expected_amount, 0 until the session closes
  moves,       \* sum of cash_movements, out as negative
  counts,      \* cash_counts of a session, oldest first
  keys,        \* idempotency_keys: the request and its frozen answer
  \* requests in flight
  req,         \* the request a worker runs, None when idle
  pc,          \* the statement it is about to run
  held,        \* the rows and index entries its transaction holds
  num,         \* the ticket number it took
  calc,        \* the amount it computed from what it read
  \* observers
  applied,     \* committed effects under a key since it was last free
  drawer       \* times the drawer opened for an order

orderVars == <<orders, lines, payments, refunds, tickets, sequences, saleEvents>>
cashVars  == <<sessions, expected, moves, counts>>
keyVars   == <<keys, applied>>
workVars  == <<req, pc, held, num, calc>>
vars      == <<orderVars, cashVars, keyVars, workVars, drawer>>

NoOrder   == [status |-> "none", table |-> None, sess |-> None, total |-> 0]
NoSession == [status |-> "none", opening |-> 0, counted |-> 0]

Init ==
  /\ orders     = [o \in Order |-> NoOrder]
  /\ lines      = [o \in Order |-> [l \in Line |-> 0]]
  /\ payments   = [o \in Order |-> [cash |-> 0, card |-> 0]]
  /\ refunds    = [o \in Order |-> None]
  /\ tickets    = [o \in Order |-> 0]
  /\ sequences  = [t \in Terminal |-> 0]
  /\ saleEvents = [o \in Order |-> <<>>]
  /\ sessions   = [s \in Session |-> NoSession]
  /\ expected   = [s \in Session |-> 0]
  /\ moves      = [s \in Session |-> 0]
  /\ counts     = [s \in Session |-> <<>>]
  /\ keys       = [k \in Key |-> None]
  /\ req        = [w \in Worker |-> None]
  /\ pc         = [w \in Worker |-> "idle"]
  /\ held       = [w \in Worker |-> {}]
  /\ num        = [w \in Worker |-> 0]
  /\ calc       = [w \in Worker |-> 0]
  /\ applied    = [k \in Key |-> 0]
  /\ drawer     = [o \in Order |-> 0]

-----------------------------------------------------------------------------
(* What the handlers compute from the rows. *)

\* Total of an order's lines (every article costs one).
LineSum(ls) == SumFunction(ls)

\* The negative lines refund_order writes, one per requested item.
RefundLines(r) ==
  [l \in Line |-> IF l <= Len(r.items) THEN -r.items[l].qty ELSE 0]

\* Cash an order brought into its session: the sign of total decides.
CashFlow(o) == CASE orders[o].total > 0 -> payments[o].cash
                 [] orders[o].total < 0 -> -payments[o].cash
                 [] OTHER               -> 0

\* Cash that should be in the drawer of session s.
Expected(s) ==
  sessions[s].opening
    + SumFunction([o \in {p \in Order : orders[p].sess = s} |-> CashFlow(o)])
    + moves[s]

\* What the payments of a request must add up to: money in, or money out.
Paid(r) == r.cash + r.card
Due(r)  == IF r.op = "refund_order" THEN -Paid(r) ELSE Paid(r)

\* Payments settle the computed total exactly, and never nothing.
Settles(total, r) == Paid(r) > 0 /\ total = Due(r)

NextNumber(t) == sequences[t] + 1

EnsureDraft(o) == orders[o].status = "draft"

\* _cash_session_for_sale: open, and of the terminal of the sale.
CashSessionForSale(r) ==
  /\ sessions[r.sess].status = "open"
  /\ SessionTerminal[r.sess] = OrderTerminal[r.order]

\* Each refunded item names a line of the sale and at most what it sold.
ItemsSold(r) ==
  \A i \in 1..Len(r.items) : r.items[i].qty <= lines[r.order][r.items[i].line]

TableFree(t)      == \A o \in Order : ~(orders[o].status = "draft" /\ orders[o].table = t)
TillFree(t)       == \A s \in Session : ~(sessions[s].status = "open" /\ SessionTerminal[s] = t)
KeyFree(k)        == keys[k] = None
FreshOrder(t)     == {o \in Order : orders[o].status = "none" /\ OrderTerminal[o] = t}
FreshSession(t)   == {s \in Session : sessions[s].status = "none" /\ SessionTerminal[s] = t}
FreeSlot(o)       == {l \in Line : lines[o][l] = 0}

-----------------------------------------------------------------------------
(* Statements of a transaction and the rows they lock. *)

KeyOrCommit(r) == IF r.key = None THEN "commit" ELSE "key"

First(r) ==
  CASE r.op \in OrderOp        -> "order"
    [] r.op \in CashOp         -> "cash"
    [] r.op = "open_session"   -> "slot"
    [] r.op = "create_order"   -> IF r.table = None THEN KeyOrCommit(r) ELSE "slot"

\* Mutant: a refund takes its ticket number before the cash session.
After_SeriesFirst(r, p) ==
  CASE p = "order"  /\ r.op = "refund_order" -> "series"
    [] p = "series" /\ r.op = "refund_order" -> "cash"
    [] p = "order"  /\ r.op = "close_order"  -> "cash"
    [] p = "cash"   /\ r.op = "close_order"  -> "series"
    [] p = "key"                             -> "commit"
    [] OTHER                                 -> KeyOrCommit(r)

\* The statement a handler runs once the one at p has succeeded.
After(r, p) ==
  CASE p = "order" /\ r.op \in SettleOp -> "cash"
    [] p = "cash"  /\ r.op \in SettleOp -> "series"
    [] p = "key"                        -> "commit"
    [] OTHER                            -> KeyOrCommit(r)

\* The row, or the unique index entry, that the statement at p must own.
RowAt(r, p) ==
  CASE p = "order"  -> <<"order", r.order>>
    [] p = "cash"   -> <<"cash", r.sess>>
    [] p = "series" -> <<"series", OrderTerminal[r.order]>>
    [] p = "slot"   -> IF r.op = "open_session" THEN <<"till", r.term>>
                                                ELSE <<"table", r.table>>
    [] p = "key"    -> <<"key", r.key>>

\* Mutants: a SELECT without FOR UPDATE, a unique index that is not there.
FreeBut(kind, w, row)     == row[1] = kind \/ \A v \in Worker \ {w} : row \notin held[v]
Free_NoOrderLock(w, row)  == FreeBut("order", w, row)
Free_NoCashLock(w, row)   == FreeBut("cash", w, row)
Free_NoTableIndex(w, row) == FreeBut("table", w, row)

\* No other transaction holds the row.
Free(w, row) == \A v \in Worker \ {w} : row \notin held[v]

\* The statement succeeds: its row is held until the transaction ends.
Proceed(w) ==
  /\ pc'   = [pc EXCEPT ![w] = After(req[w], @)]
  /\ held' = [held EXCEPT ![w] = @ \union {RowAt(req[w], pc[w])}]
  /\ UNCHANGED req

\* The transaction is over: its rows are released, the worker is idle.
Leave(w) ==
  /\ req'  = [req EXCEPT ![w] = None]
  /\ pc'   = [pc EXCEPT ![w] = "idle"]
  /\ held' = [held EXCEPT ![w] = {}]
  /\ num'  = [num EXCEPT ![w] = 0]
  /\ calc' = [calc EXCEPT ![w] = 0]

\* Mutant: an error response leaves the transaction open.
Refuse_NoRollback(w) ==
  /\ req' = [req EXCEPT ![w] = None]
  /\ pc'  = [pc EXCEPT ![w] = "idle"]
  /\ UNCHANGED <<held, num, calc, orderVars, cashVars, keyVars, drawer>>

\* An error response: rollback.
Refuse(w) == Leave(w) /\ UNCHANGED <<orderVars, cashVars, keyVars, drawer>>

\* Mutant: the key is stored before there is an answer to freeze.
Freeze_NoBody(w, answer) ==
  LET k == req[w].key
  IN  IF k = None THEN UNCHANGED keyVars
      ELSE /\ keys'    = [keys EXCEPT ![k] = [req |-> req[w], answer |-> None]]
           /\ applied' = [applied EXCEPT ![k] = @ + 1]

\* The key row travels in the transaction of the change.
Freeze(w, answer) ==
  LET k == req[w].key
  IN  IF k = None THEN UNCHANGED keyVars
      ELSE /\ keys'    = [keys EXCEPT ![k] = [req |-> req[w], answer |-> answer]]
           /\ applied' = [applied EXCEPT ![k] = @ + 1]

-----------------------------------------------------------------------------
(* Steps every request goes through. *)

\* Bound: no request starts that would run out of row ids or amounts.
InFlight(op) == {w \in Worker : req[w] # None /\ req[w].op \in op}
WithinBounds(r) ==
  /\ r.op = "create_order" =>
       Cardinality(FreshOrder(r.term)) > Cardinality(InFlight({"create_order", "refund_order"}))
  /\ r.op = "refund_order" =>
       Cardinality(FreshOrder(OrderTerminal[r.order]))
         > Cardinality(InFlight({"create_order", "refund_order"}))
  /\ r.op = "open_session" =>
       Cardinality(FreshSession(r.term)) > Cardinality(InFlight({"open_session"}))
  /\ r.op = "add_movement" => moves[r.sess] + r.amount \in -MaxMoves..MaxMoves
  /\ r.op \in {"add_count", "close_session"} => Len(counts[r.sess]) < MaxCounts

\* A request arrives and its key, if any, has no live row: run it.  With a
\* live row the answer is the frozen one, or a 409, and nothing changes.
Begin(w, r) ==
  /\ req[w] = None
  /\ r.key # None => KeyFree(r.key)
  /\ WithinBounds(r)
  /\ req' = [req EXCEPT ![w] = r]
  /\ pc'  = [pc EXCEPT ![w] = First(r)]
  /\ UNCHANGED <<held, num, calc, orderVars, cashVars, keyVars, drawer>>

At(w, p)   == req[w] # None /\ pc[w] = p
Granted(w) == Free(w, RowAt(req[w], pc[w]))

\* The status checks each handler makes once it holds the order row.
OrderCheck(r) ==
  CASE r.op = "add_line"     -> EnsureDraft(r.order) /\ FreeSlot(r.order) # {}
    [] r.op \in {"update_line", "remove_line"} ->
                                EnsureDraft(r.order) /\ lines[r.order][r.line] # 0
    [] r.op = "close_order"  -> EnsureDraft(r.order)
    [] r.op = "void_order"   -> orders[r.order].status \in {"draft", "paid"}
    [] r.op = "refund_order" -> orders[r.order].status = "paid" /\ refunds[r.order] = None

LockOrder(w) ==
  /\ At(w, "order") /\ Granted(w)
  /\ OrderCheck(req[w])
  /\ Proceed(w)
  /\ UNCHANGED <<num, calc, orderVars, cashVars, keyVars, drawer>>

RefuseOrder(w) ==
  /\ At(w, "order") /\ Granted(w)
  /\ ~OrderCheck(req[w])
  /\ Refuse(w)

\* What a handler computes once it holds the cash session: the total it
\* charges or gives back, or the cash the session should hold.
Amount(r) ==
  CASE r.op = "close_order"   -> LineSum(lines[r.order])
    [] r.op = "refund_order"  -> LineSum(RefundLines(r))
    [] r.op = "close_session" -> Expected(r.sess)
    [] OTHER                  -> 0

CashCheck(r) ==
  CASE r.op = "close_order"  -> CashSessionForSale(r) /\ Settles(Amount(r), r)
    [] r.op = "refund_order" -> /\ CashSessionForSale(r)
                                /\ ItemsSold(r)
                                /\ Settles(Amount(r), r)
    [] OTHER                 -> sessions[r.sess].status = "open"

LockCash(w) ==
  /\ At(w, "cash") /\ Granted(w)
  /\ CashCheck(req[w])
  /\ Proceed(w)
  /\ calc' = [calc EXCEPT ![w] = Amount(req[w])]
  /\ UNCHANGED <<num, orderVars, cashVars, keyVars, drawer>>

RefuseCash(w) ==
  /\ At(w, "cash") /\ Granted(w)
  /\ ~CashCheck(req[w])
  /\ Refuse(w)

\* Mutant: a native sequence, which a rollback does not give back.
TakeNumber_Sequence(w) ==
  /\ At(w, "series") /\ Granted(w)
  /\ Proceed(w)
  /\ LET t == OrderTerminal[req[w].order]
     IN  /\ num'       = [num EXCEPT ![w] = NextNumber(t)]
         /\ sequences' = [sequences EXCEPT ![t] = NextNumber(t)]
  /\ UNCHANGED <<calc, orders, lines, payments, refunds, tickets, saleEvents,
                 cashVars, keyVars, drawer>>

\* issue_ticket_for_order takes the next number of the terminal's series.
TakeNumber(w) ==
  /\ At(w, "series") /\ Granted(w)
  /\ Proceed(w)
  /\ num' = [num EXCEPT ![w] = NextNumber(OrderTerminal[req[w].order])]
  /\ UNCHANGED <<calc, orderVars, cashVars, keyVars, drawer>>

\* The row enters its partial unique index: one open session per terminal,
\* one draft per table.
SlotCheck(r) == IF r.op = "open_session" THEN TillFree(r.term) ELSE TableFree(r.table)

ClaimSlot(w) ==
  /\ At(w, "slot") /\ Granted(w)
  /\ SlotCheck(req[w])
  /\ Proceed(w)
  /\ UNCHANGED <<num, calc, orderVars, cashVars, keyVars, drawer>>

RefuseSlot(w) ==
  /\ At(w, "slot") /\ Granted(w)
  /\ ~SlotCheck(req[w])
  /\ Refuse(w)

\* Mutant: the key is upserted (ON CONFLICT DO UPDATE).
StoreKey_Upsert(w) ==
  /\ At(w, "key") /\ Granted(w)
  /\ Proceed(w)
  /\ UNCHANGED <<num, calc, orderVars, cashVars, keyVars, drawer>>

\* The primary key of idempotency_keys decides between two retries.
StoreKey(w) ==
  /\ At(w, "key") /\ Granted(w)
  /\ KeyFree(req[w].key)
  /\ Proceed(w)
  /\ UNCHANGED <<num, calc, orderVars, cashVars, keyVars, drawer>>

\* IntegrityError: rollback, and the winner's frozen answer is replayed.
ReplayAfterConflict(w) ==
  /\ At(w, "key") /\ Granted(w)
  /\ ~KeyFree(req[w].key)
  /\ Refuse(w)

\* Any failure before the commit: rollback, nothing is left behind.  A crash
\* after the commit of a charge loses only the pulse that opens the drawer.
Abort(w) == req[w] # None /\ Refuse(w)

-----------------------------------------------------------------------------
(* Commits, one per handler. *)

Committing(w, op) == At(w, "commit") /\ req[w].op = op

CreateOrder(w) ==
  /\ Committing(w, "create_order")
  /\ \E o \in FreshOrder(req[w].term) :
       orders' = [orders EXCEPT ![o].status = "draft", ![o].table = req[w].table]
  /\ Freeze(w, 0)
  /\ Leave(w)
  /\ UNCHANGED <<lines, payments, refunds, tickets, sequences, saleEvents, cashVars, drawer>>

\* New rows take the first free slot; slots carry no meaning beyond identity.
AddLine(w) ==
  /\ Committing(w, "add_line")
  /\ LET o == req[w].order
     IN  \E l \in FreeSlot(o) :
           /\ \A m \in FreeSlot(o) : l <= m
           /\ lines' = [lines EXCEPT ![o][l] = req[w].qty]
  /\ Freeze(w, 0)
  /\ Leave(w)
  /\ UNCHANGED <<orders, payments, refunds, tickets, sequences, saleEvents, cashVars, drawer>>

UpdateLine(w) ==
  /\ Committing(w, "update_line")
  /\ lines' = [lines EXCEPT ![req[w].order][req[w].line] = req[w].qty]
  /\ Leave(w)
  /\ UNCHANGED <<orders, payments, refunds, tickets, sequences, saleEvents,
                 cashVars, keyVars, drawer>>

RemoveLine(w) ==
  /\ Committing(w, "remove_line")
  /\ lines' = [lines EXCEPT ![req[w].order][req[w].line] = 0]
  /\ Leave(w)
  /\ UNCHANGED <<orders, payments, refunds, tickets, sequences, saleEvents,
                 cashVars, keyVars, drawer>>

\* The order n is settled at session r.sess: total, payments, ticket, event.
Settle(w, n, event) ==
  LET r == req[w]
  IN  /\ orders'     = [orders EXCEPT ![n].status = "paid", ![n].sess = r.sess,
                                      ![n].total = calc[w]]
      /\ payments'   = [payments EXCEPT ![n] = [cash |-> r.cash, card |-> r.card]]
      /\ tickets'    = [tickets EXCEPT ![n] = num[w]]
      /\ sequences'  = [sequences EXCEPT ![OrderTerminal[n]] = num[w]]
      /\ saleEvents' = [saleEvents EXCEPT ![n] = Append(@, event)]

\* The worker goes on to the drawer when a payment opens it.
CloseOrder(w) ==
  /\ Committing(w, "close_order")
  /\ Settle(w, req[w].order, "sale_closed")
  /\ Freeze(w, num[w])
  /\ IF req[w].cash > 0
     THEN /\ pc'   = [pc EXCEPT ![w] = "drawer"]
          /\ held' = [held EXCEPT ![w] = {}]
          /\ UNCHANGED <<req, num, calc>>
     ELSE Leave(w)
  /\ UNCHANGED <<lines, refunds, cashVars, drawer>>

\* After the commit, best effort: the hardware never reverts a sale.
OpenDrawer(w) ==
  /\ At(w, "drawer")
  /\ drawer' = [drawer EXCEPT ![req[w].order] = @ + 1]
  /\ Leave(w)
  /\ UNCHANGED <<orderVars, cashVars, keyVars>>

VoidOrder(w) ==
  /\ Committing(w, "void_order")
  /\ LET o == req[w].order
     IN  /\ orders'     = [orders EXCEPT ![o].status = "voided"]
         /\ saleEvents' = [saleEvents EXCEPT ![o] = Append(@, "sale_voided")]
  /\ Leave(w)
  /\ UNCHANGED <<lines, payments, refunds, tickets, sequences, cashVars, keyVars, drawer>>

\* A new, negative order born paid, linked to the original.
RefundOrder(w) ==
  /\ Committing(w, "refund_order")
  /\ \E n \in FreshOrder(OrderTerminal[req[w].order]) :
       /\ Settle(w, n, "refund_issued")
       /\ lines'   = [lines EXCEPT ![n] = RefundLines(req[w])]
       /\ refunds' = [refunds EXCEPT ![req[w].order] = n]
  /\ Leave(w)
  /\ UNCHANGED <<cashVars, keyVars, drawer>>

OpenSession(w) ==
  /\ Committing(w, "open_session")
  /\ \E s \in FreshSession(req[w].term) :
       sessions' = [sessions EXCEPT ![s].status = "open", ![s].opening = req[w].opening]
  /\ Freeze(w, 0)
  /\ Leave(w)
  /\ UNCHANGED <<orderVars, expected, moves, counts, drawer>>

AddMovement(w) ==
  /\ Committing(w, "add_movement")
  /\ moves' = [moves EXCEPT ![req[w].sess] = @ + req[w].amount]
  /\ Freeze(w, 0)
  /\ Leave(w)
  /\ UNCHANGED <<orderVars, sessions, expected, counts, drawer>>

AddCount(w) ==
  /\ Committing(w, "add_count")
  /\ counts' = [counts EXCEPT ![req[w].sess] = Append(@, req[w].counted)]
  /\ Leave(w)
  /\ UNCHANGED <<orderVars, sessions, expected, moves, keyVars, drawer>>

\* The Z: expected, counted and difference are frozen in the session.
CloseSession(w) ==
  /\ Committing(w, "close_session")
  /\ LET s == req[w].sess
     IN  /\ sessions' = [sessions EXCEPT ![s].status = "closed",
                                         ![s].counted = req[w].counted]
         /\ expected' = [expected EXCEPT ![s] = calc[w]]
         /\ counts'   = [counts EXCEPT ![s] = Append(@, req[w].counted)]
  /\ Leave(w)
  /\ UNCHANGED <<orderVars, moves, keyVars, drawer>>

\* The 24 h window of a stored key elapses: the key is free again.
ExpireKey(k) ==
  /\ keys[k] # None
  /\ keys'    = [keys EXCEPT ![k] = None]
  /\ applied' = [applied EXCEPT ![k] = 0]
  /\ UNCHANGED <<orderVars, cashVars, workVars, drawer>>

-----------------------------------------------------------------------------

Statement(w) == \/ LockOrder(w) \/ RefuseOrder(w)
                \/ LockCash(w)  \/ RefuseCash(w)
                \/ TakeNumber(w)
                \/ ClaimSlot(w) \/ RefuseSlot(w)
                \/ StoreKey(w)  \/ ReplayAfterConflict(w)

Commit(w) == \/ CreateOrder(w) \/ AddLine(w)    \/ UpdateLine(w) \/ RemoveLine(w)
             \/ CloseOrder(w)  \/ VoidOrder(w)  \/ RefundOrder(w)
             \/ OpenSession(w) \/ AddMovement(w) \/ AddCount(w) \/ CloseSession(w)

Next ==
  \/ \E w \in Worker : \/ \E r \in Request : Begin(w, r)
                       \/ Statement(w)
                       \/ Commit(w)
                       \/ OpenDrawer(w)
                       \/ Abort(w)
  \/ \E k \in ExpiringKey : ExpireKey(k)

Spec == Init /\ [][Next]_vars

(***************************************************************************)
(* A running handler reaches its next statement, and PostgreSQL queues the *)
(* waiters of a row, so a statement that is granted again and again runs.  *)
(* Nothing says that a request arrives, fails or expires.                  *)
(***************************************************************************)
Fairness == \A w \in Worker : /\ SF_vars(Statement(w))
                              /\ WF_vars(Commit(w))
                              /\ WF_vars(OpenDrawer(w))

FairSpec == Spec /\ Fairness

-----------------------------------------------------------------------------
(* Properties. *)

\* The type of every row and of every request in flight.  The sums (expected
\* of a session, calc of a worker) are left open here: see PaidExactly and
\* ZFrozen for what they are.
OrderTypes ==
  /\ orders \in [Order -> [status : {"none", "draft", "paid", "voided"},
                           table  : Table \union {None},
                           sess   : Session \union {None},
                           total  : Int]]
  /\ lines \in [Order -> [Line -> Int]]
  /\ payments \in [Order -> [cash : Nat, card : Nat]]
  /\ refunds \in [Order -> Order \union {None}]
  /\ tickets \in [Order -> Nat]
  /\ sequences \in [Terminal -> Nat]
  /\ saleEvents \in [Order -> Seq({"sale_closed", "sale_voided", "refund_issued"})]

CashTypes ==
  /\ sessions \in [Session -> [status  : {"none", "open", "closed"},
                               opening : Nat, counted : Nat]]
  /\ DOMAIN expected = Session
  /\ moves \in [Session -> Int]
  /\ counts \in [Session -> Seq(Nat)]

KeyTypes ==
  /\ keys \in [Key -> [req : Request, answer : Nat] \union {None}]
  /\ applied \in [Key -> Nat]

WorkTypes ==
  /\ req \in [Worker -> Request \union {None}]
  /\ pc \in [Worker -> {"idle", "order", "cash", "series", "slot", "key", "commit", "drawer"}]
  /\ DOMAIN held = Worker
  /\ num \in [Worker -> Nat]
  /\ DOMAIN calc = Worker

TypeOK == OrderTypes /\ CashTypes /\ KeyTypes /\ WorkTypes /\ drawer \in [Order -> Nat]

Settled(o) == orders[o].sess # None

\* A charge is all or nothing and exact (close_order: "un cobro es todo o
\* nada"): the frozen total is what the lines add up to, the payments cover
\* it to the cent, and the session is one of the order's own terminal.  No
\* line edit that raced with the charge slips between the total and the lines.
PaidExactly ==
  \A o \in Order : Settled(o) =>
    /\ LineSum(lines[o]) = orders[o].total
    /\ orders[o].total \in {payments[o].cash + payments[o].card,
                            -(payments[o].cash + payments[o].card)}
    /\ orders[o].total # 0
    /\ SessionTerminal[orders[o].sess] = OrderTerminal[o]

\* The Z of a closed session stays true (cash.py: "queda congelado"): no
\* charge, refund or movement reaches a session once its expected cash is
\* frozen, and the last count is the one the session was closed with.
ZFrozen ==
  \A s \in Session : sessions[s].status = "closed" =>
    /\ expected[s] = Expected(s)
    /\ counts[s] # <<>>
    /\ counts[s][Len(counts[s])] = sessions[s].counted

\* One open session per terminal (cash.py: the partial unique index has the
\* last word when two openings race).
OneOpenPerTerminal ==
  \A s1, s2 \in Session :
    /\ sessions[s1].status = "open" /\ sessions[s2].status = "open"
    /\ SessionTerminal[s1] = SessionTerminal[s2]
    => s1 = s2

\* One open order per table (uq_orders_open_per_table).
OneDraftPerTable ==
  \A o1, o2 \in Order :
    /\ orders[o1].status = "draft" /\ orders[o2].status = "draft"
    /\ orders[o1].table = orders[o2].table /\ orders[o1].table # None
    => o1 = o2

\* Two orders of a terminal never share a ticket number.
TicketsUnique ==
  \A o1, o2 \in Order :
    /\ OrderTerminal[o1] = OrderTerminal[o2]
    /\ tickets[o1] = tickets[o2] /\ tickets[o1] # 0
    => o1 = o2

\* Retries never repeat an effect (ADR-006: "reintentos jamas duplican tickets
\* ni pagos"): a stored key stands for exactly one committed effect, and
\* without its row none was committed.
AppliedOnce ==
  \A k \in Key : applied[k] = IF keys[k] = None THEN 0 ELSE 1

\* The answer frozen under the key of a charge stays true: the order is
\* settled and its ticket is the one in the answer.
FrozenAnswer ==
  \A k \in Key :
    (keys[k] # None /\ keys[k].req.op = "close_order") =>
      LET o == keys[k].req.order
      IN  /\ Settled(o)
          /\ tickets[o] = keys[k].answer
          /\ orders[o].status \in {"paid", "voided"}

\* What refund_order promises of each line ("<= cantidad vendida de esa
\* linea", services/sales.py) and hence of the whole refund: no more goes
\* back than was charged.
RefundWithinSale ==
  \A o \in Order : refunds[o] # None => -orders[refunds[o]].total <= orders[o].total

\* Every transition of an order left exactly one sale event, in order: the
\* fiscal adapter sees a charge or a refund before its void, and nothing twice.
OneEventPerTransition ==
  \A o \in Order :
    saleEvents[o] =
      (IF ~Settled(o) THEN <<>>
       ELSE IF orders[o].total > 0 THEN <<"sale_closed">> ELSE <<"refund_issued">>)
      \o (IF orders[o].status = "voided" THEN <<"sale_voided">> ELSE <<>>)

\* The drawer opens at most once per sale, and only for a sale that was
\* charged in cash: replays and lost races never open it.
DrawerOnce ==
  \A o \in Order : drawer[o] > 0 => drawer[o] = 1 /\ Settled(o) /\ payments[o].cash > 0

Waiting(w) == req[w] # None /\ pc[w] \in {"order", "cash", "series", "slot", "key"}
WaitsFor(w, v) == v # w /\ Waiting(w) /\ RowAt(req[w], pc[w]) \in held[v]

\* No deadlock: whoever waits, somebody in every group of waiting workers
\* waits for nobody in the group.  All handlers lock order, cash session,
\* series and key in that order.
NoLockCycle ==
  \A W \in SUBSET {w \in Worker : Waiting(w)} :
    W # {} => \E w \in W : \A v \in W : ~WaitsFor(w, v)

\* A settled order is history: session, total, lines, payments and ticket
\* never change again, and its status can only go from paid to voided.
SettledForGood ==
  [][\A o \in Order : Settled(o) =>
       /\ orders'[o] \in {orders[o], [orders[o] EXCEPT !.status = "voided"]}
       /\ lines'[o] = lines[o]
       /\ payments'[o] = payments[o]
       /\ tickets'[o] = tickets[o]]_vars

\* A closed session is never written again (counts and movements included).
ClosedForGood ==
  [][\A s \in Session : sessions[s].status = "closed" =>
       /\ sessions'[s] = sessions[s]
       /\ expected'[s] = expected[s]
       /\ moves'[s] = moves[s]
       /\ counts'[s] = counts[s]]_vars

\* close_order: "El replay gana incluso sobre un 409 de negocio".  A charge
\* that is told "already paid" does not carry the key that paid.
ReplayBeatsConflict ==
  [][\A w \in Worker :
       (RefuseOrder(w) /\ req[w].op = "close_order" /\ orders[req[w].order].status = "paid")
       => (keys[req[w].key] = None \/ keys[req[w].key].req # req[w])]_vars

\* Every request that starts is answered, whatever the others hold.
RequestTerminates == \A w \in Worker : req[w] # None ~> req[w] = None

=============================================================================
