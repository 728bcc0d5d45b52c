------------------------------- MODULE Floor -------------------------------
(***************************************************************************)
(* The dining room: the handlers of services/restaurant.py, and of the     *)
(* sale handlers that meet them on the order row of a table (open_table is *)
(* services/sales.py create_order; add_line, close_order and void_order    *)
(* are its neighbours), with the dish a line has in the kitchen.           *)
(*                                                                         *)
(* A request is one transaction, a list of statements run in order.  A     *)
(* statement that locks (SELECT ... FOR UPDATE, an entry of a unique       *)
(* index, the foreign key of an inserted row) waits while another          *)
(* transaction holds its row and keeps it until the end; what a request    *)
(* wrote is seen at its commit.  Tables are numbered as their ids sort.    *)
(*                                                                         *)
(* The state of a table is not stored: it is derived from its draft.       *)
(***************************************************************************)
EXTENDS Integers, Sequences, FiniteSets, FiniteSetsExt, Functions

CONSTANTS
  Worker,     \* request handlers that run at the same time
  Zone,       \* zone rows the database may hold
  NTables,    \* table rows it may hold, in id order
  NOrders,    \* bound: orders ever opened
  NLines,     \* bound: order lines ever written
  Name,       \* names a table may be given
  Scene,      \* sets of requests; the clients of a behaviour send those of one
              \* of them, each any number of times
  FirstZone,  \* the zone and the tables of the room when the run starts
  FirstTables,
  None        \* SQL NULL, no worker, no request

Table == 1..NTables
Order == 1..NOrders
Line  == 1..NLines
Request == UNION Scene

OrderOp == {"update_session", "request_bill", "cancel_bill",
            "add_line", "close_order", "void_order"}
MoveOp  == {"transfer_table", "merge_tables", "split_table"}
SetupOp == {"create_zone", "update_zone", "create_table", "update_table"}

\* What the API lets through (positions, seats and sort orders left out).
WellFormed(r) ==
  /\ r.op \in OrderOp \union MoveOp \union SetupOp \union {"open_table"}
  /\ r.op \in OrderOp => r.order \in Order
  /\ r.op \in MoveOp => r.table \in Table /\ r.target \in Table
  /\ r.op = "split_table" =>
       /\ DOMAIN r.parts \subseteq Line /\ DOMAIN r.parts # {}
       /\ \A l \in DOMAIN r.parts : r.parts[l] \in Nat \ {0}
  /\ r.op \in {"open_table", "update_session"} => r.guests \in Nat
  /\ r.op \in {"open_table", "create_table", "update_table"} => r.table \in Table
  /\ r.op \in {"create_zone", "update_zone", "create_table"} => r.zone \in Zone
  /\ r.op = "create_table" => r.name \in Name
  /\ r.op = "update_table" =>
       r.zone \in Zone \union {None} /\ r.name \in Name \union {None} /\ r.active \in BOOLEAN
  /\ r.op = "update_zone" => r.active \in BOOLEAN
  /\ r.op = "add_line" => r.qty \in Nat \ {0}

ASSUME RoomAssumption ==
  /\ NTables \in Nat /\ NOrders \in Nat /\ NLines \in Nat
  /\ None \notin Table \union Order /\ None \notin {"void", "move"}
  /\ FirstZone \in Zone /\ FirstTables \in [Table -> Name \union {None}]
  /\ \A t, u \in Table : FirstTables[t] = FirstTables[u] => t = u \/ FirstTables[t] = None
ASSUME RequestAssumption == None \notin Request /\ \A r \in Request : WellFormed(r)

VARIABLES
  zones,    \* zones: "none" until created, then active or inactive
  tables,   \* dining_tables: zone, name, status as for zones
  orders,   \* orders: status, table, bill requested, guests, and why it was voided
  lines,    \* order_lines: order and units, no row while its order is None
  dishes,   \* kitchen_order_lines: the order of the ticket a line's dish is on
  scene,    \* the requests that clients send in this behaviour
  req,      \* the request a worker runs, None when idle
  todo,     \* the statements its transaction has left
  held,     \* the rows and index entries it holds
  src, dst, \* the drafts it found on the source and on the target table
  seen,     \* the lines it read of the source order
  ordered   \* observer: units ever ordered

roomVars == <<zones, tables>>
saleVars == <<orders, lines, dishes, ordered>>
workVars == <<scene, req, todo, held, src, dst, seen>>
vars     == <<roomVars, saleVars, workVars>>

NoOrder == [status |-> "none", table |-> None, bill |-> FALSE, guests |-> 0, why |-> None]
NoLine  == [order |-> None, qty |-> 0]

Init ==
  /\ zones   = [z \in Zone |-> IF z = FirstZone THEN "active" ELSE "none"]
  /\ tables  = [t \in Table |->
                 IF FirstTables[t] = None
                   THEN [status |-> "none", zone |-> None, name |-> None]
                   ELSE [status |-> "active", zone |-> FirstZone, name |-> FirstTables[t]]]
  /\ orders  = [o \in Order |-> NoOrder]
  /\ lines   = [l \in Line |-> NoLine]
  /\ dishes  = [l \in Line |-> None]
  /\ scene \in Scene
  /\ req     = [w \in Worker |-> None]
  /\ todo    = [w \in Worker |-> <<>>]
  /\ held    = [w \in Worker |-> {}]
  /\ src     = [w \in Worker |-> None]
  /\ dst     = [w \in Worker |-> None]
  /\ seen    = [w \in Worker |-> {}]
  /\ ordered = 0

-----------------------------------------------------------------------------
(* What the queries read. *)

Drafts(t)    == {o \in Order : orders[o].status = "draft" /\ orders[o].table = t}
LinesOf(o)   == {l \in Line : lines[l].order = o}
Units(o)     == SumFunctionOnSet([l \in Line |-> lines[l].qty], LinesOf(o))
FreshOrders  == {o \in Order : orders[o].status = "none"}
FreshLines   == {l \in Line : lines[l].order = None}
CountActiveTables(z) == Cardinality({t \in Table : tables[t].status = "active" /\ tables[t].zone = z})
NameFree(z, n, t) == \A u \in Table \ {t} : ~(tables[u].zone = z /\ tables[u].name = n)

\* A table joined to its draft (None where there is none).
FloorRow(t) == IF Drafts(t) = {} THEN None ELSE CHOOSE o \in Drafts(t) : TRUE

\* The plan: the traffic light of each table and what is open on it.
Plan ==
  [t \in Table |->
    LET o == FloorRow(t)
    IN  IF o = None THEN [status |-> "free", total |-> 0]
        ELSE [status |-> IF orders[o].bill THEN "bill" ELSE "open", total |-> Units(o)]]

\* The cards of the kitchen board: open dishes whose order is not voided.
Board == {l \in Line : dishes[l] # None /\ orders[dishes[l]].status # "voided"}

-----------------------------------------------------------------------------
(* Statements, the rows they lock, and what they check once granted. *)

Lo(r) == Min({r.table, r.target})
Hi(r) == Max({r.table, r.target})

\* Mutant: the source table first, whatever its id.
LockTwo_SourceFirst(r) == <<<<"table", r.table>>, <<"table", r.target>>>>

\* _lock_two_tables: in id order.
LockTwo(r) == <<<<"table", Lo(r)>>, <<"table", Hi(r)>>>>

Steps(r) ==
  CASE r.op \in OrderOp -> <<<<"order", r.order>>, <<"commit">>>>
    [] r.op \in {"transfer_table", "split_table"} ->
         LockTwo(r) \o <<<<"source">>, <<"target">>, <<"slot", r.target>>, <<"commit">>>>
    [] r.op = "merge_tables" -> LockTwo(r) \o <<<<"source">>, <<"target">>, <<"commit">>>>
    [] r.op = "update_table" -> <<<<"table", r.table>>, <<"commit">>>>
    [] r.op = "open_table"   -> <<<<"read">>, <<"slot", r.table>>, <<"table", r.table>>, <<"commit">>>>
    [] r.op = "create_zone"  -> <<<<"commit">>>>
    [] OTHER                 -> <<<<"read">>, <<"commit">>>>

At(w, kind) == req[w] # None /\ Head(todo[w])[1] = kind

\* The rows a statement must own.  get_open_draft_for_update locks the draft
\* it finds, if there is one.
Rows(w) ==
  LET s == Head(todo[w])
  IN  CASE s[1] \in {"table", "order", "slot"} -> {s}
        [] s[1] = "source" -> {<<"order", o>> : o \in Drafts(req[w].table)}
        [] s[1] = "target" -> {<<"order", o>> : o \in Drafts(req[w].target)}
        [] OTHER           -> {}

\* Mutants: a SELECT without FOR UPDATE.
FreeBut(kind, w, row)    == row[1] = kind \/ \A v \in Worker \ {w} : row \notin held[v]
Free_NoOrderLock(w, row) == FreeBut("order", w, row)

Free(w, row) == \A v \in Worker \ {w} : row \notin held[v]
Granted(w)   == \A row \in Rows(w) : Free(w, row)

\* create_order looks at the table before it inserts, and locks nothing.
OpenCheck(r)  == tables[r.table].status = "active" /\ Drafts(r.table) = {}

ZoneCheck(r)  ==
  /\ zones[r.zone] # "none"
  /\ ~r.active /\ zones[r.zone] = "active" => CountActiveTables(r.zone) = 0

CreateTableFits(r)  == tables[r.table].status = "none" /\ NameFree(r.zone, r.name, r.table)
CreateTableCheck(r) == zones[r.zone] = "active" /\ CreateTableFits(r)

ZoneAfter(r) == IF r.zone = None THEN tables[r.table].zone ELSE r.zone
NameAfter(r) == IF r.name = None THEN tables[r.table].name ELSE r.name

UpdateTableCheck(r) ==
  /\ tables[r.table].status # "none"
  /\ ZoneAfter(r) # tables[r.table].zone => zones[ZoneAfter(r)] = "active"
  /\ ~r.active /\ tables[r.table].status = "active" => Drafts(r.table) = {}
  /\ NameFree(ZoneAfter(r), NameAfter(r), r.table)

\* _ensure_draft, and a bill that is asked for once.
OrderCheck(r) ==
  /\ r.op # "void_order" => orders[r.order].status = "draft"
  /\ r.op = "void_order" => orders[r.order].status \in {"draft", "paid"}
  /\ r.op = "request_bill" => ~orders[r.order].bill
  /\ r.op = "close_order" => LinesOf(r.order) # {}

ValidateMoveTarget(r) == r.target # r.table /\ tables[r.target].status = "active"

\* Part of a draft, and never the whole of it.
SplitCheck(r, o) ==
  /\ SumFunctionOnSet(r.parts, DOMAIN r.parts) < Units(o)
  /\ \A l \in DOMAIN r.parts : lines[l].order = o /\ r.parts[l] <= lines[l].qty

\* The lines of a split that stay behind with what is left of them.
Partial(r) == {l \in DOMAIN r.parts : r.parts[l] < lines[l].qty}

\* What a move needs to find on the target table.
TargetCheck(w) ==
  LET r == req[w]
  IN  CASE r.op = "transfer_table" -> Drafts(r.target) = {}
        [] r.op = "split_table"    -> Drafts(r.target) = {} /\ SplitCheck(r, src[w])
        [] r.op = "merge_tables"   -> Drafts(r.target) # {} /\ LinesOf(src[w]) # {}

ReadCheck(r) ==
  CASE r.op = "open_table"   -> OpenCheck(r)
    [] r.op = "update_zone"  -> ZoneCheck(r)
    [] r.op = "create_table" -> CreateTableCheck(r)

TableCheck(r) ==
  CASE r.op = "update_table" -> UpdateTableCheck(r)
    [] r.op \in MoveOp       -> \A t \in {r.table, r.target} : tables[t].status # "none"
    [] OTHER                 -> TRUE

\* What the database has the last word on: the UNIQUE of zone and name; and
\* the bounds on row ids.
CommitCheck(r) ==
  /\ r.op = "create_zone" => zones[r.zone] = "none"
  /\ r.op = "create_table" => CreateTableFits(r)
  /\ r.op = "update_table" => NameFree(ZoneAfter(r), NameAfter(r), r.table)
  /\ r.op \in {"open_table", "split_table"} => FreshOrders # {}
  /\ r.op = "add_line" => FreshLines # {}
  /\ r.op = "split_table" => Cardinality(Partial(r)) <= Cardinality(FreshLines)

Check(w) ==
  LET r == req[w]
      s == Head(todo[w])
  IN  CASE s[1] = "read"   -> ReadCheck(r)
        [] s[1] = "table"  -> TableCheck(r)
        [] s[1] = "order"  -> OrderCheck(r)
        [] s[1] = "source" -> ValidateMoveTarget(r) /\ Drafts(r.table) # {}
        [] s[1] = "target" -> TargetCheck(w)
        [] s[1] = "slot"   -> Drafts(s[2]) = {}
        [] s[1] = "commit" -> CommitCheck(r)

-----------------------------------------------------------------------------
(* Steps of every transaction. *)

Begin(w, r) ==
  /\ req[w] = None /\ r \in scene
  /\ req'  = [req EXCEPT ![w] = r]
  /\ todo' = [todo EXCEPT ![w] = Steps(r)]
  /\ UNCHANGED <<scene, held, src, dst, seen, roomVars, saleVars>>

Only(S) == IF S = {} THEN None ELSE CHOOSE o \in S : TRUE

\* A statement succeeds: its rows are held, what it read is remembered.
Advance(w) ==
  LET s == Head(todo[w])[1]
  IN  /\ req[w] # None /\ s # "commit"
      /\ Granted(w) /\ Check(w)
      /\ todo' = [todo EXCEPT ![w] = Tail(@)]
      /\ held' = [held EXCEPT ![w] = @ \union Rows(w)]
      /\ src'  = [src EXCEPT ![w] = IF s = "source" THEN Only(Drafts(req[w].table)) ELSE @]
      /\ dst'  = [dst EXCEPT ![w] = IF s = "target" THEN Only(Drafts(req[w].target)) ELSE @]
      /\ seen' = [seen EXCEPT ![w] = IF s = "target" THEN LinesOf(src[w]) ELSE @]
      /\ UNCHANGED <<scene, req, roomVars, saleVars>>

Leave(w) ==
  /\ req'  = [req EXCEPT ![w] = None]
  /\ todo' = [todo EXCEPT ![w] = <<>>]
  /\ held' = [held EXCEPT ![w] = {}]
  /\ src'  = [src EXCEPT ![w] = None]
  /\ dst'  = [dst EXCEPT ![w] = None]
  /\ seen' = [seen EXCEPT ![w] = {}]
  /\ UNCHANGED scene

\* An error response, or an IntegrityError: rollback.
Refuse(w) ==
  /\ req[w] # None
  /\ Granted(w) /\ ~Check(w)
  /\ Leave(w)
  /\ UNCHANGED <<roomVars, saleVars>>

\* A crash before the commit, or the victim of a deadlock.
Abort(w) ==
  /\ req[w] # None
  /\ Leave(w)
  /\ UNCHANGED <<roomVars, saleVars>>

-----------------------------------------------------------------------------
(* Commits, one per handler. *)

Committing(w, op) == At(w, "commit") /\ req[w].op = op /\ Check(w) /\ Leave(w)

CreateZone(w) ==
  /\ Committing(w, "create_zone")
  /\ zones' = [zones EXCEPT ![req[w].zone] = "active"]
  /\ UNCHANGED <<tables, saleVars>>

UpdateZone(w) ==
  /\ Committing(w, "update_zone")
  /\ zones' = [zones EXCEPT ![req[w].zone] = IF req[w].active THEN "active" ELSE "inactive"]
  /\ UNCHANGED <<tables, saleVars>>

CreateTable(w) ==
  /\ Committing(w, "create_table")
  /\ LET r == req[w]
     IN  tables' = [tables EXCEPT ![r.table] =
                      [status |-> "active", zone |-> r.zone, name |-> r.name]]
  /\ UNCHANGED <<zones, saleVars>>

UpdateTable(w) ==
  /\ Committing(w, "update_table")
  /\ LET r == req[w]
     IN  tables' = [tables EXCEPT ![r.table] =
                      [status |-> IF r.active THEN "active" ELSE "inactive",
                       zone |-> ZoneAfter(r), name |-> NameAfter(r)]]
  /\ UNCHANGED <<zones, saleVars>>

NewOrder(o, t, n) == [NoOrder EXCEPT !.status = "draft", !.table = t, !.guests = n]

OpenTable(w) ==
  /\ Committing(w, "open_table")
  /\ orders' = [orders EXCEPT ![Min(FreshOrders)] = NewOrder(@, req[w].table, req[w].guests)]
  /\ UNCHANGED <<roomVars, lines, dishes, ordered>>

UpdateSession(w) ==
  /\ Committing(w, "update_session")
  /\ orders' = [orders EXCEPT ![req[w].order].guests = req[w].guests]
  /\ UNCHANGED <<roomVars, lines, dishes, ordered>>

RequestBill(w) ==
  /\ Committing(w, "request_bill")
  /\ orders' = [orders EXCEPT ![req[w].order].bill = TRUE]
  /\ UNCHANGED <<roomVars, lines, dishes, ordered>>

CancelBill(w) ==
  /\ Committing(w, "cancel_bill")
  /\ orders' = [orders EXCEPT ![req[w].order].bill = FALSE]
  /\ UNCHANGED <<roomVars, lines, dishes, ordered>>

\* The kitchen hook gives the line a dish on the ticket of its order.
AddLine(w) ==
  /\ Committing(w, "add_line")
  /\ LET l == Min(FreshLines)
     IN  /\ lines'  = [lines EXCEPT ![l] = [order |-> req[w].order, qty |-> req[w].qty]]
         /\ dishes' = [dishes EXCEPT ![l] = req[w].order]
  /\ ordered' = ordered + req[w].qty
  /\ UNCHANGED <<roomVars, orders>>

CloseOrder(w) ==
  /\ Committing(w, "close_order")
  /\ orders' = [orders EXCEPT ![req[w].order].status = "paid"]
  /\ UNCHANGED <<roomVars, lines, dishes, ordered>>

Voided(o, why) == [orders[o] EXCEPT !.status = "voided", !.why = why]

\* on_sale_order_voided cancels the dishes of the order's ticket.
VoidOrder(w) ==
  /\ Committing(w, "void_order")
  /\ LET o == req[w].order
     IN  /\ orders' = [orders EXCEPT ![o] = Voided(o, "void")]
         /\ dishes' = [l \in Line |-> IF dishes[l] = o THEN None ELSE dishes[l]]
  /\ UNCHANGED <<roomVars, lines, ordered>>

\* The same order, at another table.
TransferTable(w) ==
  /\ Committing(w, "transfer_table")
  /\ orders' = [orders EXCEPT ![src[w]].table = req[w].target]
  /\ UNCHANGED <<roomVars, lines, dishes, ordered>>

\* _void_draft_in_place: no kitchen hook.
MergeTables(w) ==
  /\ Committing(w, "merge_tables")
  /\ LET from == src[w]
         to   == dst[w]
     IN  /\ lines'  = [l \in Line |-> IF l \in seen[w] THEN [lines[l] EXCEPT !.order = to]
                                                        ELSE lines[l]]
         /\ orders' = [orders EXCEPT ![from] = Voided(from, "move"),
                                     ![to].guests = IF @ = 0 THEN orders[from].guests ELSE @]
  /\ UNCHANGED <<roomVars, dishes, ordered>>

\* Mutant: a line that moves in part keeps its whole quantity.
SplitLines_KeepWhole(r, new) ==
  LET row == CHOOSE f \in Injection(Partial(r), FreshLines) : TRUE
  IN  [l \in Line |->
        IF l \in DOMAIN r.parts \ Partial(r) THEN [lines[l] EXCEPT !.order = new]
        ELSE IF \E p \in Partial(r) : row[p] = l
          THEN [order |-> new, qty |-> r.parts[CHOOSE p \in Partial(r) : row[p] = l]]
        ELSE lines[l]]

\* Whole lines change order; of a line that moves in part, the rest stays and
\* a new row goes.  The new row gets no dish.
SplitLines(r, new) ==
  LET row == CHOOSE f \in Injection(Partial(r), FreshLines) : TRUE
  IN  [l \in Line |->
        IF l \in Partial(r) THEN [lines[l] EXCEPT !.qty = @ - r.parts[l]]
        ELSE IF l \in DOMAIN r.parts THEN [lines[l] EXCEPT !.order = new]
        ELSE IF \E p \in Partial(r) : row[p] = l
          THEN [order |-> new, qty |-> r.parts[CHOOSE p \in Partial(r) : row[p] = l]]
        ELSE lines[l]]

SplitTable(w) ==
  /\ Committing(w, "split_table")
  /\ LET new  == Min(FreshOrders)
         from == src[w]
     IN  /\ lines'  = SplitLines(req[w], new)
         /\ orders' = [orders EXCEPT
              ![new]  = NewOrder(@, req[w].target, 0),
              ![from] = IF \E l \in Line : lines'[l].order = from THEN @ ELSE Voided(from, "move")]
  /\ UNCHANGED <<roomVars, dishes, ordered>>

Commit(w) ==
  \/ CreateZone(w)   \/ UpdateZone(w)    \/ CreateTable(w) \/ UpdateTable(w)
  \/ OpenTable(w)    \/ UpdateSession(w) \/ RequestBill(w) \/ CancelBill(w)
  \/ AddLine(w)      \/ CloseOrder(w)    \/ VoidOrder(w)
  \/ TransferTable(w) \/ MergeTables(w)  \/ SplitTable(w)

Next ==
  \E w \in Worker :
    \/ \E r \in Request : Begin(w, r)
    \/ Advance(w)
    \/ Refuse(w)
    \/ Abort(w)
    \/ Commit(w)

Spec == Init /\ [][Next]_vars

-----------------------------------------------------------------------------
(* Properties. *)

\* The rows have the shape the schema gives them.
FloorTypeOK ==
  /\ zones \in [Zone -> {"none", "active", "inactive"}]
  /\ tables \in [Table -> [status : {"none", "active", "inactive"},
                           zone : Zone \union {None}, name : Name \union {None}]]
  /\ \A o \in Order :
       /\ orders[o].status \in {"none", "draft", "paid", "voided"}
       /\ orders[o].table \in Table \union {None}
       /\ (orders[o].status = "none") <=> (orders[o].table = None)
       /\ (orders[o].status = "voided") <=> (orders[o].why # None)
  /\ lines \in [Line -> [order : Order \union {None}, qty : Nat]]
  /\ dishes \in [Line -> Order \union {None}]
  /\ \A w \in Worker : req[w] \in Request \union {None}
  /\ \A w \in Worker : todo[w] = <<>> <=> req[w] = None

SettledUnits ==
  SumFunctionOnSet([o \in Order |-> Units(o)],
                   {o \in Order : orders[o].status = "paid" \/ orders[o].why = "void"})

\* Transfers, merges and splits neither lose nor double what was ordered: the
\* open totals the plan shows and the orders that were charged or voided by
\* hand add up to the units ever ordered.
UnitsKept ==
  SumFunctionOnSet([t \in Table |-> Plan[t].total], {t \in Table : Plan[t].status # "free"})
    + SettledUnits = ordered

\* A ticket that was charged keeps its lines: no move that was waiting for
\* the order, or had already read its lines, changes them.
PaidKeepsLines ==
  [][\A o \in Order : orders[o].status = "paid" =>
       \A l \in Line : (lines[l].order = o \/ lines'[l].order = o) => lines'[l] = lines[l]]_vars

Waits(w, v) == req[w] # None /\ \E row \in Rows(w) : row \in held[v]

\* No set of requests waits on itself, as long as nobody is opening a table
\* (whose insert takes the index entry before the table row).
MovesNeverDeadlock ==
  \A S \in SUBSET {w \in Worker : req[w] # None /\ req[w].op # "open_table"} :
    S # {} => \E w \in S : \A v \in S \ {w} : ~Waits(w, v)

\* The comment of _lock_two_tables: canonical order, no deadlocks at all.
NeverDeadlock ==
  \A S \in SUBSET {w \in Worker : req[w] # None} :
    S # {} => \E w \in S : \A v \in S \ {w} : ~Waits(w, v)

\* The comment of the board query: what is voided in sales is cancelled in
\* the kitchen as well, so no dish is open on a ticket the board hides.
VoidedLeavesNoDish ==
  \A l \in Line : dishes[l] # None => l \in Board
=============================================================================
