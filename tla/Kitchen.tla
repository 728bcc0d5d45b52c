------------------------------ MODULE Kitchen ------------------------------
(***************************************************************************)
(* One order and its kitchen ticket: services/kitchen.py, written by the   *)
(* sale (hooks inside its transactions, under the lock of the order row)   *)
(* and by the kitchen display, whose handlers lock no row before they      *)
(* write.                                                                  *)
(*                                                                         *)
(* A handler reads, decides, flushes the lines it changed (its UPDATEs     *)
(* wait for the rows of other transactions and then overwrite them), lists *)
(* the lines to derive the header, and commits.  A session keeps believing *)
(* the rows it loaded first: seen is its identity map.                     *)
(*                                                                         *)
(* Every line is of a kitchen article.  Stations, priority, notes and the  *)
(* printed KOT are left out.                                               *)
(***************************************************************************)
EXTENDS Naturals, FiniteSets

CONSTANTS
  Worker,   \* handlers that run at the same time
  Line,     \* sale lines the order may have
  Request,  \* the requests clients may send, each any number of times
  None      \* no request

LineTarget == {"pending", "preparing", "ready", "served"}
Terminal   == {"served", "cancelled"}
KdsOp      == {"set_line_status", "set_ticket_status"}
SaleOp     == {"add_line", "update_line", "remove_line", "pay", "void_order"}

WellFormed(r) ==
  /\ r.op \in KdsOp \union SaleOp
  /\ r.op \in KdsOp => r.target \in LineTarget
  /\ r.op \in {"set_line_status", "add_line", "update_line", "remove_line"} => r.line \in Line
  /\ r.op \in {"add_line", "update_line"} => r.qty \in Nat \ {0}

ASSUME RequestAssumption == None \notin Request /\ \A r \in Request : WellFormed(r)

VARIABLES
  order,   \* orders.status
  sold,    \* order_lines.quantity, 0 where there is no line
  cook,    \* kitchen_order_lines.quantity, 0 where there is no line
  dish,    \* kitchen_order_lines.status, "absent" where there is no line
  ticket,  \* kitchen_orders: status ("none" without a row), ready_at and served_at set
  req,     \* the request a worker runs
  pc,      \* where it is
  seen,    \* the ticket and the lines its session has loaded
  held,    \* the lines its transaction has written
  head,    \* the header it is about to write
  calm     \* observer: no two handlers have overlapped, and no dish has joined
           \* a ticket that was ready or served

rowVars  == <<order, sold, cook, dish, ticket>>
workVars == <<req, pc, seen, held, head>>
vars     == <<rowVars, workVars, calm>>

NoTicket == [status |-> "none", ready |-> FALSE, served |-> FALSE]
NoLines  == [l \in Line |-> "absent"]
Unseen   == [ticket |-> NoTicket, lines |-> NoLines]

Init ==
  /\ order  = "draft"
  /\ sold   = [l \in Line |-> 0]
  /\ cook   = [l \in Line |-> 0]
  /\ dish   = NoLines
  /\ ticket = NoTicket
  /\ req    = [w \in Worker |-> None]
  /\ pc     = [w \in Worker |-> "idle"]
  /\ seen   = [w \in Worker |-> Unseen]
  /\ held   = [w \in Worker |-> {}]
  /\ head   = [w \in Worker |-> "none"]
  /\ calm   = TRUE

-----------------------------------------------------------------------------
(* The state machine of domain/kitchen.py. *)

\* Mutant: the kitchen may take back what it served.
Transitions_Unserve ==
  [pending   |-> {"preparing", "ready", "cancelled"},
   preparing |-> {"pending", "ready", "cancelled"},
   ready     |-> {"preparing", "served", "cancelled"},
   served    |-> {"ready"},
   cancelled |-> {}]

\* The same for a line and for the header.
Transitions ==
  [pending   |-> {"preparing", "ready", "cancelled"},
   preparing |-> {"pending", "ready", "cancelled"},
   ready     |-> {"preparing", "served", "cancelled"},
   served    |-> {},
   cancelled |-> {}]

CanMove(from, to) == to \in Transitions[from]

\* derive_ticket_status: the header that the lines of a ticket give.
Derive(lines) ==
  LET active == {lines[l] : l \in Line} \ {"absent", "cancelled"}
  IN  IF active \subseteq {"served"} THEN "served"
      ELSE IF active \subseteq {"ready", "served"} THEN "ready"
      ELSE IF active = {"pending"} THEN "pending" ELSE "preparing"

\* Mutant: the table has no such CHECK.
FlowCheck_None(t) == TRUE

\* ck_kitchen_orders_flow: served_at needs ready_at.
FlowCheck(t) == t.served => t.ready

\* The header after an UPDATE, which writes the columns that differ from
\* what the session had loaded.
Headed(loaded, status) ==
  [status |-> status,
   ready  |-> CASE status \in {"ready", "served"} /\ ~loaded.ready -> TRUE
                [] status = "preparing" /\ loaded.ready            -> FALSE
                [] OTHER                                           -> ticket.ready,
   served |-> ticket.served \/ status = "served"]

-----------------------------------------------------------------------------
(* What the handlers check and load. *)

Listed(lines) == {l \in Line : lines[l] \notin {"absent", "cancelled"}}

MaySet(l, target) == dish[l] = target \/ CanMove(dish[l], target)

\* What a handler checks on the rows it reads.
Check(r) ==
  CASE r.op = "set_line_status" ->
         /\ dish[r.line] # "absent"
         /\ ticket.status \notin Terminal
         /\ MaySet(r.line, r.target)
    [] r.op = "set_ticket_status" ->
         /\ ticket.status \notin Terminal \union {"none"}
         /\ ticket.status = r.target \/ CanMove(ticket.status, r.target)
         /\ \A l \in Listed(dish) : MaySet(l, r.target)
    [] r.op = "add_line" ->
         order = "draft" /\ sold[r.line] = 0
    [] r.op \in {"update_line", "remove_line"} -> order = "draft" /\ sold[r.line] # 0
    [] r.op = "pay"                            -> order = "draft" /\ \E l \in Line : sold[l] # 0
    [] r.op = "void_order"                     -> order # "voided"

\* The lines whose rows it loads.
Loaded(r) ==
  CASE r.op \in {"set_ticket_status", "void_order"} -> Listed(dish)
    [] r.op \in {"add_line", "pay"}                 -> {}
    [] OTHER                                        -> {r.line}

\* The lines it writes before it derives the header.
Mine(w) ==
  CASE req[w].op \in KdsOp -> {l \in Listed(seen[w].lines) : seen[w].lines[l] # req[w].target}
    [] OTHER               -> {req[w].line}

\* Mutant: the sale does not lock the order.
OrderFree_NoLock(w) == TRUE

\* SELECT ... FOR UPDATE of the order: one sale handler at a time.
OrderFree(w) == \A v \in Worker \ {w} : req[v] # None => req[v].op \notin SaleOp

RowsFree(w, rows) == \A v \in Worker \ {w} : held[v] \intersect rows = {}

\* list_lines_of_ticket inside the transaction of w, which has just written
\* its lines: the rows are those the database has, but what w loaded before
\* it believes as it loaded or set it.
Believed(w) ==
  LET r == req[w]
      own(l)  == IF r.op \in KdsOp THEN r.target ELSE "absent"
      rows(l) == IF l \in Mine(w) THEN own(l) ELSE dish[l]
  IN  [l \in Line |->
         IF l \notin Mine(w) /\ rows(l) \notin {"absent", "cancelled"} /\ seen[w].lines[l] # "absent"
         THEN seen[w].lines[l] ELSE rows(l)]

Leave(w) ==
  /\ req'  = [req EXCEPT ![w] = None]
  /\ pc'   = [pc EXCEPT ![w] = "idle"]
  /\ seen' = [seen EXCEPT ![w] = Unseen]
  /\ held' = [held EXCEPT ![w] = {}]
  /\ head' = [head EXCEPT ![w] = "none"]
  /\ UNCHANGED calm

-----------------------------------------------------------------------------

Alone == \A w \in Worker : req[w] = None
Late(r) == r.op = "add_line" /\ ticket.status \in {"ready", "served"}

\* A handler starts and its checks pass; when they do not it answers with an
\* error and nothing has changed.
Read(w, r) ==
  /\ req[w] = None
  /\ r.op \in SaleOp => OrderFree(w)
  /\ Check(r)
  /\ req'  = [req EXCEPT ![w] = r]
  /\ pc'   = [pc EXCEPT ![w] = IF r.op \in KdsOp \union {"remove_line"} THEN "flush" ELSE "commit"]
  /\ seen' = [seen EXCEPT ![w] =
                [ticket |-> ticket,
                 lines  |-> [l \in Line |-> IF l \in Loaded(r) THEN dish[l] ELSE "absent"]]]
  /\ calm' = (calm /\ Alone /\ ~Late(r))
  /\ UNCHANGED <<rowVars, held, head>>

At(w, p) == req[w] # None /\ pc[w] = p

\* Mutant: only the bulk buttons derive the header.
Header_BulkOnly(w) ==
  IF req[w].op = "set_ticket_status" THEN Derive(Believed(w)) ELSE "none"

\* _sync_ticket_header, up to the commit: the header to write, if any.  A
\* double tap on a line derives nothing; a removal that leaves no line
\* deletes the ticket.
Header(w) ==
  LET before == seen[w].ticket.status
      after  == Derive(Believed(w))
  IN  IF req[w].op = "set_line_status" /\ Mine(w) = {} THEN "none"
      ELSE IF req[w].op = "remove_line" /\ Listed(Believed(w)) = {} THEN "delete"
      ELSE IF after = before THEN "none"
      ELSE IF CanMove(before, after) THEN after ELSE "refused"

\* The lines are written, and the header derived.
Flush(w) ==
  /\ At(w, "flush")
  /\ RowsFree(w, Mine(w))
  /\ \A l \in Mine(w) : dish[l] # "absent"
  /\ Header(w) # "refused"
  /\ head' = [head EXCEPT ![w] = Header(w)]
  /\ held' = [held EXCEPT ![w] = Mine(w)]
  /\ pc'   = [pc EXCEPT ![w] = "commit"]
  /\ UNCHANGED <<rowVars, req, seen, calm>>

\* The header may not go there (409), or a line is gone (StaleDataError).
RefuseFlush(w) ==
  /\ At(w, "flush")
  /\ RowsFree(w, Mine(w))
  /\ (\E l \in Mine(w) : dish[l] = "absent") \/ Header(w) = "refused"
  /\ Leave(w)
  /\ UNCHANGED rowVars

NewHeader(w) == IF head[w] = "none" THEN ticket ELSE Headed(seen[w].ticket, head[w])

\* The commit of set_line_status and set_ticket_status.
SetStatus(w) ==
  /\ At(w, "commit") /\ req[w].op \in KdsOp
  /\ head[w] # "none" => ticket.status # "none" /\ FlowCheck(NewHeader(w))
  /\ dish'   = [l \in Line |-> IF l \in held[w] THEN req[w].target ELSE dish[l]]
  /\ ticket' = NewHeader(w)
  /\ Leave(w)
  /\ UNCHANGED <<order, sold, cook>>

\* The table's CHECK, or a ticket that is gone: error and rollback.
RefuseStatus(w) ==
  /\ At(w, "commit") /\ req[w].op \in KdsOp \union {"remove_line"}
  /\ head[w] \notin {"none", "delete"}
  /\ ticket.status = "none" \/ ~FlowCheck(NewHeader(w))
  /\ Leave(w)
  /\ UNCHANGED rowVars

\* on_sale_line_added: the first line opens the ticket.
AddLine(w) ==
  /\ At(w, "commit") /\ req[w].op = "add_line"
  /\ sold'   = [sold EXCEPT ![req[w].line] = req[w].qty]
  /\ cook'   = [cook EXCEPT ![req[w].line] = req[w].qty]
  /\ dish'   = [dish EXCEPT ![req[w].line] = "pending"]
  /\ ticket' = IF seen[w].ticket.status = "none" THEN [NoTicket EXCEPT !.status = "pending"]
                                                 ELSE ticket
  /\ Leave(w)
  /\ UNCHANGED order

\* What on_sale_line_updated leaves alone.
Finished(status) == status \in {"ready"} \union Terminal

\* on_sale_line_updated: what the kitchen finished is not rewritten.
UpdateLine(w) ==
  /\ At(w, "commit") /\ req[w].op = "update_line"
  /\ LET l == req[w].line
         known == seen[w].lines[l]
     IN  /\ sold' = [sold EXCEPT ![l] = req[w].qty]
         /\ IF known = "absent" \/ Finished(known)
            THEN UNCHANGED cook
            ELSE RowsFree(w, {l}) /\ cook' = [cook EXCEPT ![l] = req[w].qty]
  /\ Leave(w)
  /\ UNCHANGED <<order, dish, ticket>>

\* on_sale_line_removed: the kitchen line goes with the sale line, and the
\* ticket with its last line.
RemoveLine(w) ==
  /\ At(w, "commit") /\ req[w].op = "remove_line"
  /\ head[w] # "delete" => FlowCheck(NewHeader(w))
  /\ sold'   = [sold EXCEPT ![req[w].line] = 0]
  /\ cook'   = [cook EXCEPT ![req[w].line] = 0]
  /\ dish'   = [dish EXCEPT ![req[w].line] = "absent"]
  /\ ticket' = IF head[w] = "delete" THEN NoTicket ELSE NewHeader(w)
  /\ Leave(w)
  /\ UNCHANGED order

Pay(w) ==
  /\ At(w, "commit") /\ req[w].op = "pay"
  /\ order' = "paid"
  /\ Leave(w)
  /\ UNCHANGED <<sold, cook, dish, ticket>>

\* The lines a void cancels: those it loaded as not finished.
Cancelled(w) == {l \in Listed(seen[w].lines) : seen[w].lines[l] \notin Terminal}

\* on_sale_order_voided: a ticket that is not finished is cancelled.
VoidOrder(w) ==
  /\ At(w, "commit") /\ req[w].op = "void_order"
  /\ order' = "voided"
  /\ IF seen[w].ticket.status \in Terminal \union {"none"}
     THEN UNCHANGED <<dish, ticket>>
     ELSE /\ RowsFree(w, Cancelled(w))
          /\ dish'   = [l \in Line |-> IF l \in Cancelled(w) THEN "cancelled" ELSE dish[l]]
          /\ ticket' = [ticket EXCEPT !.status = "cancelled"]
  /\ Leave(w)
  /\ UNCHANGED <<sold, cook>>

\* A crash or an error before the commit: rollback.
Abort(w) == req[w] # None /\ Leave(w) /\ UNCHANGED rowVars

Next ==
  \E w \in Worker :
    \/ \E r \in Request : Read(w, r)
    \/ Flush(w) \/ RefuseFlush(w)
    \/ SetStatus(w) \/ RefuseStatus(w)
    \/ AddLine(w) \/ UpdateLine(w) \/ RemoveLine(w)
    \/ Pay(w) \/ VoidOrder(w)
    \/ Abort(w)

Spec == Init /\ [][Next]_vars

-----------------------------------------------------------------------------
(* Properties. *)

LineStatus == LineTarget \union Terminal \union {"absent"}

TicketType == [status : (LineStatus \ {"absent"}) \union {"none"}, ready : BOOLEAN, served : BOOLEAN]

\* Types of the rows, with the table's CHECK, and of the handlers in flight.
KitchenTypeOK ==
  /\ order \in {"draft", "paid", "voided"}
  /\ sold \in [Line -> Nat] /\ cook \in [Line -> Nat]
  /\ dish \in [Line -> LineStatus]
  /\ ticket \in TicketType /\ (ticket.served => ticket.ready)
  /\ req \in [Worker -> Request \union {None}]
  /\ pc \in [Worker -> {"idle", "flush", "commit"}]
  /\ seen \in [Worker -> [ticket : TicketType, lines : [Line -> LineStatus]]]
  /\ held \in [Worker -> SUBSET Line]
  /\ head \in [Worker -> (LineStatus \ {"absent"}) \union {"none", "delete"}]

\* The kitchen has a line for every line of the sale and no other, and a
\* ticket exactly while it has a line: removals never leave the kitchen a
\* ghost, whatever the display does to the same lines.
KitchenFollowsSale ==
  /\ \A l \in Line : sold[l] # 0 <=> dish[l] # "absent"
  /\ ticket.status # "none" <=> \E l \in Line : dish[l] # "absent"

\* domain/kitchen.py: "El estado de la comanda (cabecera) se DERIVA de sus
\* líneas", unless the sale was voided; as long as handlers do not overlap and
\* no dish comes late.
HeaderDerived ==
  (calm /\ ticket.status # "none" /\ order # "voided") => ticket.status = Derive(dish)

\* domain/kitchen.py: "SERVIDO y CANCELADA son terminales", for a line.
TerminalForGood ==
  [][\A l \in Line : dish[l] \in Terminal => dish'[l] \in {dish[l], "absent"}]_vars

\* The same while handlers do not overlap; and on_sale_line_updated: "lo ya
\* cocinado no se reescribe".
CalmHistory ==
  [][calm' => \A l \in Line :
       /\ dish[l] \in Terminal => dish'[l] \in {dish[l], "absent"}
       /\ dish[l] \in {"ready", "served"} => cook'[l] \in {cook[l], 0}]_vars

=============================================================================
