--------------------------- MODULE KitchenProofs ---------------------------
(***************************************************************************)
(* The kitchen's ticket, for any number of handlers, lines and requests:   *)
(* its lines are those of the sale always, and its header is derived as    *)
(* long as handlers do not overlap.                                        *)
(***************************************************************************)
EXTENDS Kitchen, TLAPS

(* The inductive invariant. *)

Selling(w)  == req[w] # None /\ req[w].op \in SaleOp
Deriving(w) == At(w, "commit") /\ req[w].op \in KdsOp \union {"remove_line"}

\* The lock of the order row: one handler of the sale at a time.
OneSale == \A v, w \in Worker : Selling(v) /\ Selling(w) => v = w

\* Where a handler is, what it has written and what it is about to write.
Stages ==
  \A w \in Worker :
    /\ req[w] = None => pc[w] = "idle"
    /\ req[w] # None => pc[w] \in {"flush", "commit"}
    /\ pc[w] = "flush" => req[w].op \in KdsOp \union {"remove_line"}
    /\ IF Deriving(w) THEN held[w] = Mine(w) ELSE held[w] = {} /\ head[w] = "none"
    /\ head[w] = "delete" => req[w].op = "remove_line"

\* No two transactions have written a line, and no line they have written is
\* gone.
Rows ==
  /\ \A v, w \in Worker : v # w => held[v] \intersect held[w] = {}
  /\ \A w \in Worker : \A l \in held[w] : dish[l] # "absent"

\* What a handler of the sale found is still so: only another one could
\* change which lines there are.
Found(w) ==
  /\ req[w].op # "void_order" => order = "draft"
  /\ req[w].op = "add_line" => sold[req[w].line] = 0
  /\ req[w].op \in {"update_line", "remove_line"} => sold[req[w].line] # 0
  /\ seen[w].ticket.status = "none" <=> ticket.status = "none"
  /\ \A l \in Line : seen[w].lines[l] # "absent" => dish[l] # "absent"
  /\ req[w].op = "remove_line" => \A l \in Line \ {req[w].line} : seen[w].lines[l] = "absent"
  /\ At(w, "commit") /\ req[w].op = "remove_line" =>
       (head[w] = "delete" <=> \A l \in Line \ {req[w].line} : dish[l] = "absent")

Sales == \A w \in Worker : Selling(w) => Found(w)

\* Only a void cancels.
Cancels == order # "voided" => \A l \in Line : dish[l] # "cancelled"

KInv == KitchenTypeOK /\ OneSale /\ Stages /\ Rows /\ Sales /\ Cancels /\ KitchenFollowsSale

-----------------------------------------------------------------------------
(* The operators of the model. *)

LEMMA Statuses ==
  /\ LineStatus = {"pending", "preparing", "ready", "served", "cancelled", "absent"}
  /\ TicketType = [status : {"pending", "preparing", "ready", "served", "cancelled", "none"},
                   ready : BOOLEAN, served : BOOLEAN]
  /\ NoTicket \in TicketType /\ NoTicket.status = "none" /\ ~NoTicket.served
  /\ NoLines \in [Line -> LineStatus] /\ \A l \in Line : NoLines[l] = "absent"
<1>1. LineStatus = {"pending", "preparing", "ready", "served", "cancelled", "absent"}
  BY DEF LineStatus, LineTarget, Terminal
<1>2. LineStatus \ {"absent"} = {"pending", "preparing", "ready", "served", "cancelled"}
  BY <1>1
<1>3. TicketType = [status : {"pending", "preparing", "ready", "served", "cancelled", "none"},
                    ready : BOOLEAN, served : BOOLEAN]
  BY <1>2 DEF TicketType
<1> QED
  BY <1>1, <1>3 DEF NoTicket, NoLines

\* A move starts from what is not terminal.
LEMMA Moves ==
  ASSUME NEW from \in {"pending", "preparing", "ready", "served", "cancelled"}, NEW to, CanMove(from, to)
  PROVE  from \notin Terminal
BY DEF CanMove, Transitions, Terminal

LEMMA DerivedStatus ==
  ASSUME NEW lines
  PROVE  Derive(lines) \in {"pending", "preparing", "ready", "served"}
BY DEF Derive

\* The same lines have the same header.
LEMMA DeriveSame ==
  ASSUME NEW f, NEW g, \A l \in Line : f[l] = g[l]
  PROVE  Derive(f) = Derive(g)
<1>1. {f[l] : l \in Line} = {g[l] : l \in Line}
  OBVIOUS
<1> QED
  BY <1>1 DEF Derive

LEMMA HeaderIs ==
  ASSUME NEW w \in Worker
  PROVE  /\ Header(w) \in {"pending", "preparing", "ready", "served", "none", "delete", "refused"}
         /\ (Header(w) = "delete" <=> req[w].op = "remove_line" /\ Listed(Believed(w)) = {})
<1>1. req[w].op = "set_line_status" => req[w].op # "remove_line"
  OBVIOUS
<1> QED
  BY <1>1, DerivedStatus DEF Header

LEMMA HeadedType ==
  ASSUME ticket \in TicketType, NEW loaded, loaded \in TicketType,
         NEW status \in {"pending", "preparing", "ready", "served", "cancelled"}
  PROVE  Headed(loaded, status) \in TicketType /\ Headed(loaded, status).status = status
<1>1. ticket.ready \in BOOLEAN /\ ticket.served \in BOOLEAN /\ loaded.ready \in BOOLEAN
  BY Statuses
<1>2. PICK ready : ready = CASE status \in {"ready", "served"} /\ ~loaded.ready -> TRUE
                             [] status = "preparing" /\ loaded.ready            -> FALSE
                             [] OTHER                                           -> ticket.ready
  OBVIOUS
<1>3. ready \in BOOLEAN
  BY <1>1, <1>2
<1>4. PICK served : served = (ticket.served \/ status = "served")
  OBVIOUS
<1>5. served \in BOOLEAN
  BY <1>4
<1>6. Headed(loaded, status) = [status |-> status, ready |-> ready, served |-> served]
  BY <1>2, <1>4 DEF Headed
<1> QED
  BY <1>3, <1>5, <1>6, Statuses

\* What the checks of a request say.
LEMMA Checked ==
  ASSUME NEW r \in Request, Check(r)
  PROVE  /\ WellFormed(r)
         /\ r.op = "set_line_status" =>
              dish[r.line] # "absent" /\ ticket.status \notin Terminal /\ MaySet(r.line, r.target)
         /\ r.op = "set_ticket_status" =>
              ticket.status \notin Terminal \union {"none"} /\ \A l \in Listed(dish) : MaySet(l, r.target)
         /\ r.op = "add_line" => order = "draft" /\ sold[r.line] = 0
         /\ r.op \in {"update_line", "remove_line"} => order = "draft" /\ sold[r.line] # 0
         /\ r.op = "pay" => order = "draft"
         /\ r.op = "void_order" => order # "voided"
<1>1. WellFormed(r)
  BY RequestAssumption
<1>2. r.op = "set_line_status" =>
        dish[r.line] # "absent" /\ ticket.status \notin Terminal /\ MaySet(r.line, r.target)
  BY DEF Check
<1>3. r.op = "set_ticket_status" =>
        ticket.status \notin Terminal \union {"none"} /\ \A l \in Listed(dish) : MaySet(l, r.target)
  BY DEF Check
<1>4. r.op = "add_line" => order = "draft" /\ sold[r.line] = 0
  BY DEF Check
<1>5. r.op \in {"update_line", "remove_line"} => order = "draft" /\ sold[r.line] # 0
  BY DEF Check
<1>6. r.op = "pay" => order = "draft"
  BY DEF Check
<1>7. r.op = "void_order" => order # "voided"
  BY DEF Check
<1> QED
  BY <1>1, <1>2, <1>3, <1>4, <1>5, <1>6, <1>7

LEMMA LoadedLines ==
  ASSUME NEW r, KitchenTypeOK
  PROVE  /\ r.op \in {"set_ticket_status", "void_order"} => Loaded(r) = Listed(dish)
         /\ r.op \in {"add_line", "pay"} => Loaded(r) = {}
         /\ r.op \in {"set_line_status", "update_line", "remove_line"} => Loaded(r) = {r.line}
<1>1. r.op \in {"set_ticket_status", "void_order"} => Loaded(r) = Listed(dish)
  BY DEF Loaded
<1>2. r.op \in {"add_line", "pay"} => Loaded(r) = {}
  BY DEF Loaded
<1>3. r.op \in {"set_line_status", "update_line", "remove_line"} => Loaded(r) = {r.line}
  BY DEF Loaded
<1> QED
  BY <1>1, <1>2, <1>3

LEMMA InitKInv == Init => KInv
<1> SUFFICES ASSUME Init PROVE KInv
  OBVIOUS
<1>1. KitchenTypeOK
  BY Statuses DEF Init, KitchenTypeOK, NoTicket, NoLines, Unseen
<1>2. \A l \in Line : dish[l] = "absent" /\ sold[l] = 0
  BY DEF Init, NoLines
<1>3. \A w \in Worker : req[w] = None /\ pc[w] = "idle" /\ held[w] = {} /\ head[w] = "none"
  BY DEF Init
<1>4. OneSale /\ Stages /\ Rows /\ Sales
  BY <1>3 DEF OneSale, Stages, Rows, Sales, Selling, Deriving, At
<1>5. ticket.status = "none"
  BY DEF Init, NoTicket
<1>6. Cancels /\ KitchenFollowsSale
  BY <1>2, <1>5 DEF Cancels, KitchenFollowsSale
<1> QED
  BY <1>1, <1>4, <1>6 DEF KInv

-----------------------------------------------------------------------------
(* The steps of every handler. *)

RowTypes ==
  /\ order \in {"draft", "paid", "voided"}
  /\ sold \in [Line -> Nat] /\ cook \in [Line -> Nat]
  /\ dish \in [Line -> LineStatus]
  /\ ticket \in TicketType /\ (ticket.served => ticket.ready)

\* The same lines are there, and a ticket if there was one.
SamePresence ==
  /\ order' = order /\ sold' = sold
  /\ \A l \in Line : dish'[l] = "absent" <=> dish[l] = "absent"
  /\ ticket'.status = "none" <=> ticket.status = "none"

SameHandler(v) ==
  /\ req'[v] = req[v] /\ pc'[v] = pc[v] /\ seen'[v] = seen[v]
  /\ held'[v] = held[v] /\ head'[v] = head[v]

LEMMA HandlerStays ==
  ASSUME NEW v \in Worker, SameHandler(v)
  PROVE  /\ Selling(v)' <=> Selling(v)
         /\ Deriving(v)' <=> Deriving(v)
         /\ Mine(v)' = Mine(v)
<1>1. Mine(v)' = Mine(v)
  BY DEF SameHandler, Mine, Listed
<1> QED
  BY <1>1 DEF SameHandler, Selling, Deriving, At

LEMMA FoundKept ==
  ASSUME NEW v \in Worker, SameHandler(v), SamePresence, Found(v)
  PROVE  Found(v)'
BY DEF SameHandler, SamePresence, Found, At

LEMMA Lines ==
  ASSUME KInv, NEW w \in Worker, req[w] # None
  PROVE  /\ req[w] \in Request /\ WellFormed(req[w])
         /\ req[w].op \in KdsOp \union SaleOp
         /\ req[w].op \in KdsOp => req[w].target \in LineTarget
         /\ req[w].op \in {"set_line_status", "add_line", "update_line", "remove_line"} => req[w].line \in Line
         /\ req[w].op \in {"add_line", "update_line"} => req[w].qty \in Nat \ {0}
<1>1. req[w] \in Request
  BY DEF KInv, KitchenTypeOK
<1>2. WellFormed(req[w])
  BY <1>1, RequestAssumption
<1> QED
  BY <1>1, <1>2 DEF WellFormed

\* A handler that leaves, having written rows as the invariant allows.
LEMMA LeaveKInv ==
  ASSUME KInv, NEW w \in Worker, req[w] # None, Leave(w), RowTypes', Cancels', KitchenFollowsSale',
         Selling(w) \/ SamePresence,
         \A v \in Worker \ {w} : \A l \in held[v] : dish'[l] # "absent"
  PROVE  KInv'
<1>1. KitchenTypeOK /\ OneSale /\ Stages /\ Rows /\ Sales
  BY DEF KInv
<1>2. /\ req' = [req EXCEPT ![w] = None] /\ pc' = [pc EXCEPT ![w] = "idle"]
      /\ seen' = [seen EXCEPT ![w] = Unseen] /\ held' = [held EXCEPT ![w] = {}]
      /\ head' = [head EXCEPT ![w] = "none"]
  BY DEF Leave
<1>3. /\ req'[w] = None /\ pc'[w] = "idle" /\ held'[w] = {} /\ head'[w] = "none"
      /\ \A v \in Worker \ {w} : SameHandler(v)
  BY <1>1, <1>2 DEF KitchenTypeOK, SameHandler
<1>4. KitchenTypeOK'
  <2>1. Unseen \in [ticket : TicketType, lines : [Line -> LineStatus]]
    BY Statuses DEF Unseen
  <2> QED
    BY <1>1, <1>2, <2>1 DEF KitchenTypeOK, RowTypes
<1>5. \A v \in Worker \ {w} : /\ Selling(v)' <=> Selling(v)
                              /\ Deriving(v)' <=> Deriving(v)
                              /\ Mine(v)' = Mine(v)
  BY <1>3, HandlerStays
<1>6. ~Selling(w)' /\ ~Deriving(w)'
  BY <1>3 DEF Selling, Deriving, At
<1>7. OneSale'
  BY <1>1, <1>5, <1>6 DEF OneSale
<1>8. Stages'
  BY <1>1, <1>3, <1>5, <1>6 DEF Stages, SameHandler
<1>9. Rows'
  BY <1>1, <1>3 DEF Rows, SameHandler
<1>10. Sales'
  <2>1. ASSUME NEW v \in Worker, Selling(v)' PROVE Found(v)'
    <3>1. v # w /\ Selling(v)
      BY <1>5, <1>6, <2>1
    <3>2. SamePresence
      BY <1>1, <3>1 DEF OneSale
    <3> QED
      BY <1>1, <1>3, <3>1, <3>2, FoundKept DEF Sales
  <2> QED
    BY <2>1 DEF Sales
<1> QED
  BY <1>4, <1>7, <1>8, <1>9, <1>10 DEF KInv

\* A handler that gives up.
LEMMA GiveUpKInv ==
  ASSUME KInv, NEW w \in Worker, req[w] # None, Leave(w), UNCHANGED rowVars
  PROVE  KInv'
<1>1. order' = order /\ sold' = sold /\ cook' = cook /\ dish' = dish /\ ticket' = ticket
  BY DEF rowVars
<1>2. RowTypes' /\ Cancels' /\ KitchenFollowsSale' /\ SamePresence
  BY <1>1 DEF KInv, KitchenTypeOK, RowTypes, Cancels, KitchenFollowsSale, SamePresence
<1>3. \A v \in Worker \ {w} : \A l \in held[v] : dish'[l] # "absent"
  BY <1>1 DEF KInv, Rows
<1> QED
  BY <1>2, <1>3, LeaveKInv

LEMMA ReadKInv ==
  ASSUME KInv, NEW w \in Worker, NEW r \in Request, Read(w, r)
  PROVE  KInv'
<1>1. KitchenTypeOK /\ OneSale /\ Stages /\ Rows /\ Sales /\ Cancels /\ KitchenFollowsSale
  BY DEF KInv
<1>2. PICK p : p = IF r.op \in KdsOp \union {"remove_line"} THEN "flush" ELSE "commit"
  OBVIOUS
<1>3. PICK s : s = [ticket |-> ticket,
                    lines  |-> [l \in Line |-> IF l \in Loaded(r) THEN dish[l] ELSE "absent"]]
  OBVIOUS
<1>4. /\ req[w] = None /\ (r.op \in SaleOp => OrderFree(w)) /\ Check(r)
      /\ req' = [req EXCEPT ![w] = r] /\ pc' = [pc EXCEPT ![w] = p] /\ seen' = [seen EXCEPT ![w] = s]
      /\ held' = held /\ head' = head
      /\ order' = order /\ sold' = sold /\ cook' = cook /\ dish' = dish /\ ticket' = ticket
  BY <1>2, <1>3 DEF Read, rowVars
<1>5. /\ req'[w] = r /\ pc'[w] = p /\ seen'[w] = s
      /\ \A v \in Worker \ {w} : SameHandler(v)
  BY <1>1, <1>4 DEF KitchenTypeOK, SameHandler
<1>6. s.ticket = ticket /\ \A l \in Line : s.lines[l] = IF l \in Loaded(r) THEN dish[l] ELSE "absent"
  BY <1>3
<1>7. s \in [ticket : TicketType, lines : [Line -> LineStatus]]
  <2>1. \A l \in Line : (IF l \in Loaded(r) THEN dish[l] ELSE "absent") \in LineStatus
    BY <1>1, Statuses DEF KitchenTypeOK
  <2> QED
    BY <1>1, <1>3, <2>1 DEF KitchenTypeOK
<1>8. KitchenTypeOK'
  BY <1>1, <1>2, <1>4, <1>7 DEF KitchenTypeOK
<1>9. \A v \in Worker \ {w} : /\ Selling(v)' <=> Selling(v)
                              /\ Deriving(v)' <=> Deriving(v)
                              /\ Mine(v)' = Mine(v)
  BY <1>5, HandlerStays
<1>10. r # None /\ ~Deriving(w) /\ ~Selling(w) /\ ~Deriving(w)'
  BY <1>2, <1>4, <1>5, RequestAssumption DEF Deriving, Selling, At
<1>11. OneSale'
  <2>1. ASSUME NEW v \in Worker \ {w}, Selling(v)', Selling(w)' PROVE FALSE
    <3>1. r.op \in SaleOp
      BY <1>5, <2>1 DEF Selling
    <3> QED
      BY <1>4, <1>9, <2>1, <3>1 DEF OrderFree, Selling
  <2> QED
    BY <1>1, <1>9, <2>1 DEF OneSale
<1>12. Stages'
  <2>1. held'[w] = {} /\ head'[w] = "none"
    BY <1>1, <1>4, <1>10 DEF Stages
  <2> QED
    BY <1>1, <1>2, <1>5, <1>9, <1>10, <2>1 DEF Stages, SameHandler
<1>13. Rows'
  BY <1>1, <1>4 DEF Rows
<1>14. Sales'
  <2>1. SamePresence
    BY <1>4 DEF SamePresence
  <2>2. ASSUME Selling(w)' PROVE Found(w)'
    <3>1. r.op \in SaleOp
      BY <1>5, <2>2 DEF Selling
    <3>2. /\ r.op \in {"add_line", "update_line", "remove_line", "pay"} => order = "draft"
          /\ r.op = "add_line" => sold[r.line] = 0
          /\ r.op \in {"update_line", "remove_line"} => sold[r.line] # 0
      BY <1>4, Checked
    <3>3. \A l \in Line : s.lines[l] # "absent" => dish[l] # "absent"
      BY <1>6
    <3>4. r.op = "remove_line" => \A l \in Line \ {r.line} : s.lines[l] = "absent"
      BY <1>1, <1>6, LoadedLines
    <3>5. r.op = "remove_line" => p = "flush"
      BY <1>2
    <3> QED
      BY <1>4, <1>5, <1>6, <3>1, <3>2, <3>3, <3>4, <3>5 DEF Found, At, SaleOp
  <2>3. ASSUME NEW v \in Worker \ {w}, Selling(v)' PROVE Found(v)'
    BY <1>1, <1>5, <1>9, <2>1, <2>3, FoundKept DEF Sales
  <2> QED
    BY <2>2, <2>3 DEF Sales
<1>15. Cancels' /\ KitchenFollowsSale'
  BY <1>1, <1>4 DEF Cancels, KitchenFollowsSale
<1> QED
  BY <1>8, <1>11, <1>12, <1>13, <1>14, <1>15 DEF KInv

\* What a removal would leave: the lines it does not take.
LEMMA RemovalLeaves ==
  ASSUME KInv, NEW w \in Worker, Selling(w), req[w].op = "remove_line"
  PROVE  Listed(Believed(w)) = {} <=> \A l \in Line \ {req[w].line} : dish[l] = "absent"
<1>1. req[w].op \notin KdsOp /\ Mine(w) = {req[w].line}
  BY DEF KdsOp, Mine
<1>2. Found(w) /\ order = "draft" /\ \A l \in Line : dish[l] # "cancelled"
  BY DEF KInv, Sales, Found, Cancels
<1>3. \A l \in Line : Believed(w)[l] = IF l = req[w].line THEN "absent" ELSE dish[l]
  BY <1>1, <1>2 DEF Believed, Found
<1> QED
  BY <1>2, <1>3 DEF Listed

LEMMA FlushKInv ==
  ASSUME KInv, NEW w \in Worker, Flush(w)
  PROVE  KInv'
<1>1. KitchenTypeOK /\ OneSale /\ Stages /\ Rows /\ Sales /\ Cancels /\ KitchenFollowsSale
  BY DEF KInv
<1>2. PICK h : h = Header(w)
  OBVIOUS
<1>3. PICK m : m = Mine(w)
  OBVIOUS
<1>4. /\ At(w, "flush") /\ RowsFree(w, m) /\ h # "refused" /\ \A l \in m : dish[l] # "absent"
      /\ pc' = [pc EXCEPT ![w] = "commit"] /\ held' = [held EXCEPT ![w] = m] /\ head' = [head EXCEPT ![w] = h]
      /\ req' = req /\ seen' = seen
      /\ order' = order /\ sold' = sold /\ cook' = cook /\ dish' = dish /\ ticket' = ticket
  BY <1>2, <1>3 DEF Flush, rowVars
<1>5. /\ pc'[w] = "commit" /\ held'[w] = m /\ head'[w] = h
      /\ \A v \in Worker \ {w} : SameHandler(v)
  BY <1>1, <1>4 DEF KitchenTypeOK, SameHandler
<1>6. req[w] # None /\ req[w].op \in KdsOp \union {"remove_line"}
  BY <1>1, <1>4 DEF Stages, At
<1>7. h \in {"pending", "preparing", "ready", "served", "none", "delete"}
  BY <1>2, <1>4, HeaderIs
<1>8. m \subseteq Line
  <2>1. CASE req[w].op \in KdsOp
    BY <1>3, <2>1 DEF Mine, Listed
  <2>2. CASE req[w].op = "remove_line"
    BY <1>1, <1>3, <1>6, <2>2, Lines DEF KInv, Mine, KdsOp
  <2> QED
    BY <1>6, <2>1, <2>2
<1>9. KitchenTypeOK'
  BY <1>1, <1>4, <1>7, <1>8, Statuses DEF KitchenTypeOK
<1>10. \A v \in Worker : (Selling(v)' <=> Selling(v)) /\ Mine(v)' = Mine(v)
  BY <1>4 DEF Selling, Mine, Listed
<1>11. \A v \in Worker \ {w} : Deriving(v)' <=> Deriving(v)
  BY <1>5, HandlerStays
<1>12. Deriving(w)'
  BY <1>4, <1>5, <1>6 DEF Deriving, At
<1>13. OneSale'
  BY <1>1, <1>10 DEF OneSale
<1>14. h = "delete" => req[w].op = "remove_line"
  BY <1>2, HeaderIs
<1>15. Stages'
  <2>1. held'[w] = Mine(w)'
    BY <1>3, <1>5, <1>10
  <2>2. ASSUME NEW v \in Worker
        PROVE  /\ req'[v] = None => pc'[v] = "idle"
               /\ req'[v] # None => pc'[v] \in {"flush", "commit"}
               /\ pc'[v] = "flush" => req'[v].op \in KdsOp \union {"remove_line"}
               /\ head'[v] = "delete" => req'[v].op = "remove_line"
    BY <1>1, <1>4, <1>5, <1>6, <1>14 DEF Stages, SameHandler
  <2>3. ASSUME NEW v \in Worker
        PROVE  IF Deriving(v)' THEN held'[v] = Mine(v)' ELSE held'[v] = {} /\ head'[v] = "none"
    BY <1>1, <1>5, <1>10, <1>11, <1>12, <2>1 DEF Stages, SameHandler
  <2> QED
    BY <2>2, <2>3 DEF Stages
<1>16. Rows'
  BY <1>1, <1>4, <1>5 DEF Rows, RowsFree, SameHandler
<1>17. Sales'
  <2>1. SamePresence
    BY <1>4 DEF SamePresence
  <2>2. ASSUME NEW v \in Worker \ {w}, Selling(v)' PROVE Found(v)'
    BY <1>1, <1>5, <1>10, <2>1, <2>2, FoundKept DEF Sales
  <2>3. ASSUME Selling(w)' PROVE Found(w)'
    <3>1. Selling(w) /\ Found(w)
      BY <1>1, <1>10, <2>3 DEF Sales
    <3>2. req[w].op = "remove_line" =>
            (h = "delete" <=> \A l \in Line \ {req[w].line} : dish[l] = "absent")
      BY <1>2, <3>1, HeaderIs, RemovalLeaves
    <3> QED
      BY <1>4, <1>5, <3>1, <3>2 DEF Found, At
  <2> QED
    BY <2>2, <2>3 DEF Sales
<1>18. Cancels' /\ KitchenFollowsSale'
  BY <1>1, <1>4 DEF Cancels, KitchenFollowsSale
<1> QED
  BY <1>9, <1>13, <1>15, <1>16, <1>17, <1>18 DEF KInv

-----------------------------------------------------------------------------
(* The commits. *)

LEMMA NewHeaderType ==
  ASSUME KInv, NEW w \in Worker, head[w] # "delete"
  PROVE  /\ NewHeader(w) \in TicketType
         /\ NewHeader(w) = IF head[w] = "none" THEN ticket ELSE Headed(seen[w].ticket, head[w])
         /\ head[w] # "none" => NewHeader(w).status = head[w]
<1>1. ticket \in TicketType /\ seen[w].ticket \in TicketType
  BY DEF KInv, KitchenTypeOK
<1>2. head[w] = "none" \/ head[w] \in {"pending", "preparing", "ready", "served", "cancelled"}
  BY Statuses DEF KInv, KitchenTypeOK
<1> QED
  BY <1>1, <1>2, HeadedType DEF NewHeader

LEMMA SetStatusKInv ==
  ASSUME KInv, NEW w \in Worker, SetStatus(w)
  PROVE  KInv'
<1>1. KitchenTypeOK /\ OneSale /\ Stages /\ Rows /\ Cancels /\ KitchenFollowsSale
  BY DEF KInv
<1>2. /\ At(w, "commit") /\ req[w].op \in KdsOp
      /\ head[w] # "none" => ticket.status # "none" /\ FlowCheck(NewHeader(w))
      /\ dish' = [l \in Line |-> IF l \in held[w] THEN req[w].target ELSE dish[l]]
      /\ ticket' = NewHeader(w) /\ Leave(w) /\ order' = order /\ sold' = sold /\ cook' = cook
  BY DEF SetStatus
<1>3. req[w] # None /\ req[w].target \in LineTarget
  BY <1>2, Lines DEF At
<1>4. head[w] # "delete"
  BY <1>1, <1>2 DEF Stages, KdsOp
<1>5. ticket' \in TicketType /\ (ticket'.served => ticket'.ready)
  BY <1>1, <1>2, <1>4, NewHeaderType DEF KitchenTypeOK, FlowCheck
<1>6. \A l \in Line : /\ dish'[l] \in LineStatus
                      /\ dish'[l] = "absent" <=> dish[l] = "absent"
                      /\ dish'[l] = "cancelled" => dish[l] = "cancelled"
  BY <1>1, <1>2, <1>3, Statuses DEF KitchenTypeOK, Rows, LineTarget
<1>7. ticket'.status = "none" <=> ticket.status = "none"
  <2>1. CASE head[w] = "none"
    BY <1>2, <2>1 DEF NewHeader
  <2>2. CASE head[w] # "none"
    BY <1>2, <1>4, <2>2, NewHeaderType
  <2> QED
    BY <2>1, <2>2
<1>8. dish' \in [Line -> LineStatus]
  BY <1>2, <1>6
<1>9. RowTypes'
  BY <1>1, <1>2, <1>5, <1>8 DEF RowTypes, KitchenTypeOK
<1>10. SamePresence
  BY <1>2, <1>6, <1>7 DEF SamePresence
<1>11. Cancels' /\ KitchenFollowsSale'
  BY <1>1, <1>2, <1>6, <1>7 DEF Cancels, KitchenFollowsSale
<1>12. \A v \in Worker \ {w} : \A l \in held[v] : dish'[l] # "absent"
  BY <1>1, <1>6 DEF Rows, KitchenTypeOK
<1> QED
  BY <1>2, <1>3, <1>9, <1>10, <1>11, <1>12, LeaveKInv

LEMMA AddLineKInv ==
  ASSUME KInv, NEW w \in Worker, AddLine(w)
  PROVE  KInv'
<1>1. KitchenTypeOK /\ Rows /\ Sales /\ Cancels /\ KitchenFollowsSale
  BY DEF KInv
<1>2. PICK q : q = req[w].qty
  OBVIOUS
<1>3. PICK n : n = req[w].line
  OBVIOUS
<1>4. /\ At(w, "commit") /\ req[w].op = "add_line"
      /\ sold' = [sold EXCEPT ![n] = q] /\ cook' = [cook EXCEPT ![n] = q] /\ dish' = [dish EXCEPT ![n] = "pending"]
      /\ ticket' = IF seen[w].ticket.status = "none" THEN [NoTicket EXCEPT !.status = "pending"] ELSE ticket
      /\ Leave(w) /\ order' = order
  BY <1>2, <1>3 DEF AddLine
<1>5. req[w] # None /\ n \in Line /\ q \in Nat /\ q # 0
  BY <1>2, <1>3, <1>4, Lines DEF At
<1>6. Selling(w)
  BY <1>4, <1>5 DEF Selling, SaleOp
<1>7. seen[w].ticket.status = "none" <=> ticket.status = "none"
  BY <1>1, <1>6 DEF Sales, Found
<1>8. /\ ticket' \in TicketType /\ (ticket'.served => ticket'.ready) /\ ticket'.status # "none"
  <2>1. CASE seen[w].ticket.status = "none"
    <3>1. ticket' = [NoTicket EXCEPT !.status = "pending"]
      BY <1>4, <2>1
    <3> QED
      BY <3>1, Statuses DEF NoTicket
  <2>2. CASE seen[w].ticket.status # "none"
    <3>1. ticket' = ticket
      BY <1>4, <2>2
    <3> QED
      BY <1>1, <1>7, <2>2, <3>1 DEF KitchenTypeOK
  <2> QED
    BY <2>1, <2>2
<1>9. RowTypes'
  BY <1>1, <1>4, <1>5, <1>8, Statuses DEF RowTypes, KitchenTypeOK
<1>10. \A l \in Line : /\ dish'[l] = IF l = n THEN "pending" ELSE dish[l]
                       /\ sold'[l] = IF l = n THEN q ELSE sold[l]
  BY <1>1, <1>4, <1>5 DEF KitchenTypeOK
<1>11. Cancels' /\ KitchenFollowsSale'
  BY <1>1, <1>4, <1>5, <1>8, <1>10 DEF Cancels, KitchenFollowsSale
<1>12. \A v \in Worker \ {w} : \A l \in held[v] : dish'[l] # "absent"
  BY <1>1, <1>10 DEF Rows, KitchenTypeOK
<1> QED
  BY <1>4, <1>5, <1>6, <1>9, <1>11, <1>12, LeaveKInv

LEMMA UpdateLineKInv ==
  ASSUME KInv, NEW w \in Worker, UpdateLine(w)
  PROVE  KInv'
<1>1. KitchenTypeOK /\ Rows /\ Sales /\ Cancels /\ KitchenFollowsSale
  BY DEF KInv
<1>2. PICK q : q = req[w].qty
  OBVIOUS
<1>3. PICK n : n = req[w].line
  OBVIOUS
<1>4. /\ At(w, "commit") /\ req[w].op = "update_line"
      /\ sold' = [sold EXCEPT ![n] = q] /\ (cook' = cook \/ cook' = [cook EXCEPT ![n] = q])
      /\ Leave(w) /\ order' = order /\ dish' = dish /\ ticket' = ticket
  BY <1>2, <1>3 DEF UpdateLine
<1>5. req[w] # None /\ n \in Line /\ q \in Nat /\ q # 0
  BY <1>2, <1>3, <1>4, Lines DEF At
<1>6. Selling(w)
  BY <1>4, <1>5 DEF Selling, SaleOp
<1>7. sold[n] # 0
  BY <1>1, <1>3, <1>4, <1>6 DEF Sales, Found
<1>8. RowTypes'
  BY <1>1, <1>4, <1>5 DEF RowTypes, KitchenTypeOK
<1>9. \A l \in Line : sold'[l] = IF l = n THEN q ELSE sold[l]
  BY <1>1, <1>4, <1>5 DEF KitchenTypeOK
<1>10. Cancels' /\ KitchenFollowsSale'
  BY <1>1, <1>4, <1>5, <1>7, <1>9 DEF Cancels, KitchenFollowsSale
<1>11. \A v \in Worker \ {w} : \A l \in held[v] : dish'[l] # "absent"
  BY <1>1, <1>4 DEF Rows
<1> QED
  BY <1>4, <1>5, <1>6, <1>8, <1>10, <1>11, LeaveKInv

LEMMA RemoveLineKInv ==
  ASSUME KInv, NEW w \in Worker, RemoveLine(w)
  PROVE  KInv'
<1>1. KitchenTypeOK /\ Stages /\ Rows /\ Sales /\ Cancels /\ KitchenFollowsSale
  BY DEF KInv
<1>2. PICK n : n = req[w].line
  OBVIOUS
<1>3. /\ At(w, "commit") /\ req[w].op = "remove_line"
      /\ head[w] # "delete" => FlowCheck(NewHeader(w))
      /\ sold' = [sold EXCEPT ![n] = 0] /\ cook' = [cook EXCEPT ![n] = 0] /\ dish' = [dish EXCEPT ![n] = "absent"]
      /\ ticket' = IF head[w] = "delete" THEN NoTicket ELSE NewHeader(w)
      /\ Leave(w) /\ order' = order
  BY <1>2 DEF RemoveLine
<1>4. req[w] # None /\ n \in Line
  BY <1>2, <1>3, Lines DEF At
<1>5. Selling(w) /\ Deriving(w)
  BY <1>3, <1>4 DEF Selling, SaleOp, Deriving
<1>6. /\ sold[n] # 0
      /\ head[w] = "delete" <=> \A l \in Line \ {n} : dish[l] = "absent"
  BY <1>1, <1>2, <1>3, <1>5 DEF Sales, Found
<1>7. held[w] = {n}
  BY <1>1, <1>2, <1>3, <1>5 DEF Stages, Mine, KdsOp
<1>8. \A l \in Line : /\ dish'[l] = IF l = n THEN "absent" ELSE dish[l]
                      /\ sold'[l] = IF l = n THEN 0 ELSE sold[l]
  BY <1>1, <1>3, <1>4 DEF KitchenTypeOK
<1>9. /\ ticket' \in TicketType /\ (ticket'.served => ticket'.ready)
      /\ ticket'.status = "none" <=> head[w] = "delete"
  <2>1. CASE head[w] = "delete"
    <3>1. ticket' = NoTicket
      BY <1>3, <2>1
    <3> QED
      BY <2>1, <3>1, Statuses
  <2>2. CASE head[w] # "delete"
    <3>1. ticket' = NewHeader(w) /\ ticket' \in TicketType /\ (ticket'.served => ticket'.ready)
      BY <1>3, <2>2, NewHeaderType DEF FlowCheck
    <3>2. ticket.status # "none"
      BY <1>1, <1>4, <1>6 DEF KitchenFollowsSale
    <3> QED
      BY <2>2, <3>1, <3>2, NewHeaderType
  <2> QED
    BY <2>1, <2>2
<1>10. RowTypes'
  BY <1>1, <1>3, <1>4, <1>9, Statuses DEF RowTypes, KitchenTypeOK
<1>11. Cancels' /\ KitchenFollowsSale'
  BY <1>1, <1>3, <1>4, <1>6, <1>8, <1>9 DEF Cancels, KitchenFollowsSale
<1>12. \A v \in Worker \ {w} : \A l \in held[v] : dish'[l] # "absent"
  BY <1>1, <1>7, <1>8 DEF Rows, KitchenTypeOK
<1> QED
  BY <1>3, <1>4, <1>5, <1>10, <1>11, <1>12, LeaveKInv

LEMMA PayKInv ==
  ASSUME KInv, NEW w \in Worker, Pay(w)
  PROVE  KInv'
<1>1. KitchenTypeOK /\ Rows /\ Sales /\ Cancels /\ KitchenFollowsSale
  BY DEF KInv
<1>2. /\ At(w, "commit") /\ req[w].op = "pay" /\ order' = "paid" /\ Leave(w)
      /\ sold' = sold /\ cook' = cook /\ dish' = dish /\ ticket' = ticket
  BY DEF Pay
<1>3. req[w] # None /\ Selling(w)
  BY <1>2 DEF At, Selling, SaleOp
<1>4. order = "draft"
  BY <1>1, <1>2, <1>3 DEF Sales, Found
<1>5. RowTypes' /\ Cancels' /\ KitchenFollowsSale'
  BY <1>1, <1>2, <1>4 DEF RowTypes, KitchenTypeOK, Cancels, KitchenFollowsSale
<1>6. \A v \in Worker \ {w} : \A l \in held[v] : dish'[l] # "absent"
  BY <1>1, <1>2 DEF Rows
<1> QED
  BY <1>2, <1>3, <1>5, <1>6, LeaveKInv

LEMMA VoidOrderKInv ==
  ASSUME KInv, NEW w \in Worker, VoidOrder(w)
  PROVE  KInv'
<1>1. KitchenTypeOK /\ Rows /\ Sales /\ KitchenFollowsSale
  BY DEF KInv
<1>2. /\ At(w, "commit") /\ req[w].op = "void_order" /\ order' = "voided" /\ Leave(w)
      /\ sold' = sold /\ cook' = cook
      /\ \/ dish' = dish /\ ticket' = ticket
         \/ /\ seen[w].ticket.status # "none"
            /\ dish' = [l \in Line |-> IF l \in Cancelled(w) THEN "cancelled" ELSE dish[l]]
            /\ ticket' = [ticket EXCEPT !.status = "cancelled"]
  BY DEF VoidOrder
<1>3. req[w] # None /\ Selling(w)
  BY <1>2 DEF At, Selling, SaleOp
<1>4. /\ seen[w].ticket.status = "none" <=> ticket.status = "none"
      /\ \A l \in Cancelled(w) : dish[l] # "absent"
  BY <1>1, <1>3 DEF Sales, Found, Cancelled, Listed
<1>5. /\ ticket' \in TicketType /\ (ticket'.served => ticket'.ready)
      /\ ticket'.status = "none" <=> ticket.status = "none"
  BY <1>1, <1>2, <1>4, Statuses DEF KitchenTypeOK
<1>6. \A l \in Line : /\ dish'[l] \in LineStatus
                      /\ dish'[l] = "absent" <=> dish[l] = "absent"
  BY <1>1, <1>2, <1>4, Statuses DEF KitchenTypeOK
<1>7. dish' \in [Line -> LineStatus]
  BY <1>1, <1>2, <1>6 DEF KitchenTypeOK
<1>8. RowTypes' /\ Cancels' /\ KitchenFollowsSale'
  BY <1>1, <1>2, <1>5, <1>6, <1>7 DEF RowTypes, KitchenTypeOK, Cancels, KitchenFollowsSale
<1>9. \A v \in Worker \ {w} : \A l \in held[v] : dish'[l] # "absent"
  BY <1>1, <1>6 DEF Rows, KitchenTypeOK
<1> QED
  BY <1>2, <1>3, <1>8, <1>9, LeaveKInv

LEMMA StutterKInv == KInv /\ UNCHANGED vars => KInv'
<1> SUFFICES ASSUME KInv, UNCHANGED vars PROVE KInv'
  OBVIOUS
<1>1. /\ order' = order /\ sold' = sold /\ cook' = cook /\ dish' = dish /\ ticket' = ticket
      /\ req' = req /\ pc' = pc /\ seen' = seen /\ held' = held /\ head' = head
  BY DEF vars, rowVars, workVars
<1>2. KitchenTypeOK' /\ Rows' /\ Cancels' /\ KitchenFollowsSale'
  BY <1>1 DEF KInv, KitchenTypeOK, Rows, Cancels, KitchenFollowsSale
<1>3. SamePresence /\ \A v \in Worker : SameHandler(v)
  BY <1>1 DEF SamePresence, SameHandler
<1>4. \A v \in Worker : (Selling(v)' <=> Selling(v)) /\ (Deriving(v)' <=> Deriving(v)) /\ Mine(v)' = Mine(v)
  BY <1>3, HandlerStays
<1>5. OneSale' /\ Stages'
  BY <1>1, <1>4 DEF KInv, OneSale, Stages
<1>6. Sales'
  BY <1>3, <1>4, FoundKept DEF KInv, Sales
<1> QED
  BY <1>2, <1>5, <1>6 DEF KInv

LEMMA NextKInv == KInv /\ [Next]_vars => KInv'
<1>1. ASSUME KInv, NEW w \in Worker, NEW r \in Request, Read(w, r) PROVE KInv'
  BY <1>1, ReadKInv
<1>2. ASSUME KInv, NEW w \in Worker, RefuseFlush(w) \/ RefuseStatus(w) \/ Abort(w) PROVE KInv'
  <2>1. req[w] # None /\ Leave(w) /\ UNCHANGED rowVars
    BY <1>2 DEF RefuseFlush, RefuseStatus, Abort, At
  <2> QED
    BY <1>2, <2>1, GiveUpKInv
<1> QED
  BY <1>1, <1>2, FlushKInv, SetStatusKInv, AddLineKInv, UpdateLineKInv, RemoveLineKInv, PayKInv,
     VoidOrderKInv, StutterKInv DEF Next

LEMMA AlwaysKInv == Spec => []KInv
<1>1. Init => KInv
  BY InitKInv
<1>2. KInv /\ [Next]_vars => KInv'
  BY NextKInv
<1> QED
  BY <1>1, <1>2, PTL DEF Spec

-----------------------------------------------------------------------------
(* While handlers do not overlap. *)

\* What a handler has loaded is what the database has, and what it is about
\* to write follows from it.
Fresh(w) ==
  /\ seen[w].ticket = ticket
  /\ \A l \in Line : seen[w].lines[l] \in {dish[l], "absent"}
  /\ Deriving(w) => head[w] = Header(w)
  /\ req[w].op \in KdsOp => \A l \in Mine(w) : CanMove(dish[l], req[w].target)
  /\ req[w].op = "add_line" => ticket.status \notin {"ready", "served"}
  /\ req[w].op = "update_line" => seen[w].lines[req[w].line] = dish[req[w].line]

Still ==
  calm => /\ \A v, w \in Worker : req[v] # None /\ req[w] # None => v = w
          /\ \A w \in Worker : req[w] # None => Fresh(w)

CalmInv == KInv /\ Still /\ HeaderDerived

\* The lines after the commit of w, and the header they give.
LEMMA Written ==
  ASSUME KInv, NEW w \in Worker, Fresh(w), Deriving(w), NEW lines,
         \A l \in Line : lines[l] = IF l \in Mine(w)
                                    THEN (IF req[w].op \in KdsOp THEN req[w].target ELSE "absent")
                                    ELSE dish[l]
  PROVE  /\ Derive(Believed(w)) = Derive(lines)
         /\ head[w] \notin {"none", "delete"} => head[w] = Derive(lines)
         /\ head[w] = "none" =>
              (req[w].op = "set_line_status" /\ Mine(w) = {}) \/ ticket.status = Derive(lines)
<1>1. \A l \in Line : Believed(w)[l] = lines[l]
  BY DEF Believed, Fresh
<1>2. Derive(Believed(w)) = Derive(lines)
  BY <1>1, DeriveSame
<1>3. head[w] = Header(w) /\ seen[w].ticket = ticket
  BY DEF Fresh
<1>4. head[w] # "refused"
  BY Statuses DEF KInv, KitchenTypeOK
<1>5. Derive(lines) # "none"
  BY DerivedStatus
<1> QED
  BY <1>2, <1>3, <1>4, <1>5 DEF Header

\* A dish that joins a ticket in progress does not move its header.
LEMMA DeriveJoined ==
  ASSUME NEW n \in Line, NEW before, NEW after, before[n] = "absent",
         \A l \in Line : after[l] = IF l = n THEN "pending" ELSE before[l],
         Derive(before) \in {"pending", "preparing"} \/ \A l \in Line : before[l] = "absent"
  PROVE  /\ Derive(before) \in {"pending", "preparing"} => Derive(after) = Derive(before)
         /\ (\A l \in Line : before[l] = "absent") => Derive(after) = "pending"
<1> DEFINE was == {before[l] : l \in Line} \ {"absent", "cancelled"}
           is  == {after[l] : l \in Line} \ {"absent", "cancelled"}
<1>1. is = was \union {"pending"}
  <2>1. \A s \in is : s \in was \union {"pending"}
    OBVIOUS
  <2>2. \A s \in was : s \in is
    OBVIOUS
  <2>3. "pending" \in is
    OBVIOUS
  <2> QED
    BY <2>1, <2>2, <2>3
<1>2. Derive(before) = IF was \subseteq {"served"} THEN "served"
                       ELSE IF was \subseteq {"ready", "served"} THEN "ready"
                       ELSE IF was = {"pending"} THEN "pending" ELSE "preparing"
  BY DEF Derive
<1>3. Derive(after) = IF is = {"pending"} THEN "pending" ELSE "preparing"
  BY <1>1 DEF Derive
<1>4. (\A l \in Line : before[l] = "absent") => was = {}
  OBVIOUS
<1> HIDE DEF was, is
<1> QED
  BY <1>1, <1>2, <1>3, <1>4

LEMMA InitCalmInv == Init => CalmInv
<1> SUFFICES ASSUME Init PROVE CalmInv
  OBVIOUS
<1>1. KInv
  BY InitKInv
<1>2. Still
  BY DEF Init, Still
<1>3. ticket.status = "none"
  BY DEF Init, NoTicket
<1> QED
  BY <1>1, <1>2, <1>3 DEF CalmInv, HeaderDerived

LEMMA ReadCalmInv ==
  ASSUME CalmInv, NEW w \in Worker, NEW r \in Request, Read(w, r)
  PROVE  Still' /\ HeaderDerived'
<1>1. KitchenTypeOK /\ Still /\ HeaderDerived
  BY DEF CalmInv, KInv
<1>2. PICK s : s = [ticket |-> ticket,
                    lines  |-> [l \in Line |-> IF l \in Loaded(r) THEN dish[l] ELSE "absent"]]
  OBVIOUS
<1>3. /\ req[w] = None /\ Check(r) /\ (calm' <=> calm /\ Alone /\ ~Late(r))
      /\ req' = [req EXCEPT ![w] = r] /\ seen' = [seen EXCEPT ![w] = s]
      /\ order' = order /\ dish' = dish /\ ticket' = ticket
  BY <1>2 DEF Read, rowVars
<1>4. pc'[w] # "commit" \/ r.op \notin KdsOp \union {"remove_line"}
  BY <1>1 DEF Read, KitchenTypeOK
<1>5. req'[w] = r /\ seen'[w] = s /\ r # None
  BY <1>1, <1>3, RequestAssumption DEF KitchenTypeOK
<1>6. s.ticket = ticket /\ \A l \in Line : s.lines[l] = IF l \in Loaded(r) THEN dish[l] ELSE "absent"
  BY <1>2
<1>7. HeaderDerived'
  BY <1>1, <1>3 DEF HeaderDerived
<1>8. ASSUME calm' PROVE Fresh(w)'
  <2>1. ~Deriving(w)'
    BY <1>4, <1>5 DEF Deriving, At
  <2>2. r.op \in KdsOp => Mine(w)' = {l \in Listed(s.lines) : s.lines[l] # r.target}
    BY <1>5 DEF Mine, Listed
  <2>3. ASSUME r.op \in KdsOp, NEW l \in Mine(w)' PROVE CanMove(dish[l], r.target)
    <3>1. l \in Line /\ l \in Loaded(r) /\ dish[l] # r.target /\ dish[l] \notin {"absent", "cancelled"}
      BY <1>6, <2>2, <2>3 DEF Listed
    <3>2. r.op = "set_line_status" => MaySet(l, r.target)
      BY <1>1, <1>3, <3>1, Checked, LoadedLines
    <3>3. r.op = "set_ticket_status" => MaySet(l, r.target)
      BY <1>3, <3>1, Checked DEF Listed
    <3> QED
      BY <2>3, <3>1, <3>2, <3>3 DEF KdsOp, MaySet
  <2>4. r.op = "add_line" => ticket.status \notin {"ready", "served"}
    BY <1>3, <1>8 DEF Late
  <2>5. r.op = "update_line" => s.lines[r.line] = dish[r.line]
    BY <1>1, <1>6, LoadedLines, RequestAssumption DEF WellFormed
  <2> QED
    BY <1>3, <1>5, <1>6, <2>1, <2>3, <2>4, <2>5 DEF Fresh
<1>9. ASSUME calm', NEW v \in Worker \ {w} PROVE req'[v] = None
  BY <1>1, <1>3, <1>9 DEF KitchenTypeOK, Alone
<1>10. Still'
  BY <1>8, <1>9 DEF Still
<1> QED
  BY <1>7, <1>10

LEMMA FlushCalmInv ==
  ASSUME CalmInv, NEW w \in Worker, Flush(w)
  PROVE  Still' /\ HeaderDerived'
<1>1. KitchenTypeOK /\ Stages /\ Still /\ HeaderDerived
  BY DEF CalmInv, KInv
<1>2. PICK h : h = Header(w)
  OBVIOUS
<1>3. /\ req[w] # None /\ head' = [head EXCEPT ![w] = h]
      /\ req' = req /\ seen' = seen /\ calm' = calm
      /\ order' = order /\ dish' = dish /\ ticket' = ticket
  BY <1>2 DEF Flush, At, rowVars
<1>4. HeaderDerived'
  BY <1>1, <1>3 DEF HeaderDerived
<1>5. Mine(w)' = Mine(w)
  BY <1>3 DEF Mine, Listed
<1>6. Believed(w)' = Believed(w)
  BY <1>3, <1>5 DEF Believed
<1>7. Header(w)' = h
  BY <1>2, <1>3, <1>5, <1>6 DEF Header, Listed
<1>8. head'[w] = h
  BY <1>1, <1>3 DEF KitchenTypeOK
<1>9. ASSUME calm' PROVE Fresh(w)'
  BY <1>1, <1>3, <1>5, <1>7, <1>8, <1>9 DEF Still, Fresh
<1>10. Still'
  BY <1>1, <1>3, <1>9 DEF Still
<1> QED
  BY <1>4, <1>10

\* A handler leaves nobody behind.
LEMMA LeaveStill ==
  ASSUME CalmInv, NEW w \in Worker, req[w] # None, Leave(w)
  PROVE  Still' /\ (calm' = calm) /\ (calm => Fresh(w))
<1>1. KitchenTypeOK /\ Still
  BY DEF CalmInv, KInv
<1>2. req' = [req EXCEPT ![w] = None] /\ calm' = calm
  BY DEF Leave
<1>3. ASSUME calm', NEW v \in Worker PROVE req'[v] = None
  BY <1>1, <1>2, <1>3 DEF KitchenTypeOK, Still
<1>4. Still'
  BY <1>3 DEF Still
<1> QED
  BY <1>1, <1>2, <1>4 DEF Still

\* What CalmHistory says of a step.
CalmStep ==
  calm' => \A l \in Line :
    /\ dish[l] \in Terminal => dish'[l] \in {dish[l], "absent"}
    /\ dish[l] \in {"ready", "served"} => cook'[l] \in {cook[l], 0}

LEMMA SetStatusCalm ==
  ASSUME CalmInv, NEW w \in Worker, SetStatus(w)
  PROVE  HeaderDerived' /\ CalmStep
<1>1. KInv /\ KitchenTypeOK /\ Stages /\ HeaderDerived
  BY DEF CalmInv, KInv
<1>2. /\ At(w, "commit") /\ req[w].op \in KdsOp
      /\ dish' = [l \in Line |-> IF l \in held[w] THEN req[w].target ELSE dish[l]]
      /\ ticket' = NewHeader(w) /\ Leave(w) /\ order' = order /\ cook' = cook
  BY DEF SetStatus
<1>3. /\ Deriving(w) /\ head[w] # "delete" /\ held[w] = Mine(w)
      /\ calm' = calm /\ (calm => Fresh(w))
  BY <1>1, <1>2, LeaveStill DEF Stages, At, Deriving, KdsOp
<1>4. \A l \in Line : dish'[l] = IF l \in Mine(w) THEN req[w].target ELSE dish[l]
  BY <1>2, <1>3
<1>5. ASSUME calm', ticket'.status # "none", order' # "voided"
      PROVE  ticket'.status = Derive(dish')
  <2>1. Fresh(w)
    BY <1>3, <1>5
  <2>2. /\ head[w] # "none" => head[w] = Derive(dish')
        /\ head[w] = "none" =>
             (req[w].op = "set_line_status" /\ Mine(w) = {}) \/ ticket.status = Derive(dish')
    BY <1>1, <1>2, <1>3, <1>4, <2>1, Written
  <2>3. CASE head[w] # "none"
    BY <1>1, <1>2, <1>3, <2>2, <2>3, NewHeaderType
  <2>4. CASE head[w] = "none" /\ Mine(w) = {}
    <3>1. ticket' = ticket
      BY <1>2, <2>4 DEF NewHeader
    <3>2. Derive(dish') = Derive(dish)
      BY <1>4, <2>4, DeriveSame
    <3> QED
      BY <1>1, <1>2, <1>3, <1>5, <3>1, <3>2 DEF HeaderDerived
  <2>5. CASE head[w] = "none" /\ Mine(w) # {}
    BY <1>2, <2>2, <2>5 DEF NewHeader
  <2> QED
    BY <2>3, <2>4, <2>5
<1>6. HeaderDerived'
  <2>1. Derive(dish)' = Derive(dish')
    BY DEF Derive
  <2> QED
    BY <1>5, <2>1 DEF HeaderDerived
<1>7. CalmStep
  <2>1. ASSUME calm', NEW l \in Mine(w) PROVE dish[l] \notin Terminal
    <3>1. CanMove(dish[l], req[w].target)
      BY <1>2, <1>3, <2>1 DEF Fresh
    <3>2. l \in Line /\ dish[l] # "absent"
      BY <1>1, <1>2, <1>3, <2>1 DEF KInv, Rows, KitchenTypeOK
    <3>3. dish[l] \in {"pending", "preparing", "ready", "served", "cancelled"}
      BY <1>1, <3>2, Statuses DEF KitchenTypeOK
    <3> QED
      BY <3>1, <3>3, Moves
  <2> QED
    BY <1>2, <1>4, <2>1 DEF CalmStep
<1> QED
  BY <1>6, <1>7

LEMMA AddLineCalm ==
  ASSUME CalmInv, NEW w \in Worker, AddLine(w)
  PROVE  HeaderDerived' /\ CalmStep
<1>1. KitchenTypeOK /\ Sales /\ KitchenFollowsSale /\ HeaderDerived
  BY DEF CalmInv, KInv
<1>2. PICK n : n = req[w].line
  OBVIOUS
<1>3. PICK q : q = req[w].qty
  OBVIOUS
<1>4. /\ At(w, "commit") /\ req[w].op = "add_line" /\ Leave(w) /\ order' = order
      /\ dish' = [dish EXCEPT ![n] = "pending"] /\ cook' = [cook EXCEPT ![n] = q]
      /\ ticket' = IF seen[w].ticket.status = "none" THEN [NoTicket EXCEPT !.status = "pending"] ELSE ticket
  BY <1>2, <1>3 DEF AddLine
<1>5. /\ req[w] # None /\ n \in Line /\ Selling(w)
      /\ calm' = calm /\ (calm => Fresh(w))
  BY <1>2, <1>4, Lines, LeaveStill DEF CalmInv, At, Selling, SaleOp
<1>6. /\ order = "draft" /\ dish[n] = "absent"
      /\ seen[w].ticket.status = "none" <=> ticket.status = "none"
  BY <1>1, <1>2, <1>4, <1>5 DEF Sales, Found, KitchenFollowsSale
<1>7. \A l \in Line : /\ dish'[l] = IF l = n THEN "pending" ELSE dish[l]
                      /\ cook'[l] = IF l = n THEN q ELSE cook[l]
  BY <1>1, <1>4, <1>5 DEF KitchenTypeOK
<1>8. ASSUME calm' PROVE ticket'.status = Derive(dish')
  <2>1. CASE ticket.status = "none"
    <3>1. \A l \in Line : dish[l] = "absent"
      BY <1>1, <2>1 DEF KitchenFollowsSale
    <3>2. Derive(dish') = "pending"
      BY <1>5, <1>6, <1>7, <3>1, DeriveJoined
    <3>3. ticket' = [NoTicket EXCEPT !.status = "pending"]
      BY <1>4, <1>6, <2>1
    <3> QED
      BY <3>2, <3>3 DEF NoTicket
  <2>2. CASE ticket.status # "none"
    <3>1. ticket' = ticket
      BY <1>4, <1>6, <2>2
    <3>2. ticket.status = Derive(dish) /\ ticket.status \notin {"ready", "served"}
      BY <1>1, <1>4, <1>5, <1>6, <1>8, <2>2 DEF HeaderDerived, Fresh
    <3>3. Derive(dish) \in {"pending", "preparing"}
      BY <3>2, DerivedStatus
    <3>4. Derive(dish') = Derive(dish)
      BY <1>5, <1>6, <1>7, <3>3, DeriveJoined
    <3> QED
      BY <3>1, <3>2, <3>4
  <2> QED
    BY <2>1, <2>2
<1>9. HeaderDerived'
  <2>1. Derive(dish)' = Derive(dish')
    BY DEF Derive
  <2> QED
    BY <1>8, <2>1 DEF HeaderDerived
<1>10. CalmStep
  BY <1>6, <1>7 DEF CalmStep, Terminal
<1> QED
  BY <1>9, <1>10

LEMMA UpdateLineCalm ==
  ASSUME CalmInv, NEW w \in Worker, UpdateLine(w)
  PROVE  HeaderDerived' /\ CalmStep
<1>1. KitchenTypeOK /\ HeaderDerived
  BY DEF CalmInv, KInv
<1>2. PICK n : n = req[w].line
  OBVIOUS
<1>3. PICK q : q = req[w].qty
  OBVIOUS
<1>4. /\ At(w, "commit") /\ req[w].op = "update_line" /\ Leave(w)
      /\ order' = order /\ dish' = dish /\ ticket' = ticket
      /\ \/ cook' = cook
         \/ ~Finished(seen[w].lines[n]) /\ cook' = [cook EXCEPT ![n] = q]
  BY <1>2, <1>3 DEF UpdateLine
<1>5. /\ req[w] # None /\ n \in Line
      /\ calm' = calm /\ (calm => Fresh(w))
  BY <1>2, <1>4, Lines, LeaveStill DEF CalmInv, At
<1>6. HeaderDerived'
  BY <1>1, <1>4, <1>5 DEF HeaderDerived
<1>7. calm' => seen[w].lines[n] = dish[n]
  BY <1>2, <1>4, <1>5 DEF Fresh
<1>8. CalmStep
  BY <1>1, <1>4, <1>5, <1>7 DEF CalmStep, KitchenTypeOK, Finished, Terminal
<1> QED
  BY <1>6, <1>8

LEMMA RemoveLineCalm ==
  ASSUME CalmInv, NEW w \in Worker, RemoveLine(w)
  PROVE  HeaderDerived' /\ CalmStep
<1>1. KInv /\ KitchenTypeOK
  BY DEF CalmInv, KInv
<1>2. PICK n : n = req[w].line
  OBVIOUS
<1>3. /\ At(w, "commit") /\ req[w].op = "remove_line" /\ Leave(w)
      /\ dish' = [dish EXCEPT ![n] = "absent"] /\ cook' = [cook EXCEPT ![n] = 0]
      /\ ticket' = IF head[w] = "delete" THEN NoTicket ELSE NewHeader(w)
  BY <1>2 DEF RemoveLine
<1>4. /\ Deriving(w) /\ n \in Line /\ Mine(w) = {n} /\ req[w].op \notin KdsOp
      /\ calm' = calm /\ (calm => Fresh(w))
  BY <1>1, <1>2, <1>3, Lines, LeaveStill DEF At, Deriving, Mine, KdsOp
<1>5. \A l \in Line : /\ dish'[l] = IF l \in Mine(w) THEN "absent" ELSE dish[l]
                      /\ cook'[l] = IF l = n THEN 0 ELSE cook[l]
  BY <1>1, <1>3, <1>4 DEF KitchenTypeOK
<1>6. ASSUME calm', ticket'.status # "none" PROVE ticket'.status = Derive(dish')
  <2>1. Fresh(w)
    BY <1>4, <1>6
  <2>2. head[w] # "delete" /\ ticket' = NewHeader(w)
    BY <1>3, <1>6, Statuses
  <2>3. /\ head[w] # "none" => head[w] = Derive(dish')
        /\ head[w] = "none" => ticket.status = Derive(dish')
    <3>1. \A l \in Line : dish'[l] = IF l \in Mine(w)
                                     THEN (IF req[w].op \in KdsOp THEN req[w].target ELSE "absent")
                                     ELSE dish[l]
      BY <1>4, <1>5
    <3>2. /\ head[w] \notin {"none", "delete"} => head[w] = Derive(dish')
          /\ head[w] = "none" =>
               (req[w].op = "set_line_status" /\ Mine(w) = {}) \/ ticket.status = Derive(dish')
      BY <1>1, <1>4, <2>1, <3>1, Written
    <3> QED
      BY <1>4, <2>2, <3>2
  <2> QED
    BY <1>1, <2>2, <2>3, NewHeaderType
<1>7. HeaderDerived'
  <2>1. Derive(dish)' = Derive(dish')
    BY DEF Derive
  <2> QED
    BY <1>6, <2>1 DEF HeaderDerived
<1>8. CalmStep
  BY <1>4, <1>5 DEF CalmStep
<1> QED
  BY <1>7, <1>8

LEMMA VoidOrderCalm ==
  ASSUME CalmInv, NEW w \in Worker, VoidOrder(w)
  PROVE  HeaderDerived' /\ CalmStep
<1>1. /\ req[w] # None /\ order' = "voided" /\ Leave(w) /\ cook' = cook
      /\ \/ dish' = dish
         \/ dish' = [l \in Line |-> IF l \in Cancelled(w) THEN "cancelled" ELSE dish[l]]
  BY DEF VoidOrder, At
<1>2. calm' = calm /\ (calm => Fresh(w))
  BY <1>1, LeaveStill
<1>3. ASSUME calm', NEW l \in Cancelled(w) PROVE dish[l] \notin Terminal
  BY <1>2, <1>3 DEF Fresh, Cancelled, Listed
<1> QED
  BY <1>1, <1>3 DEF HeaderDerived, CalmStep

\* A step that leaves the kitchen's rows alone.
LEMMA RowsKept ==
  ASSUME CalmInv, dish' = dish, cook' = cook, ticket' = ticket, calm' => calm,
         order' = order \/ order = "draft"
  PROVE  HeaderDerived' /\ CalmStep
BY DEF CalmInv, HeaderDerived, CalmStep

LEMMA NextCalm == CalmInv /\ [Next]_vars => CalmInv' /\ CalmStep
<1> SUFFICES ASSUME CalmInv, [Next]_vars PROVE Still' /\ HeaderDerived' /\ CalmStep
  BY NextKInv DEF CalmInv
<1>1. ASSUME NEW w \in Worker, NEW r \in Request, Read(w, r) PROVE Still' /\ HeaderDerived' /\ CalmStep
  <2>1. dish' = dish /\ cook' = cook /\ ticket' = ticket /\ (calm' => calm) /\ order' = order
    BY <1>1 DEF Read, rowVars
  <2> QED
    BY <1>1, <2>1, ReadCalmInv, RowsKept
<1>2. ASSUME NEW w \in Worker, Flush(w) PROVE Still' /\ HeaderDerived' /\ CalmStep
  <2>1. dish' = dish /\ cook' = cook /\ ticket' = ticket /\ (calm' => calm) /\ order' = order
    BY <1>2 DEF Flush, rowVars
  <2> QED
    BY <1>2, <2>1, FlushCalmInv, RowsKept
<1>3. ASSUME NEW w \in Worker, RefuseFlush(w) \/ RefuseStatus(w) \/ Abort(w)
      PROVE  Still' /\ HeaderDerived' /\ CalmStep
  <2>1. req[w] # None /\ Leave(w) /\ UNCHANGED rowVars
    BY <1>3 DEF RefuseFlush, RefuseStatus, Abort, At
  <2>2. dish' = dish /\ cook' = cook /\ ticket' = ticket /\ order' = order
    BY <2>1 DEF rowVars
  <2> QED
    BY <2>1, <2>2, LeaveStill, RowsKept
<1>4. ASSUME NEW w \in Worker, Pay(w) PROVE Still' /\ HeaderDerived' /\ CalmStep
  <2>1. /\ req[w] # None /\ req[w].op = "pay" /\ Leave(w)
        /\ dish' = dish /\ cook' = cook /\ ticket' = ticket
    BY <1>4 DEF Pay, At
  <2>2. order = "draft"
    BY <2>1 DEF CalmInv, KInv, Sales, Selling, SaleOp, Found
  <2> QED
    BY <2>1, <2>2, LeaveStill, RowsKept
<1>5. ASSUME NEW w \in Worker, SetStatus(w) \/ AddLine(w) \/ UpdateLine(w) \/ RemoveLine(w) \/ VoidOrder(w)
      PROVE  Still' /\ HeaderDerived' /\ CalmStep
  <2>1. req[w] # None /\ Leave(w)
    BY <1>5 DEF SetStatus, AddLine, UpdateLine, RemoveLine, VoidOrder, At
  <2> QED
    BY <1>5, <2>1, LeaveStill, SetStatusCalm, AddLineCalm, UpdateLineCalm, RemoveLineCalm, VoidOrderCalm
<1>6. ASSUME UNCHANGED vars PROVE Still' /\ HeaderDerived' /\ CalmStep
  <2>1. /\ order' = order /\ dish' = dish /\ cook' = cook /\ ticket' = ticket /\ calm' = calm
        /\ req' = req /\ pc' = pc /\ seen' = seen /\ head' = head
    BY <1>6 DEF vars, rowVars, workVars
  <2>2. \A w \in Worker : Mine(w)' = Mine(w) /\ Believed(w)' = Believed(w)
    BY <2>1 DEF Mine, Listed, Believed
  <2>3. \A w \in Worker : Header(w)' = Header(w) /\ (Deriving(w)' <=> Deriving(w))
    BY <2>1, <2>2 DEF Header, Listed, Deriving, At
  <2>4. Still'
    BY <2>1, <2>2, <2>3 DEF CalmInv, Still, Fresh
  <2> QED
    BY <2>1, <2>4, RowsKept
<1> QED
  BY <1>1, <1>2, <1>3, <1>4, <1>5, <1>6 DEF Next

-----------------------------------------------------------------------------

\* Types, with the table's CHECK that served needs ready, at every point of
\* every handler.
THEOREM KitchenTypeOKHolds == Spec => []KitchenTypeOK
<1>1. KInv => KitchenTypeOK
  BY DEF KInv
<1> QED
  BY <1>1, AlwaysKInv, PTL

\* The kitchen has a line for every line of the sale and no other, and a
\* ticket exactly while it has a line.
THEOREM KitchenFollowsSaleHolds == Spec => []KitchenFollowsSale
<1>1. KInv => KitchenFollowsSale
  BY DEF KInv
<1> QED
  BY <1>1, AlwaysKInv, PTL

\* The header is the one its lines give, while handlers do not overlap, no
\* dish comes late and the sale is not voided.
THEOREM HeaderDerivedHolds == Spec => []HeaderDerived
<1>1. Init => CalmInv
  BY InitCalmInv
<1>2. CalmInv /\ [Next]_vars => CalmInv'
  BY NextCalm
<1>3. CalmInv => HeaderDerived
  BY DEF CalmInv
<1> QED
  BY <1>1, <1>2, <1>3, PTL DEF Spec

\* While handlers do not overlap, a line that was served or cancelled stays
\* so until it goes, and the quantity of what is cooked is not rewritten.
THEOREM CalmHistoryHolds == Spec => CalmHistory
<1>1. Init => CalmInv
  BY InitCalmInv
<1>2. CalmInv /\ [Next]_vars => CalmInv' /\ CalmStep
  BY NextCalm
<1>3. [CalmStep]_vars => [calm' => \A l \in Line :
         /\ dish[l] \in Terminal => dish'[l] \in {dish[l], "absent"}
         /\ dish[l] \in {"ready", "served"} => cook'[l] \in {cook[l], 0}]_vars
  BY DEF CalmStep
<1> QED
  BY <1>1, <1>2, <1>3, PTL DEF Spec, CalmHistory
=============================================================================
