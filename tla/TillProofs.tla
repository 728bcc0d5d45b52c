----------------------------- MODULE TillProofs -----------------------------
(***************************************************************************)
(* The properties of Till for every set of workers, orders, sessions,      *)
(* keys and requests.                                                      *)
(*                                                                         *)
(* The argument is the one a database programmer makes.  A transaction     *)
(* holds exactly the rows of the statements it has behind it (HeldExactly) *)
(* and no two hold the same row (Disjoint).  A step writes only rows its   *)
(* worker holds (Writes).  So what a handler checked when it took a row is *)
(* still so when it commits (Facts), and every other invariant follows     *)
(* from the facts of the committing handler.                               *)
(*                                                                         *)
(* The second half shows that the handlers implement Ledger: each commit   *)
(* is one entry, every other step is none.                                 *)
(***************************************************************************)
EXTENDS TillInv, TillLedger, Sums, SequenceTheorems, TLAPS

(* The statements of a handler. *)

LEMMA FirstStmt ==
  ASSUME NEW r \in Request
  PROVE  Has(r, First(r)) /\ First(r) \in Stmt /\ \A p : ~Behind(r, p, First(r))
<1>1. WellFormed(r)
  BY RequestAssumption
<1> QED
  BY <1>1
  DEF First, Has, Stmt, Behind, Rank, WellFormed, KeyOrCommit, OrderOp, CashOp, SettleOp, BirthOp, KeyedOp

LEMMA NextStmt ==
  ASSUME NEW r \in Request, NEW p, Has(r, p), p # "commit"
  PROVE  /\ Has(r, After(r, p)) /\ After(r, p) \in Stmt
         /\ \A b : Behind(r, b, After(r, p)) <=> Behind(r, b, p) \/ b = p
         /\ ~Behind(r, p, p)
<1>1. WellFormed(r)
  BY RequestAssumption
<1> QED
  BY <1>1
  DEF After, Has, Stmt, Behind, Rank, WellFormed, KeyOrCommit, OrderOp, CashOp, SettleOp, BirthOp, KeyedOp

\* What is behind a handler when it commits, by operation.
LEMMA BehindCommit ==
  ASSUME NEW r \in Request
  PROVE  /\ r.op \in OrderOp => Behind(r, "order", "commit")
         /\ r.op \in SettleOp \union CashOp => Behind(r, "cash", "commit")
         /\ r.op \in SettleOp => Behind(r, "series", "commit")
         /\ r.op = "open_session" => Behind(r, "slot", "commit")
         /\ (r.op = "create_order" /\ r.table # None) => Behind(r, "slot", "commit")
         /\ r.key # None => Behind(r, "key", "commit")
BY DEF Behind, Has, Rank, OrderOp, CashOp, SettleOp

-----------------------------------------------------------------------------
(* Types. *)

LEMMA InitType == Init => TypeOK
<1> SUFFICES ASSUME Init PROVE TypeOK
  OBVIOUS
<1> QED
  BY DEF Init, TypeOK, OrderTypes, CashTypes, KeyTypes, WorkTypes, NoOrder, NoSession

\* A step that leaves the rows alone, and the keys, keeps their types.
LEMMA SameType ==
  ASSUME TypeOK
  PROVE  /\ UNCHANGED orderVars => OrderTypes'
         /\ UNCHANGED cashVars => CashTypes'
         /\ UNCHANGED keyVars => KeyTypes'
BY DEF TypeOK, OrderTypes, CashTypes, KeyTypes, orderVars, cashVars, keyVars

LEMMA LeaveType ==
  ASSUME TypeOK, NEW w \in Worker, Leave(w)
  PROVE  WorkTypes'
BY DEF TypeOK, WorkTypes, Leave

LEMMA RefuseType ==
  ASSUME TypeOK, NEW w \in Worker, Refuse(w)
  PROVE  TypeOK'
BY SameType, LeaveType DEF Refuse, TypeOK

LEMMA BeginType ==
  ASSUME TypeOK, NEW w \in Worker, NEW r \in Request, Begin(w, r)
  PROVE  TypeOK'
<1>1. First(r) \in Stmt
  BY FirstStmt
<1>2. WorkTypes'
  BY <1>1 DEF TypeOK, WorkTypes, Begin, Stmt
<1> QED
  BY <1>2, SameType DEF TypeOK, Begin

LEMMA ProceedType ==
  ASSUME TypeOK, Placed, NEW w \in Worker, req[w] # None, pc[w] # "commit", pc[w] # "drawer",
         Proceed(w), DOMAIN calc' = Worker, num' \in [Worker -> Nat],
         UNCHANGED <<orderVars, cashVars, keyVars, drawer>>
  PROVE  TypeOK'
<1>1. req[w] \in Request /\ Has(req[w], pc[w])
  BY DEF TypeOK, WorkTypes, Placed
<1>2. After(req[w], pc[w]) \in Stmt
  BY <1>1, NextStmt
<1>3. WorkTypes'
  BY <1>2 DEF TypeOK, WorkTypes, Proceed, Stmt
<1> QED
  BY <1>3, SameType DEF TypeOK

LEMMA StatementType ==
  ASSUME TypeOK, Placed, NEW w \in Worker, Statement(w)
  PROVE  TypeOK'
<1>0. DOMAIN calc = Worker /\ num \in [Worker -> Nat]
  BY DEF TypeOK, WorkTypes
<1>1. CASE LockOrder(w)
  BY <1>0, <1>1, ProceedType DEF LockOrder, At
<1>2. CASE LockCash(w)
  BY <1>0, <1>2, ProceedType DEF LockCash, At
<1>3. CASE TakeNumber(w)
  <2>1. req[w] \in Request /\ req[w].op \in OrderOp
    BY <1>3 DEF TakeNumber, At, TypeOK, WorkTypes, Placed, Has, OrderOp
  <2>2. OrderTerminal[req[w].order] \in Terminal
    BY <2>1, RequestAssumption, TerminalAssumption DEF WellFormed
  <2>3. num' \in [Worker -> Nat]
    BY <1>0, <1>3, <2>2 DEF TakeNumber, NextNumber, TypeOK, OrderTypes
  <2> QED
    BY <1>0, <1>3, <2>3, ProceedType DEF TakeNumber, At
<1>4. CASE ClaimSlot(w)
  BY <1>0, <1>4, ProceedType DEF ClaimSlot, At
<1>5. CASE StoreKey(w)
  BY <1>0, <1>5, ProceedType DEF StoreKey, At
<1>6. CASE RefuseOrder(w) \/ RefuseCash(w) \/ RefuseSlot(w) \/ ReplayAfterConflict(w)
  BY <1>6, RefuseType DEF RefuseOrder, RefuseCash, RefuseSlot, ReplayAfterConflict
<1> QED
  BY <1>1, <1>2, <1>3, <1>4, <1>5, <1>6 DEF Statement

\* A frozen answer is a key row like any other.
LEMMA FreezeType ==
  ASSUME TypeOK, NEW w \in Worker, req[w] # None, NEW n \in Nat, Freeze(w, n)
  PROVE  KeyTypes'
<1>1. req[w] \in Request
  BY DEF TypeOK, WorkTypes
<1>2. req[w].key \in Key \union {None}
  BY <1>1, RequestAssumption DEF WellFormed
<1> DEFINE row == [req |-> req[w], answer |-> n]
<1>3. row \in [req : Request, answer : Nat]
  BY <1>1
<1>4. CASE req[w].key = None
  BY <1>4, SameType DEF Freeze
<1>5. CASE req[w].key # None
  <2>1. /\ keys' = [keys EXCEPT ![req[w].key] = row]
        /\ applied' = [applied EXCEPT ![req[w].key] = @ + 1]
    BY <1>5 DEF Freeze
  <2> HIDE DEF row
  <2> QED
    BY <1>2, <1>3, <1>5, <2>1 DEF TypeOK, KeyTypes
<1> QED
  BY <1>4, <1>5

\* What the facts say of a charge or a refund that commits.
LEMMA SettleFacts ==
  ASSUME IInv, NEW w \in Worker, At(w, "commit"), req[w].op \in SettleOp
  PROVE  /\ req[w] \in Request /\ WellFormed(req[w])
         /\ OrderCheck(req[w]) /\ CashCheck(req[w])
         /\ calc[w] = Amount(req[w]) /\ calc[w] = Due(req[w])
         /\ calc[w] \in Int /\ Paid(req[w]) > 0 /\ Paid(req[w]) \in Nat
         /\ num[w] = NextNumber(OrderTerminal[req[w].order])
         /\ <<"order", req[w].order>> \in held[w]
         /\ <<"cash", req[w].sess>> \in held[w]
         /\ <<"series", OrderTerminal[req[w].order]>> \in held[w]
<1> DEFINE r == req[w]
<1>1. r \in Request /\ WellFormed(r)
  BY RequestAssumption DEF IInv, TypeOK, WorkTypes, At
<1>2. \A p \in {"order", "cash", "series"} : Passed(w, p)
  BY <1>1, BehindCommit DEF Passed, At, SettleOp, OrderOp
<1>3. /\ OrderCheck(r) /\ CashCheck(r)
      /\ calc[w] = Amount(r) /\ num[w] = NextNumber(OrderTerminal[r.order])
  BY <1>2 DEF IInv, Facts, Fact, Stmt
<1>4. Settles(calc[w], r)
  BY <1>3 DEF CashCheck, SettleOp
<1>5. Paid(r) \in Nat
  BY <1>1 DEF WellFormed, Paid, SettleOp
<1>6. /\ RowAt(r, "order") \in held[w] /\ RowAt(r, "cash") \in held[w]
      /\ RowAt(r, "series") \in held[w]
  BY <1>2 DEF IInv, HeldExactly, Stmt
<1> QED
  BY <1>1, <1>3, <1>4, <1>5, <1>6 DEF Settles, Due, RowAt

\* The types of the rows an order commits when it is settled.
LEMMA SettleType ==
  ASSUME IInv, NEW w \in Worker, At(w, "commit"), req[w].op \in SettleOp, NEW n \in Order,
         NEW e \in {"sale_closed", "refund_issued"}, Settle(w, n, e),
         lines' \in [Order -> [Line -> Int]], refunds' \in [Order -> Order \union {None}]
  PROVE  OrderTypes'
<1> DEFINE r == req[w]
<1>1. /\ r \in Request /\ WellFormed(r) /\ calc[w] \in Int /\ num[w] \in Nat
      /\ r.sess \in Session /\ r.cash \in Nat /\ r.card \in Nat
  BY SettleFacts DEF WellFormed, IInv, TypeOK, WorkTypes
<1>2. OrderTypes
  BY DEF IInv, TypeOK
<1> HIDE DEF r
<1>3. orders' \in [Order -> [status : {"none", "draft", "paid", "voided"},
                             table  : Table \union {None},
                             sess   : Session \union {None},
                             total  : Int]]
  <2>1. orders' = [orders EXCEPT ![n] = [@ EXCEPT !.status = "paid", !.sess = r.sess,
                                                  !.total = calc[w]]]
    BY DEF Settle, r
  <2> QED
    BY <1>1, <1>2, <2>1 DEF OrderTypes
<1>4. payments' \in [Order -> [cash : Nat, card : Nat]]
  <2>1. payments' = [payments EXCEPT ![n] = [cash |-> r.cash, card |-> r.card]]
    BY DEF Settle, r
  <2> QED
    BY <1>1, <1>2, <2>1 DEF OrderTypes
<1>5. tickets' \in [Order -> Nat] /\ sequences' \in [Terminal -> Nat]
  BY <1>1, <1>2 DEF OrderTypes, Settle
<1>6. saleEvents' \in [Order -> Seq({"sale_closed", "sale_voided", "refund_issued"})]
  BY <1>1, <1>2 DEF OrderTypes, Settle
<1> QED
  BY <1>3, <1>4, <1>5, <1>6 DEF OrderTypes

LEMMA CommitType ==
  ASSUME IInv, NEW w \in Worker, Commit(w)
  PROVE  TypeOK'
<1> DEFINE r == req[w]
<1>0. req[w] # None /\ At(w, "commit")
  BY DEF Commit, Committing, At, CreateOrder, AddLine, UpdateLine, RemoveLine,
         CloseOrder, VoidOrder, RefundOrder, OpenSession, AddMovement, AddCount, CloseSession
<1>1. TypeOK /\ r \in Request /\ WellFormed(r)
  BY <1>0, RequestAssumption DEF IInv, TypeOK, WorkTypes
<1>t. OrderTypes /\ CashTypes /\ KeyTypes /\ WorkTypes /\ drawer \in [Order -> Nat]
  BY <1>1 DEF TypeOK
<1> HIDE DEF r
<1>2. CASE CreateOrder(w)
  <2>1. r.table \in Table \union {None}
    BY <1>1, <1>2 DEF WellFormed, CreateOrder, Committing, r
  <2>2. PICK o \in FreshOrder(r.term) :
          orders' = [orders EXCEPT ![o] = [@ EXCEPT !.status = "draft", !.table = r.table]]
    BY <1>2 DEF CreateOrder, r
  <2>3. o \in Order
    BY DEF FreshOrder
  <2>4. orders' \in [Order -> [status : {"none", "draft", "paid", "voided"},
                               table  : Table \union {None},
                               sess   : Session \union {None},
                               total  : Int]]
    BY <1>t, <2>1, <2>2, <2>3 DEF OrderTypes
  <2>5. OrderTypes'
    BY <1>2, <1>t, <2>4 DEF OrderTypes, CreateOrder
  <2>6. KeyTypes' /\ WorkTypes' /\ CashTypes'
    BY <1>0, <1>1, <1>2, FreezeType, LeaveType, SameType DEF CreateOrder
  <2> QED
    BY <1>2, <1>t, <2>5, <2>6 DEF TypeOK, CreateOrder
<1>3. CASE AddLine(w)
  <2>1. r.qty \in Int /\ r.order \in Order
    BY <1>1, <1>3 DEF WellFormed, AddLine, Committing, OrderOp, r
  <2>2. PICK l \in FreeSlot(r.order) :
          lines' = [lines EXCEPT ![r.order] = [@ EXCEPT ![l] = r.qty]]
    BY <1>3 DEF AddLine, r
  <2>3. l \in Line
    BY DEF FreeSlot
  <2>4. lines' \in [Order -> [Line -> Int]]
    BY <1>t, <2>1, <2>2, <2>3 DEF OrderTypes
  <2>5. OrderTypes'
    BY <1>3, <1>t, <2>4 DEF OrderTypes, AddLine
  <2>6. KeyTypes' /\ WorkTypes' /\ CashTypes'
    BY <1>0, <1>1, <1>3, FreezeType, LeaveType, SameType DEF AddLine
  <2> QED
    BY <1>3, <1>t, <2>5, <2>6 DEF TypeOK, AddLine
<1>4. CASE UpdateLine(w)
  <2>1. r.qty \in Int /\ r.order \in Order /\ r.line \in Line
    BY <1>1, <1>4 DEF WellFormed, UpdateLine, Committing, OrderOp, r
  <2>2. lines' = [lines EXCEPT ![r.order] = [@ EXCEPT ![r.line] = r.qty]]
    BY <1>4 DEF UpdateLine, r
  <2>3. lines' \in [Order -> [Line -> Int]]
    BY <1>t, <2>1, <2>2 DEF OrderTypes
  <2>4. OrderTypes'
    BY <1>4, <1>t, <2>3 DEF OrderTypes, UpdateLine
  <2>5. KeyTypes' /\ WorkTypes' /\ CashTypes'
    BY <1>1, <1>4, LeaveType, SameType DEF UpdateLine
  <2> QED
    BY <1>4, <1>t, <2>4, <2>5 DEF TypeOK, UpdateLine
<1>5. CASE RemoveLine(w)
  <2>1. r.order \in Order /\ r.line \in Line
    BY <1>1, <1>5 DEF WellFormed, RemoveLine, Committing, OrderOp, r
  <2>2. lines' = [lines EXCEPT ![r.order] = [@ EXCEPT ![r.line] = 0]]
    BY <1>5 DEF RemoveLine, r
  <2>3. lines' \in [Order -> [Line -> Int]]
    BY <1>t, <2>1, <2>2 DEF OrderTypes
  <2>4. OrderTypes'
    BY <1>5, <1>t, <2>3 DEF OrderTypes, RemoveLine
  <2>5. KeyTypes' /\ WorkTypes' /\ CashTypes'
    BY <1>1, <1>5, LeaveType, SameType DEF RemoveLine
  <2> QED
    BY <1>5, <1>t, <2>4, <2>5 DEF TypeOK, RemoveLine
<1>6. CASE CloseOrder(w)
  <2>1. req[w].order \in Order /\ req[w].op \in SettleOp
    BY <1>1, <1>6 DEF WellFormed, CloseOrder, Committing, OrderOp, SettleOp, r
  <2>2. num[w] \in Nat
    BY <1>t DEF WorkTypes
  <2>3. WorkTypes'
    BY <1>1, <1>t, <1>6, LeaveType DEF CloseOrder, WorkTypes
  <2>4. Settle(w, req[w].order, "sale_closed") /\ Freeze(w, num[w]) /\ UNCHANGED <<lines, refunds>>
    BY <1>6 DEF CloseOrder
  <2>5. KeyTypes'
    BY <1>0, <1>1, <2>2, <2>4, FreezeType
  <2>6. OrderTypes'
    BY <1>0, <1>t, <2>1, <2>4, SettleType DEF OrderTypes
  <2>7. CashTypes'
    BY <1>1, <1>6, SameType DEF CloseOrder
  <2> QED
    BY <1>6, <1>t, <2>3, <2>5, <2>6, <2>7 DEF TypeOK, CloseOrder
<1>7. CASE VoidOrder(w)
  <2>1. r.order \in Order
    BY <1>1, <1>7 DEF WellFormed, VoidOrder, Committing, OrderOp, r
  <2>2. orders' = [orders EXCEPT ![r.order] = [@ EXCEPT !.status = "voided"]]
    BY <1>7 DEF VoidOrder, r
  <2>3. orders' \in [Order -> [status : {"none", "draft", "paid", "voided"},
                               table  : Table \union {None},
                               sess   : Session \union {None},
                               total  : Int]]
    BY <1>t, <2>1, <2>2 DEF OrderTypes
  <2>4. saleEvents' \in [Order -> Seq({"sale_closed", "sale_voided", "refund_issued"})]
    BY <1>t, <1>7, <2>1 DEF OrderTypes, VoidOrder, r
  <2>5. OrderTypes'
    BY <1>7, <1>t, <2>3, <2>4 DEF OrderTypes, VoidOrder
  <2>6. KeyTypes' /\ WorkTypes' /\ CashTypes'
    BY <1>1, <1>7, LeaveType, SameType DEF VoidOrder
  <2> QED
    BY <1>7, <1>t, <2>5, <2>6 DEF TypeOK, VoidOrder
<1>8. CASE RefundOrder(w)
  <2>1. req[w].order \in Order /\ req[w].op \in SettleOp /\ r.op = "refund_order"
    BY <1>1, <1>8 DEF WellFormed, RefundOrder, Committing, OrderOp, SettleOp, r
  <2>2. RefundLines(r) \in [Line -> Int]
    <3>1. r.items \in Seq([line : Line, qty : Nat \ {0}])
      BY <1>1, <2>1 DEF WellFormed
    <3>2. \A l \in Line : l <= Len(r.items) => r.items[l].qty \in Nat
      <4> SUFFICES ASSUME NEW l \in Line, l <= Len(r.items) PROVE r.items[l].qty \in Nat
        OBVIOUS
      <4>1. l \in 1..Len(r.items)
        BY <3>1, LineAssumption DEF Line
      <4> DEFINE S == [line : Line, qty : Nat \ {0}]
      <4>2. r.items \in Seq(S)
        BY <3>1
      <4>3. r.items[l] \in S
        <5> HIDE DEF S
        <5> QED
          BY <4>1, <4>2
      <4> QED
        BY <4>3
    <3> QED
      BY <3>2 DEF RefundLines
  <2>3. PICK n \in FreshOrder(OrderTerminal[req[w].order]) :
          /\ Settle(w, n, "refund_issued")
          /\ lines'   = [lines EXCEPT ![n] = RefundLines(r)]
          /\ refunds' = [refunds EXCEPT ![req[w].order] = n]
    BY <1>8 DEF RefundOrder, r
  <2>4. n \in Order
    BY DEF FreshOrder
  <2>5. lines' \in [Order -> [Line -> Int]] /\ refunds' \in [Order -> Order \union {None}]
    BY <1>t, <2>1, <2>2, <2>3, <2>4 DEF OrderTypes
  <2>6. OrderTypes'
    BY <1>0, <2>1, <2>3, <2>4, <2>5, SettleType
  <2>7. KeyTypes' /\ WorkTypes' /\ CashTypes'
    BY <1>1, <1>8, LeaveType, SameType DEF RefundOrder
  <2> QED
    BY <1>8, <1>t, <2>6, <2>7 DEF TypeOK, RefundOrder
<1>9. CASE OpenSession(w)
  <2>1. r.opening \in Nat
    BY <1>1, <1>9 DEF WellFormed, OpenSession, Committing, r
  <2>2. PICK s \in FreshSession(r.term) :
          sessions' = [sessions EXCEPT ![s] = [@ EXCEPT !.status = "open", !.opening = r.opening]]
    BY <1>9 DEF OpenSession, r
  <2>3. s \in Session
    BY DEF FreshSession
  <2>s. sessions' \in [Session -> [status  : {"none", "open", "closed"},
                                   opening : Nat, counted : Nat]]
    BY <1>t, <2>1, <2>2, <2>3 DEF CashTypes
  <2>4. CashTypes'
    BY <1>9, <1>t, <2>s DEF CashTypes, OpenSession
  <2>5. KeyTypes' /\ WorkTypes' /\ OrderTypes'
    BY <1>0, <1>1, <1>9, FreezeType, LeaveType, SameType DEF OpenSession
  <2> QED
    BY <1>9, <1>t, <2>4, <2>5 DEF TypeOK, OpenSession
<1>10. CASE AddMovement(w)
  <2>1. r.sess \in Session /\ r.amount \in Int
    BY <1>1, <1>10 DEF WellFormed, AddMovement, Committing, CashOp, r
  <2>2. CashTypes'
    BY <1>10, <1>t, <2>1 DEF CashTypes, AddMovement, r
  <2>3. KeyTypes' /\ WorkTypes' /\ OrderTypes'
    BY <1>0, <1>1, <1>10, FreezeType, LeaveType, SameType DEF AddMovement
  <2> QED
    BY <1>10, <1>t, <2>2, <2>3 DEF TypeOK, AddMovement
<1>11. CASE AddCount(w)
  <2>1. r.sess \in Session /\ r.counted \in Nat
    BY <1>1, <1>11 DEF WellFormed, AddCount, Committing, CashOp, r
  <2>2. CashTypes'
    BY <1>11, <1>t, <2>1 DEF CashTypes, AddCount, r
  <2>3. KeyTypes' /\ WorkTypes' /\ OrderTypes'
    BY <1>1, <1>11, LeaveType, SameType DEF AddCount
  <2> QED
    BY <1>11, <1>t, <2>2, <2>3 DEF TypeOK, AddCount
<1>12. CASE CloseSession(w)
  <2>1. r.sess \in Session /\ r.counted \in Nat
    BY <1>1, <1>12 DEF WellFormed, CloseSession, Committing, CashOp, r
  <2>2. sessions' = [sessions EXCEPT ![r.sess] = [@ EXCEPT !.status = "closed",
                                                           !.counted = r.counted]]
    BY <1>12 DEF CloseSession, r
  <2>s. sessions' \in [Session -> [status  : {"none", "open", "closed"},
                                   opening : Nat, counted : Nat]]
    BY <1>t, <2>1, <2>2 DEF CashTypes
  <2>3. CashTypes'
    BY <1>12, <1>t, <2>1, <2>s DEF CashTypes, CloseSession, r
  <2>4. KeyTypes' /\ WorkTypes' /\ OrderTypes'
    BY <1>1, <1>12, LeaveType, SameType DEF CloseSession
  <2> QED
    BY <1>12, <1>t, <2>3, <2>4 DEF TypeOK, CloseSession
<1> QED
  BY <1>2, <1>3, <1>4, <1>5, <1>6, <1>7, <1>8, <1>9, <1>10, <1>11, <1>12 DEF Commit

LEMMA NextType ==
  ASSUME IInv, [Next]_vars
  PROVE  TypeOK'
<1>0. TypeOK /\ Placed
  BY DEF IInv
<1>1. CASE UNCHANGED vars
  BY <1>0, <1>1 DEF TypeOK, OrderTypes, CashTypes, KeyTypes, WorkTypes,
                    vars, orderVars, cashVars, keyVars, workVars
<1>2. ASSUME NEW k \in ExpiringKey, ExpireKey(k) PROVE TypeOK'
  <2>1. KeyTypes'
    BY <1>0, <1>2 DEF TypeOK, KeyTypes, ExpireKey
  <2>2. WorkTypes'
    BY <1>0, <1>2 DEF TypeOK, WorkTypes, ExpireKey, workVars
  <2> QED
    BY <1>0, <1>2, <2>1, <2>2, SameType DEF TypeOK, ExpireKey
<1>3. ASSUME NEW w \in Worker, NEW r \in Request, Begin(w, r) PROVE TypeOK'
  BY <1>0, <1>3, BeginType
<1>4. ASSUME NEW w \in Worker, Statement(w) PROVE TypeOK'
  BY <1>0, <1>4, StatementType
<1>5. ASSUME NEW w \in Worker, Commit(w) PROVE TypeOK'
  BY <1>5, CommitType
<1>6. ASSUME NEW w \in Worker, OpenDrawer(w) PROVE TypeOK'
  <2>0. req[w] \in Request /\ req[w].op = "close_order"
    BY <1>0, <1>6 DEF OpenDrawer, At, Placed, TypeOK, WorkTypes, Has
  <2>1. drawer' \in [Order -> Nat]
    BY <1>0, <1>6, <2>0, RequestAssumption
    DEF OpenDrawer, TypeOK, WellFormed, OrderOp, SettleOp
  <2> QED
    BY <1>0, <1>6, <2>1, LeaveType, SameType DEF TypeOK, OpenDrawer
<1>7. ASSUME NEW w \in Worker, Abort(w) PROVE TypeOK'
  BY <1>0, <1>7, RefuseType DEF Abort
<1> QED
  BY <1>1, <1>2, <1>3, <1>4, <1>5, <1>6, <1>7 DEF Next

-----------------------------------------------------------------------------
(* A step writes only rows its worker holds, and rows nobody has seen. *)

Step(v) == \/ \E r \in Request : Begin(v, r)
           \/ Statement(v) \/ Commit(v) \/ OpenDrawer(v) \/ Abort(v)

\* The other workers do not move.
Alone(v) == \A u \in Worker \ {v} :
  /\ req'[u] = req[u] /\ pc'[u] = pc[u] /\ held'[u] = held[u]
  /\ num'[u] = num[u] /\ calc'[u] = calc[u]

WritesOrders(v) ==
  \A o \in Order :
    /\ \/ orders'[o] = orders[o] /\ lines'[o] = lines[o] /\ refunds'[o] = refunds[o]
       \/ <<"order", o>> \in held[v]
       \/ orders[o].status = "none"
    /\ \/ /\ orders'[o].sess = orders[o].sess /\ orders'[o].total = orders[o].total
          /\ payments'[o] = payments[o]
       \/ ~Settled(o) /\ <<"cash", orders'[o].sess>> \in held[v]
    /\ (orders'[o].status = "draft" /\ orders'[o] # orders[o])
         => (orders'[o].table = None \/ <<"table", orders'[o].table>> \in held[v])

WritesCash(v) ==
  \A s \in Session :
    /\ \/ sessions'[s] = sessions[s] /\ moves'[s] = moves[s]
       \/ <<"cash", s>> \in held[v]
       \/ sessions[s].status = "none"
    /\ (sessions'[s].status = "open" /\ sessions[s].status # "open")
         => <<"till", SessionTerminal[s]>> \in held[v]

WritesSeries(v) ==
  \A t \in Terminal : sequences'[t] = sequences[t] \/ <<"series", t>> \in held[v]

WritesKeys(v) ==
  \A k \in Key : (keys[k] = None /\ keys'[k] # None) => <<"key", k>> \in held[v]

Writes(v) == WritesOrders(v) /\ WritesCash(v) /\ WritesSeries(v) /\ WritesKeys(v)

LEMMA SameWrites ==
  ASSUME TypeOK, NEW v \in Worker
  PROVE  /\ UNCHANGED orderVars => WritesOrders(v) /\ WritesSeries(v)
         /\ UNCHANGED cashVars => WritesCash(v)
         /\ UNCHANGED keyVars => WritesKeys(v)
BY DEF orderVars, cashVars, keyVars, WritesOrders, WritesSeries, WritesCash, WritesKeys

LEMMA FreezeWrites ==
  ASSUME IInv, NEW v \in Worker, At(v, "commit"), NEW n, Freeze(v, n)
  PROVE  WritesKeys(v)
<1>1. req[v] \in Request /\ TypeOK
  BY DEF IInv, TypeOK, WorkTypes, At
<1>2. CASE req[v].key = None
  BY <1>1, <1>2, SameWrites DEF Freeze
<1>3. CASE req[v].key # None
  <2>1. Passed(v, "key")
    BY <1>1, <1>3, BehindCommit DEF Passed, At
  <2>2. <<"key", req[v].key>> \in held[v]
    BY <2>1 DEF IInv, HeldExactly, Stmt, RowAt
  <2>3. \A k \in Key : k # req[v].key => keys'[k] = keys[k]
    BY <1>1, <1>3 DEF Freeze, TypeOK, KeyTypes
  <2> QED
    BY <2>2, <2>3 DEF WritesKeys
<1> QED
  BY <1>2, <1>3

\* A committing handler holds the row of each of its statements.
LEMMA CommitHolds ==
  ASSUME IInv, NEW v \in Worker, At(v, "commit")
  PROVE  /\ req[v] \in Request /\ WellFormed(req[v])
         /\ req[v].op \in OrderOp => /\ <<"order", req[v].order>> \in held[v]
                                     /\ OrderCheck(req[v])
         /\ req[v].op \in SettleOp \union CashOp => /\ <<"cash", req[v].sess>> \in held[v]
                                                   /\ CashCheck(req[v])
                                                   /\ calc[v] = Amount(req[v])
         /\ req[v].op \in SettleOp =>
              /\ <<"series", OrderTerminal[req[v].order]>> \in held[v]
              /\ num[v] = NextNumber(OrderTerminal[req[v].order])
         /\ req[v].op = "open_session" => /\ <<"till", req[v].term>> \in held[v]
                                          /\ TillFree(req[v].term)
         /\ (req[v].op = "create_order" /\ req[v].table # None) =>
              <<"table", req[v].table>> \in held[v] /\ TableFree(req[v].table)
         /\ req[v].key # None => <<"key", req[v].key>> \in held[v] /\ KeyFree(req[v].key)
<1>1. req[v] \in Request /\ WellFormed(req[v]) /\ req[v] # None /\ pc[v] = "commit"
  BY RequestAssumption DEF IInv, TypeOK, WorkTypes, At
<1>2. \A p \in Stmt : Passed(v, p) => RowAt(req[v], p) \in held[v] /\ Fact(v, p)
  BY DEF IInv, HeldExactly, Facts
<1>3. ASSUME req[v].op \in OrderOp
      PROVE  <<"order", req[v].order>> \in held[v] /\ OrderCheck(req[v])
  <2>1. Passed(v, "order")
    BY <1>1, <1>3, BehindCommit DEF Passed
  <2> QED
    BY <1>2, <2>1 DEF Stmt, RowAt, Fact
<1>4. ASSUME req[v].op \in SettleOp \union CashOp
      PROVE  <<"cash", req[v].sess>> \in held[v] /\ CashCheck(req[v]) /\ calc[v] = Amount(req[v])
  <2>1. Passed(v, "cash")
    BY <1>1, <1>4, BehindCommit DEF Passed
  <2> QED
    BY <1>2, <2>1 DEF Stmt, RowAt, Fact
<1>5. ASSUME req[v].op \in SettleOp
      PROVE  /\ <<"series", OrderTerminal[req[v].order]>> \in held[v]
             /\ num[v] = NextNumber(OrderTerminal[req[v].order])
  <2>1. Passed(v, "series")
    BY <1>1, <1>5, BehindCommit DEF Passed
  <2> QED
    BY <1>2, <2>1 DEF Stmt, RowAt, Fact
<1>6. ASSUME req[v].op = "open_session"
      PROVE  <<"till", req[v].term>> \in held[v] /\ TillFree(req[v].term)
  <2>1. Passed(v, "slot")
    BY <1>1, <1>6, BehindCommit DEF Passed
  <2> QED
    BY <1>2, <1>6, <2>1 DEF Stmt, RowAt, Fact, SlotCheck
<1>7. ASSUME req[v].op = "create_order", req[v].table # None
      PROVE  <<"table", req[v].table>> \in held[v] /\ TableFree(req[v].table)
  <2>1. Passed(v, "slot")
    BY <1>1, <1>7, BehindCommit DEF Passed
  <2> QED
    BY <1>2, <1>7, <2>1 DEF Stmt, RowAt, Fact, SlotCheck
<1>8. ASSUME req[v].key # None
      PROVE  <<"key", req[v].key>> \in held[v] /\ KeyFree(req[v].key)
  <2>1. Passed(v, "key")
    BY <1>1, <1>8, BehindCommit DEF Passed
  <2> QED
    BY <1>2, <2>1 DEF Stmt, RowAt, Fact
<1> QED
  BY <1>1, <1>3, <1>4, <1>5, <1>6, <1>7, <1>8

\* A settled order: its own row or a new one, and the cash session.
LEMMA SettleWrites ==
  ASSUME IInv, NEW v \in Worker, At(v, "commit"), req[v].op \in SettleOp, NEW n \in Order,
         NEW e, Settle(v, n, e), OrderTerminal[n] = OrderTerminal[req[v].order],
         (n = req[v].order /\ req[v].op = "close_order") \/ orders[n].status = "none",
         \A o \in Order \ {n} : lines'[o] = lines[o],
         \A o \in Order \ {req[v].order} : refunds'[o] = refunds[o]
  PROVE  WritesOrders(v) /\ WritesSeries(v)
<1> DEFINE r == req[v]
<1>1. /\ TypeOK /\ OrderTypes /\ r \in Request /\ WellFormed(r) /\ r.op \in OrderOp
      /\ <<"order", r.order>> \in held[v] /\ <<"cash", r.sess>> \in held[v]
      /\ <<"series", OrderTerminal[r.order]>> \in held[v]
      /\ OrderCheck(r)
  BY CommitHolds DEF IInv, TypeOK, SettleOp, OrderOp
<1>2. \A o \in Order \ {n} : orders'[o] = orders[o] /\ payments'[o] = payments[o]
  BY <1>1 DEF Settle, OrderTypes
<1>3. orders'[n].status = "paid" /\ orders'[n].sess = r.sess
  BY <1>1 DEF Settle, OrderTypes
<1>6. ~Settled(n)
  BY <1>1 DEF IInv, Unsettled, OrderCheck, EnsureDraft
<1>7. WritesOrders(v)
  BY <1>1, <1>2, <1>3, <1>6 DEF WritesOrders
<1>8. WritesSeries(v)
  BY <1>1 DEF WritesSeries, Settle, OrderTypes
<1> QED
  BY <1>7, <1>8

LEMMA CommitWrites ==
  ASSUME IInv, NEW v \in Worker, Commit(v)
  PROVE  Writes(v)
<1> DEFINE r == req[v]
<1>0. At(v, "commit")
  BY DEF Commit, Committing, CreateOrder, AddLine, UpdateLine, RemoveLine,
         CloseOrder, VoidOrder, RefundOrder, OpenSession, AddMovement, AddCount, CloseSession
<1>1. TypeOK /\ OrderTypes /\ CashTypes /\ r \in Request /\ WellFormed(r)
  BY <1>0, CommitHolds DEF IInv, TypeOK
<1>2. CASE CreateOrder(v)
  <2>1. r.op = "create_order" /\ r.table \in Table \union {None}
    BY <1>1, <1>2 DEF CreateOrder, Committing, WellFormed
  <2>2. r.table # None => <<"table", r.table>> \in held[v]
    BY <1>0, <2>1, CommitHolds
  <2>3. PICK o \in FreshOrder(r.term) :
          orders' = [orders EXCEPT ![o].status = "draft", ![o].table = r.table]
    BY <1>2 DEF CreateOrder
  <2>4. \A p \in Order : /\ p # o => orders'[p] = orders[p]
                         /\ p = o => orders[p].status = "none"
                         /\ orders'[p].sess = orders[p].sess /\ orders'[p].total = orders[p].total
                         /\ p = o => orders'[p].table = r.table
    BY <1>1, <2>3 DEF OrderTypes, FreshOrder
  <2>5. WritesOrders(v)
    BY <1>2, <2>2, <2>4 DEF WritesOrders, CreateOrder
  <2>6. WritesCash(v) /\ WritesSeries(v) /\ WritesKeys(v)
    BY <1>0, <1>1, <1>2, SameWrites, FreezeWrites DEF CreateOrder, WritesSeries
  <2> QED
    BY <2>5, <2>6 DEF Writes
<1>3. CASE AddLine(v)
  <2>1. r.op \in OrderOp
    BY <1>3 DEF AddLine, Committing, OrderOp
  <2>2. <<"order", r.order>> \in held[v]
    BY <1>0, <2>1, CommitHolds
  <2>3. \A o \in Order : o # r.order => lines'[o] = lines[o]
    BY <1>1, <1>3 DEF AddLine, OrderTypes
  <2>4. WritesOrders(v)
    BY <1>3, <2>2, <2>3 DEF WritesOrders, AddLine
  <2>5. WritesCash(v) /\ WritesSeries(v) /\ WritesKeys(v)
    BY <1>0, <1>1, <1>3, SameWrites, FreezeWrites DEF AddLine, WritesSeries
  <2> QED
    BY <2>4, <2>5 DEF Writes
<1>4. CASE UpdateLine(v) \/ RemoveLine(v)
  <2>1. r.op \in OrderOp
    BY <1>4 DEF UpdateLine, RemoveLine, Committing, OrderOp
  <2>2. <<"order", r.order>> \in held[v]
    BY <1>0, <2>1, CommitHolds
  <2>3. \A o \in Order : o # r.order => lines'[o] = lines[o]
    BY <1>1, <1>4 DEF UpdateLine, RemoveLine, OrderTypes
  <2>4. WritesOrders(v)
    BY <1>4, <2>2, <2>3 DEF WritesOrders, UpdateLine, RemoveLine
  <2>5. WritesCash(v) /\ WritesSeries(v) /\ WritesKeys(v)
    BY <1>0, <1>1, <1>4, SameWrites DEF UpdateLine, RemoveLine, WritesSeries
  <2> QED
    BY <2>4, <2>5 DEF Writes
<1>5. CASE CloseOrder(v)
  <2>1. r.op = "close_order" /\ r.op \in SettleOp /\ r.order \in Order
    BY <1>1, <1>5 DEF CloseOrder, Committing, SettleOp, OrderOp, WellFormed
  <2>2. WritesOrders(v) /\ WritesSeries(v)
    BY <1>0, <1>5, <2>1, SettleWrites DEF CloseOrder
  <2>3. WritesCash(v) /\ WritesKeys(v)
    BY <1>0, <1>1, <1>5, SameWrites, FreezeWrites DEF CloseOrder
  <2> QED
    BY <2>2, <2>3 DEF Writes
<1>6. CASE VoidOrder(v)
  <2>1. r.op \in OrderOp /\ r.order \in Order
    BY <1>1, <1>6 DEF VoidOrder, Committing, OrderOp, WellFormed
  <2>2. <<"order", r.order>> \in held[v]
    BY <1>0, <2>1, CommitHolds
  <2>3. orders' = [orders EXCEPT ![r.order].status = "voided"]
    BY <1>6 DEF VoidOrder
  <2>4. \A o \in Order : /\ o # r.order => orders'[o] = orders[o]
                         /\ orders'[o].sess = orders[o].sess /\ orders'[o].total = orders[o].total
                         /\ o = r.order => orders'[o].status = "voided"
    BY <1>1, <2>1, <2>3 DEF OrderTypes
  <2>5. WritesOrders(v)
    BY <1>6, <2>2, <2>4 DEF WritesOrders, VoidOrder
  <2>6. WritesCash(v) /\ WritesSeries(v) /\ WritesKeys(v)
    BY <1>1, <1>6, SameWrites DEF VoidOrder, WritesSeries
  <2> QED
    BY <2>5, <2>6 DEF Writes
<1>7. CASE RefundOrder(v)
  <2>1. r.op = "refund_order" /\ r.op \in SettleOp /\ r.order \in Order
    BY <1>1, <1>7 DEF RefundOrder, Committing, SettleOp, OrderOp, WellFormed
  <2>2. PICK n \in FreshOrder(OrderTerminal[r.order]) :
          /\ Settle(v, n, "refund_issued")
          /\ lines'   = [lines EXCEPT ![n] = RefundLines(r)]
          /\ refunds' = [refunds EXCEPT ![r.order] = n]
    BY <1>7 DEF RefundOrder
  <2>3. n \in Order /\ orders[n].status = "none" /\ OrderTerminal[n] = OrderTerminal[r.order]
    BY DEF FreshOrder
  <2>4. /\ \A o \in Order \ {n} : lines'[o] = lines[o]
        /\ \A o \in Order \ {r.order} : refunds'[o] = refunds[o]
    BY <1>1, <2>2 DEF OrderTypes
  <2>5. WritesOrders(v) /\ WritesSeries(v)
    BY <1>0, <2>1, <2>2, <2>3, <2>4, SettleWrites
  <2>6. WritesCash(v) /\ WritesKeys(v)
    BY <1>1, <1>7, SameWrites DEF RefundOrder
  <2> QED
    BY <2>5, <2>6 DEF Writes
<1>8. CASE OpenSession(v)
  <2>1. r.op = "open_session"
    BY <1>8 DEF OpenSession, Committing
  <2>2. <<"till", r.term>> \in held[v]
    BY <1>0, <2>1, CommitHolds
  <2>3. PICK s \in FreshSession(r.term) :
          sessions' = [sessions EXCEPT ![s].status = "open", ![s].opening = r.opening]
    BY <1>8 DEF OpenSession
  <2>4. \A p \in Session : /\ p # s => sessions'[p] = sessions[p]
                           /\ p = s => /\ sessions[p].status = "none"
                                       /\ SessionTerminal[p] = r.term
    BY <1>1, <2>3 DEF CashTypes, FreshSession
  <2>5. WritesCash(v)
    BY <1>8, <2>2, <2>4 DEF WritesCash, OpenSession
  <2>6. WritesOrders(v) /\ WritesSeries(v) /\ WritesKeys(v)
    BY <1>0, <1>1, <1>8, SameWrites, FreezeWrites DEF OpenSession
  <2> QED
    BY <2>5, <2>6 DEF Writes
<1>9. CASE AddMovement(v)
  <2>1. r.op \in CashOp
    BY <1>9 DEF AddMovement, Committing, CashOp
  <2>2. <<"cash", r.sess>> \in held[v]
    BY <1>0, <2>1, CommitHolds
  <2>3. WritesCash(v)
    BY <1>1, <1>9, <2>2 DEF WritesCash, AddMovement, CashTypes
  <2>4. WritesOrders(v) /\ WritesSeries(v) /\ WritesKeys(v)
    BY <1>0, <1>1, <1>9, SameWrites, FreezeWrites DEF AddMovement
  <2> QED
    BY <2>3, <2>4 DEF Writes
<1>10. CASE AddCount(v)
  <2>1. WritesCash(v)
    BY <1>10 DEF WritesCash, AddCount
  <2> QED
    BY <1>1, <1>10, <2>1, SameWrites DEF AddCount, Writes
<1>11. CASE CloseSession(v)
  <2>1. r.op \in CashOp
    BY <1>11 DEF CloseSession, Committing, CashOp
  <2>2. <<"cash", r.sess>> \in held[v] /\ r.sess \in Session
    BY <1>0, <1>1, <2>1, CommitHolds DEF WellFormed
  <2>3. sessions' = [sessions EXCEPT ![r.sess].status = "closed", ![r.sess].counted = r.counted]
    BY <1>11 DEF CloseSession
  <2>4. \A s \in Session : /\ s # r.sess => sessions'[s] = sessions[s]
                           /\ s = r.sess => sessions'[s].status = "closed"
    BY <1>1, <2>2, <2>3 DEF CashTypes
  <2>5. WritesCash(v)
    BY <1>11, <2>2, <2>4 DEF WritesCash, CloseSession
  <2>6. WritesOrders(v) /\ WritesSeries(v) /\ WritesKeys(v)
    BY <1>1, <1>11, SameWrites DEF CloseSession
  <2> QED
    BY <2>5, <2>6 DEF Writes
<1> QED
  BY <1>2, <1>3, <1>4, <1>5, <1>6, <1>7, <1>8, <1>9, <1>10, <1>11 DEF Commit

LEMMA StepWrites ==
  ASSUME IInv, NEW v \in Worker, Step(v)
  PROVE  Writes(v) /\ Alone(v)
<1>0. TypeOK /\ WorkTypes
  BY DEF IInv, TypeOK
<1>a. Leave(v) => Alone(v)
  BY <1>0 DEF Leave, Alone, WorkTypes
<1>b. Proceed(v) => \A u \in Worker \ {v} : req'[u] = req[u] /\ pc'[u] = pc[u] /\ held'[u] = held[u]
  BY <1>0 DEF Proceed, WorkTypes
<1>1. CASE \E r \in Request : Begin(v, r)
  BY <1>0, <1>1, SameWrites DEF Begin, Alone, WorkTypes, Writes
<1>2. CASE Refuse(v)
  BY <1>0, <1>2, <1>a, SameWrites DEF Refuse, Writes
<1>3. CASE LockOrder(v) \/ LockCash(v) \/ TakeNumber(v) \/ ClaimSlot(v) \/ StoreKey(v)
  <2>1. Proceed(v) /\ UNCHANGED <<orderVars, cashVars, keyVars>>
    BY <1>3 DEF LockOrder, LockCash, TakeNumber, ClaimSlot, StoreKey
  <2>2. \A u \in Worker \ {v} : num'[u] = num[u] /\ calc'[u] = calc[u]
    BY <1>0, <1>3 DEF LockOrder, LockCash, TakeNumber, ClaimSlot, StoreKey, WorkTypes
  <2> QED
    BY <1>0, <1>b, <2>1, <2>2, SameWrites DEF Alone, Writes
<1>4. CASE Statement(v)
  BY <1>2, <1>3, <1>4
  DEF Statement, RefuseOrder, RefuseCash, RefuseSlot, ReplayAfterConflict
<1>5. CASE Commit(v)
  <2>1. CASE CloseOrder(v) /\ req[v].cash > 0
    BY <1>0, <1>5, <2>1, CommitWrites DEF CloseOrder, Alone, WorkTypes
  <2>2. CASE ~(CloseOrder(v) /\ req[v].cash > 0)
    <3>1. Leave(v)
      BY <1>5, <2>2
      DEF Commit, CreateOrder, AddLine, UpdateLine, RemoveLine, CloseOrder, VoidOrder,
          RefundOrder, OpenSession, AddMovement, AddCount, CloseSession
    <3> QED
      BY <1>5, <1>a, <3>1, CommitWrites
  <2> QED
    BY <2>1, <2>2
<1>6. CASE OpenDrawer(v)
  BY <1>0, <1>6, <1>a, SameWrites DEF OpenDrawer, Writes
<1>7. CASE Abort(v)
  BY <1>2, <1>7 DEF Abort
<1> QED
  BY <1>1, <1>4, <1>5, <1>6, <1>7 DEF Step

-----------------------------------------------------------------------------
(* Facts survive the steps of others. *)

\* The expected cash of a session depends on its own rows only.
LEMMA ExpectedSame ==
  ASSUME NEW s,
         sessions'[s].opening = sessions[s].opening, moves'[s] = moves[s],
         \A o \in Order : (orders'[o].sess = s \/ orders[o].sess = s) =>
            /\ orders'[o].sess = orders[o].sess /\ orders'[o].total = orders[o].total
            /\ payments'[o] = payments[o]
  PROVE  Expected(s)' = Expected(s)
<1> DEFINE S == {p \in Order : orders[p].sess = s}
           f == [o \in S |-> CashFlow(o)]
<1>1. S' = S
  OBVIOUS
<1>2. \A o \in S : CashFlow(o)' = CashFlow(o)
  BY DEF CashFlow
<1>3. f' = f
  BY <1>1, <1>2
<1> HIDE DEF f
<1>4. SumFunction(f)' = SumFunction(f)
  BY <1>3
<1> USE DEF f
<1> QED
  BY <1>4 DEF Expected

LEMMA FactKept ==
  ASSUME IInv, NEW v \in Worker, NEW w \in Worker, v # w, Writes(v), Alone(v),
         NEW p \in Stmt, Passed(w, p)
  PROVE  Fact(w, p)'
<1>r. PICK r \in Request : r = req[w]
  BY DEF IInv, TypeOK, WorkTypes, Passed
<1>0. /\ TypeOK /\ OrderTypes /\ CashTypes
      /\ WellFormed(r) /\ r # None /\ req[w] = r /\ req'[w] = r
      /\ num'[w] = num[w] /\ calc'[w] = calc[w]
  BY <1>r, RequestAssumption DEF IInv, TypeOK, WorkTypes, Passed, Alone
<1>1. \A q \in Stmt : Passed(w, q) => /\ RowAt(r, q) \in held[w] /\ RowAt(r, q) \notin held[v]
                                      /\ Fact(w, q)
  BY <1>0 DEF IInv, HeldExactly, Disjoint, Facts
<1>2. Passed(w, "order") =>
        /\ orders'[r.order] = orders[r.order] /\ lines'[r.order] = lines[r.order]
        /\ refunds'[r.order] = refunds[r.order]
  <2> SUFFICES ASSUME Passed(w, "order")
               PROVE  /\ orders'[r.order] = orders[r.order] /\ lines'[r.order] = lines[r.order]
                      /\ refunds'[r.order] = refunds[r.order]
    OBVIOUS
  <2>1. r.op \in OrderOp /\ r.order \in Order
    BY <1>0 DEF Passed, Behind, Has, WellFormed
  <2>2. <<"order", r.order>> \notin held[v] /\ OrderCheck(r)
    BY <1>0, <1>1 DEF RowAt, Fact, Stmt
  <2>3. orders[r.order].status # "none"
    BY <2>1, <2>2 DEF OrderCheck, OrderOp, SettleOp, EnsureDraft
  <2> QED
    BY <2>1, <2>2, <2>3 DEF Writes, WritesOrders
<1>3. CASE p = "order"
  <2>1. OrderCheck(r)
    BY <1>0, <1>1, <1>3 DEF Fact
  <2>2. OrderCheck(r)'
    BY <1>0, <1>2, <1>3, <2>1 DEF OrderCheck, EnsureDraft, FreeSlot
  <2> QED
    BY <1>0, <1>3, <2>2 DEF Fact
<1>4. CASE p = "cash"
  <2>1. /\ r.op \in SettleOp \union CashOp /\ r.sess \in Session
        /\ <<"cash", r.sess>> \notin held[v]
        /\ CashCheck(r) /\ calc[w] = Amount(r)
    BY <1>0, <1>1, <1>4 DEF Passed, Behind, Has, WellFormed, RowAt, Fact
  <2>2. sessions[r.sess].status = "open"
    BY <2>1 DEF CashCheck, CashSessionForSale
  <2>3. sessions'[r.sess] = sessions[r.sess] /\ moves'[r.sess] = moves[r.sess]
    BY <2>1, <2>2 DEF Writes, WritesCash
  <2>4. r.op \in SettleOp => Passed(w, "order")
    BY <1>0, <1>4 DEF Passed, Behind, Has, Rank, SettleOp, OrderOp
  <2>5. Expected(r.sess)' = Expected(r.sess)
    <3>1. \A o \in Order : (orders'[o].sess = r.sess \/ orders[o].sess = r.sess) =>
            /\ orders'[o].sess = orders[o].sess /\ orders'[o].total = orders[o].total
            /\ payments'[o] = payments[o]
      BY <2>1, NoneAssumption DEF Writes, WritesOrders, Settled
    <3> QED
      BY <2>3, <3>1, ExpectedSame
  <2>6. Amount(r)' = Amount(r)
    BY <1>0, <1>2, <2>4, <2>5 DEF Amount, SettleOp, RefundLines
  <2>7. CashCheck(r)'
    <3>1. CASE r.op \in SettleOp
      BY <1>0, <1>2, <2>1, <2>3, <2>4, <2>6, <3>1
      DEF CashCheck, CashSessionForSale, ItemsSold, SettleOp, Settles, Due, Paid
    <3>2. CASE r.op \notin SettleOp
      BY <2>1, <2>3, <3>2 DEF CashCheck, SettleOp
    <3> QED
      BY <3>1, <3>2
  <2> QED
    BY <1>0, <1>4, <2>1, <2>6, <2>7 DEF Fact
<1>5. CASE p = "series"
  <2>1. /\ r.op \in SettleOp /\ r.order \in Order
        /\ <<"series", OrderTerminal[r.order]>> \notin held[v]
        /\ num[w] = NextNumber(OrderTerminal[r.order])
    BY <1>0, <1>1, <1>5 DEF Passed, Behind, Has, WellFormed, RowAt, Fact, SettleOp, OrderOp
  <2>2. OrderTerminal[r.order] \in Terminal
    BY <2>1, TerminalAssumption
  <2> QED
    BY <1>0, <1>5, <2>1, <2>2 DEF Fact, NextNumber, Writes, WritesSeries
<1>6. CASE p = "slot"
  <2>1. /\ r.op = "open_session" \/ (r.op = "create_order" /\ r.table # None)
        /\ RowAt(r, "slot") \notin held[v] /\ SlotCheck(r)
    BY <1>0, <1>1, <1>6 DEF Passed, Behind, Has, Fact
  <2>2. CASE r.op = "open_session"
    <3>1. <<"till", r.term>> \notin held[v] /\ TillFree(r.term)
      BY <2>1, <2>2 DEF RowAt, SlotCheck
    <3>2. TillFree(r.term)'
      BY <3>1 DEF TillFree, Writes, WritesCash
    <3> QED
      BY <1>0, <1>6, <2>2, <3>2 DEF Fact, SlotCheck
  <2>3. CASE r.op = "create_order" /\ r.table # None
    <3>1. <<"table", r.table>> \notin held[v] /\ TableFree(r.table)
      BY <2>1, <2>3 DEF RowAt, SlotCheck
    <3>2. TableFree(r.table)'
      BY <2>3, <3>1 DEF TableFree, Writes, WritesOrders
    <3> QED
      BY <1>0, <1>6, <2>3, <3>2 DEF Fact, SlotCheck
  <2> QED
    BY <2>1, <2>2, <2>3
<1>7. CASE p = "key"
  <2>1. r.key \in Key /\ <<"key", r.key>> \notin held[v] /\ KeyFree(r.key)
    BY <1>0, <1>1, <1>7 DEF Passed, Behind, Has, WellFormed, RowAt, Fact
  <2> QED
    BY <1>0, <1>7, <2>1 DEF Fact, KeyFree, Writes, WritesKeys
<1>8. CASE p = "commit"
  BY <1>8 DEF Fact
<1> QED
  BY <1>3, <1>4, <1>5, <1>6, <1>7, <1>8 DEF Stmt

-----------------------------------------------------------------------------
(* The inductive invariant. *)

\* The transaction of v is over.
Over(v) == /\ held'[v] = {}
           /\ \/ req'[v] = None /\ pc'[v] = "idle"
              \/ req'[v] = req[v] /\ req[v].op = "close_order" /\ req[v] # None
                 /\ pc'[v] = "drawer"

\* The statement q of v has succeeded.
Advance(v, q) ==
  /\ req[v] # None /\ pc[v] = q /\ Has(req[v], q) /\ q # "commit" /\ Granted(v) /\ Proceed(v)
  /\ UNCHANGED <<orderVars, cashVars, keyVars>>
  /\ q # "cash" => calc'[v] = calc[v]
  /\ q # "series" => num'[v] = num[v]
  /\ Fact(v, q)'

LEMMA StepKinds ==
  ASSUME IInv, NEW v \in Worker, Step(v)
  PROVE  \/ \E r \in Request : Begin(v, r)
         \/ \E q \in Stmt : Advance(v, q)
         \/ Over(v)
<1>0. TypeOK /\ WorkTypes /\ Placed
  BY DEF IInv, TypeOK
<1>a. Leave(v) => Over(v)
  BY <1>0 DEF Leave, Over, WorkTypes
<1>b. \A p \in {"order", "cash", "series", "slot", "key"} :
        At(v, p) => req[v] # None /\ Has(req[v], pc[v]) /\ pc[v] # "commit" /\ pc[v] = p
                    /\ req[v] \in Request
  BY <1>0 DEF At, Placed, WorkTypes
<1>c. Proceed(v) => req' = req
  BY DEF Proceed
<1>1. CASE LockOrder(v)
  <2>1. OrderCheck(req[v])'
    BY <1>1, <1>c DEF LockOrder, OrderCheck, EnsureDraft, FreeSlot, orderVars
  <2>q. At(v, "order") /\ Fact(v, "order")'
    BY <1>1, <1>b, <2>1 DEF LockOrder, Fact
  <2> QED
    BY <1>0, <1>1, <1>b, <2>q DEF LockOrder, Advance, At, Stmt, WorkTypes
<1>2. CASE LockCash(v)
  <2>1. UNCHANGED <<orderVars, cashVars>> /\ UNCHANGED req /\ CashCheck(req[v]) /\ At(v, "cash")
    BY <1>2, <1>c DEF LockCash
  <2>2. UNCHANGED <<orders, lines, payments, sessions, moves>>
    BY <2>1 DEF orderVars, cashVars
  <2>3. Expected(req[v].sess)' = Expected(req[v].sess)
    BY <2>1, <2>2, ExpectedSame
  <2>4. Amount(req[v])' = Amount(req[v])
    BY <2>1, <2>2, <2>3 DEF Amount, RefundLines
  <2>5. CashCheck(req[v])'
    BY <2>1, <2>2, <2>4 DEF CashCheck, CashSessionForSale, ItemsSold, Settles, Due, Paid
  <2>6. calc'[v] = Amount(req[v])
    BY <1>0, <1>2 DEF LockCash, WorkTypes
  <2>7. Fact(v, "cash")'
    BY <2>4, <2>5, <2>6 DEF Fact
  <2>q. At(v, "cash") /\ Fact(v, "cash")'
    BY <1>2, <1>b, <2>7 DEF LockCash, Fact
  <2> QED
    BY <1>0, <1>2, <1>b, <2>q DEF LockCash, Advance, At, Stmt, WorkTypes
<1>3. CASE TakeNumber(v)
  <2>1. num'[v] = NextNumber(OrderTerminal[req[v].order])
    BY <1>0, <1>3 DEF TakeNumber, WorkTypes
  <2>2. UNCHANGED <<req, sequences>>
    BY <1>3, <1>c DEF TakeNumber, orderVars
  <2>3. Fact(v, "series")'
    BY <2>1, <2>2 DEF Fact, NextNumber
  <2>q. At(v, "series") /\ Fact(v, "series")'
    BY <1>3, <1>b, <2>3 DEF TakeNumber, Fact
  <2> QED
    BY <1>0, <1>3, <1>b, <2>q DEF TakeNumber, Advance, At, Stmt, WorkTypes
<1>4. CASE ClaimSlot(v)
  <2>1. UNCHANGED <<req, orders, sessions>> /\ SlotCheck(req[v])
    BY <1>4, <1>c DEF ClaimSlot, orderVars, cashVars
  <2>2. SlotCheck(req[v])'
    BY <2>1 DEF SlotCheck, TillFree, TableFree
  <2>q. At(v, "slot") /\ Fact(v, "slot")'
    BY <1>4, <1>b, <2>2 DEF ClaimSlot, Fact
  <2> QED
    BY <1>0, <1>4, <1>b, <2>q DEF ClaimSlot, Advance, At, Stmt, WorkTypes
<1>5. CASE StoreKey(v)
  <2>1. KeyFree(req[v].key)'
    BY <1>5, <1>c DEF StoreKey, KeyFree, keyVars
  <2>q. At(v, "key") /\ Fact(v, "key")'
    BY <1>5, <1>b, <2>1 DEF StoreKey, Fact
  <2> QED
    BY <1>0, <1>5, <1>b, <2>q DEF StoreKey, Advance, At, Stmt, WorkTypes
<1>6. CASE CloseOrder(v) /\ req[v].cash > 0
  BY <1>0, <1>6 DEF CloseOrder, Over, WorkTypes, Committing, At
<1>7. CASE Commit(v) /\ ~(CloseOrder(v) /\ req[v].cash > 0)
  <2>1. Leave(v)
    BY <1>7
    DEF Commit, CreateOrder, AddLine, UpdateLine, RemoveLine, CloseOrder, VoidOrder,
        RefundOrder, OpenSession, AddMovement, AddCount, CloseSession
  <2> QED
    BY <1>a, <2>1
<1> QED
  BY <1>1, <1>2, <1>3, <1>4, <1>5, <1>6, <1>7, <1>a
  DEF Step, Statement, RefuseOrder, RefuseCash, RefuseSlot, ReplayAfterConflict, Abort, Refuse,
      OpenDrawer

LEMMA InitInv == Init => IInv
<1> SUFFICES ASSUME Init PROVE IInv
  OBVIOUS
<1>1. TypeOK
  BY InitType
<1> QED
  BY <1>1 DEF Init, IInv, Disjoint, Placed, HeldExactly, Facts, Unsettled, Passed, Settled, NoOrder

LEMMA StepInv ==
  ASSUME IInv, NEW v \in Worker, Step(v)
  PROVE  Disjoint' /\ Placed' /\ HeldExactly' /\ Facts'
<1>0. /\ TypeOK /\ WorkTypes /\ Disjoint /\ Placed /\ HeldExactly /\ Facts
      /\ Writes(v) /\ Alone(v)
  BY StepWrites DEF IInv, TypeOK
<1>1. \A u \in Worker \ {v} : \A p \in Stmt : Passed(u, p)' <=> Passed(u, p)
  BY <1>0 DEF Alone, Passed
<1>2. \A u \in Worker \ {v} : \A p \in Stmt : Passed(u, p)' => Fact(u, p)'
  BY <1>0, <1>1, FactKept
<1>3. CASE \E r \in Request : Begin(v, r)
  <2>1. PICK r \in Request : Begin(v, r)
    BY <1>3
  <2>2. /\ req[v] = None /\ req'[v] = r /\ pc'[v] = First(r) /\ held' = held
        /\ r # None /\ Has(r, First(r)) /\ First(r) # "idle"
        /\ \A p : ~Behind(r, p, First(r))
    BY <1>0, <2>1, FirstStmt, RequestAssumption DEF Begin, WorkTypes, Stmt
  <2>3. held[v] = {}
    BY <1>0, <2>2 DEF HeldExactly, Passed
  <2>4. \A p \in Stmt : ~Passed(v, p)'
    BY <2>2 DEF Passed
  <2>5. Disjoint' /\ Placed'
    BY <1>0, <2>2 DEF Disjoint, Placed, Alone
  <2>6. HeldExactly'
    BY <1>0, <1>1, <2>2, <2>3, <2>4 DEF HeldExactly, Alone
  <2> QED
    BY <1>2, <2>4, <2>5, <2>6 DEF Facts
<1>4. CASE Over(v)
  <2>1. \A p \in Stmt : ~Passed(v, p)'
    BY <1>4 DEF Over, Passed, Behind, Rank, Stmt
  <2>2. Disjoint' /\ Placed'
    BY <1>0, <1>4 DEF Disjoint, Placed, Alone, Over
  <2>3. HeldExactly'
    BY <1>0, <1>1, <1>4, <2>1 DEF HeldExactly, Alone, Over
  <2> QED
    BY <1>2, <2>1, <2>2, <2>3 DEF Facts
<1>5. CASE \E q \in Stmt : Advance(v, q)
  <2>q. PICK q \in Stmt : Advance(v, q)
    BY <1>5
  <2>1. /\ req[v] \in Request /\ req[v] # None /\ Has(req[v], q) /\ q # "commit" /\ q \in Stmt
        /\ req' = req /\ pc[v] = q /\ pc'[v] = After(req[v], q)
        /\ held'[v] = held[v] \union {RowAt(req[v], q)}
        /\ UNCHANGED <<orderVars, cashVars, keyVars>>
    BY <1>0, <2>q DEF Advance, Proceed, WorkTypes, Has, Stmt
  <2>2. /\ Has(req[v], After(req[v], q)) /\ After(req[v], q) \in Stmt
        /\ \A b : Behind(req[v], b, After(req[v], q)) <=> Behind(req[v], b, q) \/ b = q
        /\ ~Behind(req[v], q, q)
    BY <2>1, NextStmt
  <2>3. \A p \in Stmt : Passed(v, p)' <=> Passed(v, p) \/ p = q
    BY <2>1, <2>2 DEF Passed
  <2>4. Disjoint'
    BY <1>0, <2>q, <2>1 DEF Disjoint, Alone, Advance, Granted, Free
  <2>5. Placed'
    BY <1>0, <2>1, <2>2 DEF Placed, Alone, Stmt
  <2>6. HeldExactly'
    BY <1>0, <1>1, <2>1, <2>3 DEF HeldExactly, Alone
  <2>7. ASSUME NEW p \in Stmt, Passed(v, p) PROVE Fact(v, p)'
    <3>1. Fact(v, p) /\ p # q /\ Behind(req[v], p, q)
      BY <1>0, <2>q, <2>2, <2>7 DEF Facts, Passed, Advance
    <3>2. /\ p = "cash" => q # "cash"
          /\ p = "series" => q # "series"
      BY <3>1
    <3>3. UNCHANGED <<orders, lines, payments, refunds, sequences, sessions, moves, keys>>
      BY <2>1 DEF orderVars, cashVars, keyVars
    <3>4. Amount(req[v])' = Amount(req[v])
      <4>1. Expected(req[v].sess)' = Expected(req[v].sess)
        BY <2>1, <3>3, ExpectedSame
      <4> QED
        BY <2>1, <3>3, <4>1 DEF Amount, RefundLines
    <3>5. /\ OrderCheck(req[v])' = OrderCheck(req[v])
          /\ SlotCheck(req[v])' = SlotCheck(req[v])
      BY <2>1, <3>3 DEF OrderCheck, EnsureDraft, FreeSlot, SlotCheck, TillFree, TableFree
    <3>6. CashCheck(req[v]) => CashCheck(req[v])'
      BY <2>1, <3>3, <3>4 DEF CashCheck, CashSessionForSale, ItemsSold, Settles, Due, Paid
    <3> QED
      BY <2>q, <2>1, <3>1, <3>2, <3>3, <3>4, <3>5, <3>6 DEF Fact, Advance, KeyFree, NextNumber
  <2>8. \A p \in Stmt : Passed(v, p)' => Fact(v, p)'
    BY <2>q, <2>3, <2>7 DEF Advance
  <2> QED
    BY <1>2, <2>4, <2>5, <2>6, <2>8 DEF Facts
<1> QED
  BY <1>3, <1>4, <1>5, StepKinds

LEMMA CommitUnsettled ==
  ASSUME IInv, NEW v \in Worker, Commit(v)
  PROVE  Unsettled'
<1> DEFINE r == req[v]
<1>0. At(v, "commit")
  BY DEF Commit, Committing, CreateOrder, AddLine, UpdateLine, RemoveLine,
         CloseOrder, VoidOrder, RefundOrder, OpenSession, AddMovement, AddCount, CloseSession
<1>1. OrderTypes /\ WellFormed(r) /\ Unsettled
  BY <1>0, CommitHolds DEF IInv, TypeOK
<1>2. CASE CreateOrder(v)
  BY <1>1, <1>2 DEF CreateOrder, Unsettled, Settled, OrderTypes, FreshOrder
<1>3. CASE VoidOrder(v)
  BY <1>1, <1>3 DEF VoidOrder, Unsettled, Settled, OrderTypes
<1>4. ASSUME NEW n \in Order, NEW e, Settle(v, n, e), r.op \in SettleOp PROVE Unsettled'
  <2>1. r.sess # None
    BY <1>1, <1>4, NoneAssumption DEF WellFormed
  <2> QED
    BY <1>1, <1>4, <2>1 DEF Settle, Unsettled, Settled, OrderTypes
<1>5. CASE CloseOrder(v)
  BY <1>1, <1>4, <1>5 DEF CloseOrder, Committing, WellFormed, OrderOp, SettleOp
<1>6. CASE RefundOrder(v)
  BY <1>1, <1>4, <1>6 DEF RefundOrder, Committing, SettleOp, FreshOrder
<1>7. CASE UNCHANGED orders
  BY <1>1, <1>7 DEF Unsettled, Settled
<1> QED
  BY <1>2, <1>3, <1>5, <1>6, <1>7
  DEF Commit, AddLine, UpdateLine, RemoveLine, OpenSession, AddMovement, AddCount, CloseSession,
      orderVars

LEMMA StepUnsettled ==
  ASSUME IInv, NEW v \in Worker, Step(v)
  PROVE  Unsettled'
<1>1. CASE Commit(v)
  BY <1>1, CommitUnsettled
<1>2. CASE UNCHANGED orders
  BY <1>2 DEF IInv, Unsettled, Settled
<1> QED
  BY <1>1, <1>2
  DEF Step, Begin, Statement, LockOrder, LockCash, TakeNumber, ClaimSlot, StoreKey, RefuseOrder,
      RefuseCash, RefuseSlot, ReplayAfterConflict, Abort, Refuse, OpenDrawer, orderVars

\* The next-state relation, seen as steps of workers and of the clock.
LEMMA NextSteps ==
  [Next]_vars => \/ \E v \in Worker : Step(v)
                 \/ \E k \in ExpiringKey : ExpireKey(k)
                 \/ UNCHANGED vars
BY DEF Next, Step

LEMMA NextInv == IInv /\ [Next]_vars => IInv'
<1> SUFFICES ASSUME IInv, [Next]_vars PROVE IInv'
  OBVIOUS
<1>0. TypeOK'
  BY NextType
<1>1. CASE \E v \in Worker : Step(v)
  BY <1>0, <1>1, StepInv, StepUnsettled DEF IInv
<1>2. CASE \E k \in ExpiringKey : ExpireKey(k)
  <2>1. PICK k \in ExpiringKey : ExpireKey(k)
    BY <1>2
  <2>2. UNCHANGED <<orderVars, cashVars, workVars>>
    BY <2>1 DEF ExpireKey
  <2>3. \A x \in Key : keys[x] = None => keys'[x] = None
    BY <2>1 DEF IInv, TypeOK, KeyTypes, ExpireKey
  <2>4. Disjoint' /\ Placed' /\ HeldExactly' /\ Unsettled'
    BY <2>2 DEF IInv, Disjoint, Placed, HeldExactly, Unsettled, Settled, Passed, workVars, orderVars
  <2>5. ASSUME NEW w \in Worker, NEW p \in Stmt, Passed(w, p)' PROVE Fact(w, p)'
    <3>1. UNCHANGED <<orders, lines, payments, refunds, sequences, sessions, moves, req, num, calc>>
      BY <2>2 DEF orderVars, cashVars, workVars
    <3>2. Passed(w, p) /\ Fact(w, p)
      BY <2>2, <2>5 DEF Passed, workVars, IInv, Facts
    <3>3. p = "key" => req[w].key \in Key
      <4>1. req[w] \in Request /\ (p = "key" => req[w].key # None)
        BY <3>2 DEF Passed, Behind, Has, IInv, TypeOK, WorkTypes
      <4> QED
        BY <4>1, RequestAssumption DEF WellFormed
    <3>4. Amount(req[w])' = Amount(req[w])
      <4>1. Expected(req[w].sess)' = Expected(req[w].sess)
        BY <3>1, ExpectedSame
      <4> QED
        BY <3>1, <4>1 DEF Amount, RefundLines
    <3>5. /\ OrderCheck(req[w])' = OrderCheck(req[w])
          /\ SlotCheck(req[w])' = SlotCheck(req[w])
      BY <3>1 DEF OrderCheck, EnsureDraft, FreeSlot, SlotCheck, TillFree, TableFree
    <3>6. CashCheck(req[w]) => CashCheck(req[w])'
      BY <3>1, <3>4 DEF CashCheck, CashSessionForSale, ItemsSold, Settles, Due, Paid
    <3> QED
      BY <2>3, <3>1, <3>2, <3>3, <3>4, <3>5, <3>6 DEF Fact, KeyFree, NextNumber
  <2>6. Facts'
    BY <2>5 DEF Facts
  <2> QED
    BY <1>0, <2>4, <2>6 DEF IInv
<1>3. CASE UNCHANGED vars
  <2>1. UNCHANGED <<orders, lines, payments, refunds, sequences, sessions, moves, keys,
                    req, pc, held, num, calc>>
    BY <1>3 DEF vars, orderVars, cashVars, keyVars, workVars
  <2>2. \A w : Amount(req[w])' = Amount(req[w])
    <3>1. \A w : Expected(req[w].sess)' = Expected(req[w].sess)
      BY <2>1, ExpectedSame
    <3> QED
      BY <2>1, <3>1 DEF Amount, RefundLines
  <2>3. \A w : CashCheck(req[w])' = CashCheck(req[w])
    BY <2>1, <2>2 DEF CashCheck, CashSessionForSale, ItemsSold, Settles, Due, Paid
  <2>4. \A w : /\ OrderCheck(req[w])' = OrderCheck(req[w])
               /\ SlotCheck(req[w])' = SlotCheck(req[w])
    BY <2>1 DEF OrderCheck, EnsureDraft, FreeSlot, SlotCheck, TillFree, TableFree
  <2>5. Facts'
    BY <2>1, <2>2, <2>3, <2>4 DEF IInv, Facts, Fact, Passed, KeyFree, NextNumber
  <2>6. Disjoint' /\ Placed' /\ HeldExactly' /\ Unsettled'
    BY <2>1 DEF IInv, Disjoint, Placed, HeldExactly, Unsettled, Settled, Passed
  <2> QED
    BY <1>0, <2>5, <2>6 DEF IInv
<1> QED
  BY <1>1, <1>2, <1>3, NextSteps

\* What every handler checked under its locks is still true when it commits,
\* and no two transactions hold the same row, in every behaviour.
THEOREM Invariance == Spec => []IInv
BY InitInv, NextInv, PTL DEF Spec

\* Rows, keys and requests always have their types.
THEOREM TypeCorrect == Spec => []TypeOK
<1>1. IInv => TypeOK
  BY DEF IInv
<1> QED
  BY <1>1, Invariance, PTL

-----------------------------------------------------------------------------
(***************************************************************************)
(* Each property follows from the inductive invariant: the rows change     *)
(* only in the commit of a handler, and there the facts that handler       *)
(* checked still hold.                                                     *)
(***************************************************************************)

(* Who writes the rows. *)

\* A step commits a handler, opens a drawer or expires a key; any other one
\* leaves every row alone.
LEMMA Writers ==
  ASSUME [Next]_vars
  PROVE  \/ \E v \in Worker : Commit(v)
         \/ /\ UNCHANGED <<orderVars, cashVars>>
            /\ UNCHANGED keyVars \/ \E k \in ExpiringKey : ExpireKey(k)
<1>1. ASSUME NEW v \in Worker, Step(v)
      PROVE  Commit(v) \/ UNCHANGED <<orderVars, cashVars, keyVars>>
  BY <1>1
  DEF Step, Begin, Statement, LockOrder, LockCash, TakeNumber, ClaimSlot, StoreKey, RefuseOrder,
      RefuseCash, RefuseSlot, ReplayAfterConflict, Abort, Refuse, OpenDrawer
<1> QED
  BY <1>1, NextSteps DEF vars, ExpireKey

\* A commit freezes its key, or writes none.
LEMMA CommitKeys ==
  ASSUME IInv, NEW v \in Worker, Commit(v)
  PROVE  At(v, "commit") /\ (UNCHANGED keyVars \/ \E a \in Nat : Freeze(v, a))
<1>1. num \in [Worker -> Nat]
  BY DEF IInv, TypeOK, WorkTypes
<1> QED
  BY <1>1
  DEF Commit, Committing, CreateOrder, AddLine, UpdateLine, RemoveLine, CloseOrder, VoidOrder,
       RefundOrder, OpenSession, AddMovement, AddCount, CloseSession

\* The only commits that change an order, or what it was settled with.
LEMMA CommitOrders ==
  ASSUME NEW v \in Worker, Commit(v)
  PROVE  \/ CreateOrder(v) \/ VoidOrder(v) \/ CloseOrder(v) \/ RefundOrder(v)
         \/ /\ UNCHANGED <<orders, payments, refunds, tickets, sequences, saleEvents>>
            /\ AddLine(v) \/ UpdateLine(v) \/ RemoveLine(v) \/ UNCHANGED lines
BY DEF Commit, AddLine, UpdateLine, RemoveLine, OpenSession, AddMovement, AddCount, CloseSession,
       orderVars

\* The only commits that change a cash session.
LEMMA CommitCash ==
  ASSUME NEW v \in Worker, Commit(v)
  PROVE  \/ OpenSession(v) \/ AddMovement(v) \/ AddCount(v) \/ CloseSession(v)
         \/ UNCHANGED cashVars
BY DEF Commit, CreateOrder, AddLine, UpdateLine, RemoveLine, CloseOrder, VoidOrder, RefundOrder

-----------------------------------------------------------------------------
(* Keys. *)

LEMMA InitApplied == Init => AppliedOnce
BY DEF Init, AppliedOnce

LEMMA NextApplied == IInv /\ AppliedOnce /\ [Next]_vars => AppliedOnce'
<1> SUFFICES ASSUME IInv, AppliedOnce, [Next]_vars PROVE AppliedOnce'
  OBVIOUS
<1>0. KeyTypes
  BY DEF IInv, TypeOK
<1>1. CASE UNCHANGED keyVars
  BY <1>1 DEF AppliedOnce, keyVars
<1>2. ASSUME NEW k \in ExpiringKey, ExpireKey(k) PROVE AppliedOnce'
  BY <1>0, <1>2 DEF ExpireKey, AppliedOnce, KeyTypes
<1>3. ASSUME NEW v \in Worker, At(v, "commit"), NEW a \in Nat, Freeze(v, a) PROVE AppliedOnce'
  <2>1. CASE req[v].key = None
    BY <1>1, <1>3, <2>1 DEF Freeze
  <2>2. CASE req[v].key # None
    <3> DEFINE k == req[v].key
    <3>1. keys[k] = None /\ k \in Key /\ req[v] \in Request
      BY <1>3, <2>2, CommitHolds DEF KeyFree, WellFormed
    <3>2. applied[k] = 0
      BY <3>1 DEF AppliedOnce
    <3>3. [req |-> req[v], answer |-> a] # None
      BY <1>3, <3>1, NoneAssumption
    <3> QED
      BY <1>0, <1>3, <2>2, <3>1, <3>2, <3>3 DEF Freeze, AppliedOnce, KeyTypes
  <2> QED
    BY <2>1, <2>2
<1> QED
  BY <1>1, <1>2, <1>3, Writers, CommitKeys

\* A stored key stands for one committed effect: retries never repeat one.
THEOREM AppliedOnceHolds == Spec => []AppliedOnce
BY InitApplied, NextApplied, Invariance, PTL DEF Spec

-----------------------------------------------------------------------------
(* Unique index entries. *)

LEMMA InitTills == Init => OneOpenPerTerminal
BY DEF Init, OneOpenPerTerminal, NoSession

LEMMA NextTills == IInv /\ OneOpenPerTerminal /\ [Next]_vars => OneOpenPerTerminal'
<1> SUFFICES ASSUME IInv, OneOpenPerTerminal, [Next]_vars PROVE OneOpenPerTerminal'
  OBVIOUS
<1>0. CashTypes
  BY DEF IInv, TypeOK
<1>1. CASE UNCHANGED cashVars
  BY <1>1 DEF OneOpenPerTerminal, cashVars
<1>2. ASSUME NEW v \in Worker, OpenSession(v) PROVE OneOpenPerTerminal'
  <2>1. TillFree(req[v].term)
    BY <1>2, CommitHolds DEF OpenSession, Committing
  <2> QED
    BY <1>0, <1>2, <2>1
    DEF OpenSession, FreshSession, TillFree, OneOpenPerTerminal, CashTypes
<1>3. ASSUME NEW v \in Worker, CloseSession(v) PROVE OneOpenPerTerminal'
  BY <1>0, <1>3 DEF CloseSession, OneOpenPerTerminal, CashTypes
<1> QED
  BY <1>1, <1>2, <1>3, Writers, CommitCash DEF AddMovement, AddCount, OneOpenPerTerminal

\* A terminal has at most one open session, whatever openings race.
THEOREM OneOpenPerTerminalHolds == Spec => []OneOpenPerTerminal
BY InitTills, NextTills, Invariance, PTL DEF Spec

LEMMA InitTables == Init => OneDraftPerTable
BY DEF Init, OneDraftPerTable, NoOrder

LEMMA NextTables == IInv /\ OneDraftPerTable /\ [Next]_vars => OneDraftPerTable'
<1> SUFFICES ASSUME IInv, OneDraftPerTable, [Next]_vars PROVE OneDraftPerTable'
  OBVIOUS
<1>0. OrderTypes
  BY DEF IInv, TypeOK
<1>1. CASE UNCHANGED orders
  BY <1>1 DEF OneDraftPerTable
<1>2. ASSUME NEW v \in Worker, CreateOrder(v) PROVE OneDraftPerTable'
  <2>1. req[v].table # None => TableFree(req[v].table)
    BY <1>2, CommitHolds DEF CreateOrder, Committing
  <2> QED
    BY <1>0, <1>2, <2>1 DEF CreateOrder, FreshOrder, TableFree, OneDraftPerTable, OrderTypes
<1>3. ASSUME NEW v \in Worker, VoidOrder(v) PROVE OneDraftPerTable'
  BY <1>0, <1>3 DEF VoidOrder, OneDraftPerTable, OrderTypes
<1>4. ASSUME NEW v \in Worker, NEW n \in Order, NEW e, Settle(v, n, e) PROVE OneDraftPerTable'
  BY <1>0, <1>4 DEF Settle, OneDraftPerTable, OrderTypes
<1>5. ASSUME NEW v \in Worker, CloseOrder(v) PROVE OneDraftPerTable'
  <2>1. req[v].order \in Order
    BY <1>5, CommitHolds DEF CloseOrder, Committing, WellFormed, OrderOp, SettleOp
  <2> QED
    BY <1>4, <1>5, <2>1 DEF CloseOrder
<1>6. ASSUME NEW v \in Worker, RefundOrder(v) PROVE OneDraftPerTable'
  BY <1>4, <1>6 DEF RefundOrder, FreshOrder
<1> QED
  BY <1>1, <1>2, <1>3, <1>5, <1>6, Writers, CommitOrders DEF orderVars

\* A table has at most one open order, whatever devices race to open it.
THEOREM OneDraftPerTableHolds == Spec => []OneDraftPerTable
BY InitTables, NextTables, Invariance, PTL DEF Spec

-----------------------------------------------------------------------------
(* Settled orders. *)

\* A charge settles its order and a refund a new one: unsettled until then,
\* of the terminal of the sale, and whose lines add up to the total.
LEMMA Settlements ==
  ASSUME IInv, NEW v \in Worker, CloseOrder(v) \/ RefundOrder(v)
  PROVE  /\ At(v, "commit") /\ req[v].op \in SettleOp
         /\ \E n \in Order, e \in {"sale_closed", "refund_issued"} :
              /\ Settle(v, n, e)
              /\ orders[n].status \in {"none", "draft"} /\ ~Settled(n)
              /\ OrderTerminal[n] = OrderTerminal[req[v].order]
              /\ LineSum(lines'[n]) = calc[v]
              /\ \A o \in Order \ {n} : lines'[o] = lines[o]
<1>1. At(v, "commit") /\ req[v].op \in SettleOp
  BY DEF CloseOrder, RefundOrder, Committing, SettleOp
<1>2. OrderTypes /\ OrderCheck(req[v]) /\ calc[v] = Amount(req[v]) /\ req[v].order \in Order
  BY <1>1, SettleFacts DEF IInv, TypeOK, WellFormed, OrderOp
<1>3. \A o \in Order : orders[o].status \in {"none", "draft"} => ~Settled(o)
  BY DEF IInv, Unsettled
<1>4. CASE CloseOrder(v)
  <2> DEFINE n == req[v].order
  <2>1. Settle(v, n, "sale_closed") /\ lines' = lines
    BY <1>4 DEF CloseOrder
  <2>2. orders[n].status = "draft" /\ calc[v] = LineSum(lines[n])
    BY <1>2, <1>4 DEF CloseOrder, Committing, OrderCheck, EnsureDraft, Amount
  <2> QED
    BY <1>1, <1>2, <1>3, <2>1, <2>2
<1>5. CASE RefundOrder(v)
  <2>1. PICK n \in FreshOrder(OrderTerminal[req[v].order]) :
          Settle(v, n, "refund_issued") /\ lines' = [lines EXCEPT ![n] = RefundLines(req[v])]
    BY <1>5 DEF RefundOrder
  <2>2. calc[v] = LineSum(RefundLines(req[v]))
    BY <1>2, <1>5 DEF RefundOrder, Committing, Amount
  <2>3. n \in Order /\ orders[n].status = "none" /\ OrderTerminal[n] = OrderTerminal[req[v].order]
    BY DEF FreshOrder
  <2>4. lines'[n] = RefundLines(req[v]) /\ \A o \in Order \ {n} : lines'[o] = lines[o]
    BY <1>2, <2>1, <2>3 DEF OrderTypes
  <2> QED
    BY <1>1, <1>3, <2>1, <2>2, <2>3, <2>4
<1> QED
  BY <1>4, <1>5

\* Line edits and voids find their order a draft, or paid, under its lock.
LEMMA Edits ==
  ASSUME IInv, NEW v \in Worker
  PROVE  /\ (AddLine(v) \/ UpdateLine(v) \/ RemoveLine(v)) =>
              /\ req[v].order \in Order /\ ~Settled(req[v].order)
              /\ \A o \in Order \ {req[v].order} : lines'[o] = lines[o]
         /\ VoidOrder(v) =>
              /\ req[v].order \in Order /\ orders[req[v].order].status \in {"draft", "paid"}
              /\ orders' = [orders EXCEPT ![req[v].order].status = "voided"]
<1>1. OrderTypes /\ Unsettled
  BY DEF IInv, TypeOK
<1>2. ASSUME AddLine(v) \/ UpdateLine(v) \/ RemoveLine(v)
      PROVE  /\ req[v].order \in Order /\ ~Settled(req[v].order)
             /\ \A o \in Order \ {req[v].order} : lines'[o] = lines[o]
  <2>1. At(v, "commit") /\ req[v].op \in {"add_line", "update_line", "remove_line"}
    BY <1>2 DEF AddLine, UpdateLine, RemoveLine, Committing
  <2>2. req[v].order \in Order /\ orders[req[v].order].status = "draft"
    BY <2>1, CommitHolds DEF WellFormed, OrderOp, OrderCheck, EnsureDraft
  <2> QED
    BY <1>1, <1>2, <2>2 DEF AddLine, UpdateLine, RemoveLine, Unsettled, OrderTypes
<1>3. ASSUME VoidOrder(v)
      PROVE  /\ req[v].order \in Order /\ orders[req[v].order].status \in {"draft", "paid"}
             /\ orders' = [orders EXCEPT ![req[v].order].status = "voided"]
  <2>1. At(v, "commit") /\ req[v].op = "void_order"
    BY <1>3 DEF VoidOrder, Committing
  <2> QED
    BY <1>3, <2>1, CommitHolds DEF VoidOrder, WellFormed, OrderOp, OrderCheck
<1> QED
  BY <1>2, <1>3

\* What a step leaves of a settled order.
SettledKept(o) ==
  /\ orders'[o] \in {orders[o], [orders[o] EXCEPT !.status = "voided"]}
  /\ lines'[o] = lines[o]
  /\ payments'[o] = payments[o]
  /\ tickets'[o] = tickets[o]

LEMMA NextSettled ==
  ASSUME IInv, [Next]_vars, NEW o \in Order, Settled(o)
  PROVE  SettledKept(o)
<1> USE DEF SettledKept
<1>0. OrderTypes /\ Unsettled
  BY DEF IInv, TypeOK
<1>1. CASE UNCHANGED orderVars
  BY <1>1 DEF orderVars
<1>2. ASSUME NEW v \in Worker, CreateOrder(v) PROVE SettledKept(o)
  BY <1>0, <1>2 DEF CreateOrder, FreshOrder, Unsettled, OrderTypes
<1>3. ASSUME NEW v \in Worker, VoidOrder(v) PROVE SettledKept(o)
  BY <1>0, <1>3, Edits DEF VoidOrder, OrderTypes
<1>4. ASSUME NEW v \in Worker, CloseOrder(v) \/ RefundOrder(v) PROVE SettledKept(o)
  <2>1. PICK n \in Order, e \in {"sale_closed", "refund_issued"} :
          Settle(v, n, e) /\ ~Settled(n) /\ \A p \in Order \ {n} : lines'[p] = lines[p]
    BY <1>4, Settlements
  <2>2. o # n
    BY <2>1
  <2> QED
    BY <1>0, <2>1, <2>2 DEF Settle, OrderTypes
<1>5. ASSUME NEW v \in Worker, UNCHANGED <<orders, payments, tickets>>,
             AddLine(v) \/ UpdateLine(v) \/ RemoveLine(v) \/ UNCHANGED lines
      PROVE  SettledKept(o)
  BY <1>5, Edits
<1> QED
  BY <1>1, <1>2, <1>3, <1>4, <1>5, Writers, CommitOrders

\* Once an order is settled no step, of any worker, rewrites it: it can only
\* be voided.
THEOREM SettledForGoodHolds == Spec => SettledForGood
<1>1. IInv /\ [Next]_vars =>
        [\A o \in Order : Settled(o) => SettledKept(o)]_vars
  BY NextSettled
<1> QED
  BY <1>1, Invariance, PTL DEF Spec, SettledForGood, SettledKept


\* An order becomes settled in the commit of a charge or of a refund.
LEMMA NewlySettled ==
  ASSUME IInv, [Next]_vars, NEW o \in Order, ~Settled(o), Settled(o)'
  PROVE  \E v \in Worker :
           /\ CloseOrder(v) \/ RefundOrder(v)
           /\ At(v, "commit") /\ req[v].op \in SettleOp
           /\ \E e \in {"sale_closed", "refund_issued"} : Settle(v, o, e)
           /\ OrderTerminal[o] = OrderTerminal[req[v].order]
           /\ LineSum(lines'[o]) = calc[v]
<1>0. OrderTypes
  BY DEF IInv, TypeOK
<1>1. ASSUME NEW v \in Worker, CreateOrder(v) \/ VoidOrder(v) PROVE FALSE
  <2>1. orders'[o].sess = orders[o].sess
    <3>1. CASE CreateOrder(v)
      BY <1>0, <3>1 DEF CreateOrder, FreshOrder, OrderTypes
    <3>2. CASE VoidOrder(v)
      <4>1. req[v].order \in Order
            /\ orders' = [orders EXCEPT ![req[v].order].status = "voided"]
        BY <3>2, Edits
      <4> QED
        BY <1>0, <4>1 DEF OrderTypes
    <3> QED
      BY <1>1, <3>1, <3>2
  <2> QED
    BY <2>1 DEF Settled
<1>2. PICK v \in Worker : CloseOrder(v) \/ RefundOrder(v)
  BY <1>1, Writers, CommitOrders DEF Settled, orderVars
<1>3. PICK n \in Order, e \in {"sale_closed", "refund_issued"} :
        /\ At(v, "commit") /\ req[v].op \in SettleOp
        /\ Settle(v, n, e) /\ LineSum(lines'[n]) = calc[v]
        /\ OrderTerminal[n] = OrderTerminal[req[v].order]
  BY <1>2, Settlements
<1>4. n = o
  BY <1>0, <1>3 DEF Settle, Settled, OrderTypes
<1> QED
  BY <1>2, <1>3, <1>4

LEMMA InitPaid == Init => PaidExactly
BY DEF Init, PaidExactly, Settled, NoOrder

LEMMA NextPaid == IInv /\ PaidExactly /\ [Next]_vars => PaidExactly'
<1> SUFFICES ASSUME IInv, PaidExactly, [Next]_vars, NEW o \in Order, Settled(o)'
             PROVE  /\ LineSum(lines'[o]) = orders'[o].total
                    /\ orders'[o].total \in {payments'[o].cash + payments'[o].card,
                                             -(payments'[o].cash + payments'[o].card)}
                    /\ orders'[o].total # 0
                    /\ SessionTerminal[orders'[o].sess] = OrderTerminal[o]
  BY DEF PaidExactly
<1>0. OrderTypes
  BY DEF IInv, TypeOK
<1>1. CASE Settled(o)
  <2>1. SettledKept(o)
    BY <1>1, NextSettled
  <2>2. orders'[o].total = orders[o].total /\ orders'[o].sess = orders[o].sess
    BY <1>0, <2>1 DEF SettledKept, OrderTypes
  <2>3. lines'[o] = lines[o] /\ payments'[o] = payments[o]
    BY <2>1 DEF SettledKept
  <2> QED
    BY <1>1, <2>2, <2>3 DEF PaidExactly
<1>2. CASE ~Settled(o)
  <2>1. PICK v \in Worker :
          /\ At(v, "commit") /\ req[v].op \in SettleOp
          /\ \E e : Settle(v, o, e)
          /\ OrderTerminal[o] = OrderTerminal[req[v].order]
          /\ LineSum(lines'[o]) = calc[v]
    BY <1>2, NewlySettled
  <2>2. /\ orders'[o].total = calc[v] /\ orders'[o].sess = req[v].sess
        /\ payments'[o].cash = req[v].cash /\ payments'[o].card = req[v].card
    BY <1>0, <2>1 DEF Settle, OrderTypes
  <2>3. /\ calc[v] = Due(req[v]) /\ Paid(req[v]) > 0 /\ Paid(req[v]) \in Nat
        /\ SessionTerminal[req[v].sess] = OrderTerminal[req[v].order]
    BY <2>1, SettleFacts DEF CashCheck, CashSessionForSale, SettleOp
  <2>4. calc[v] \in {Paid(req[v]), -Paid(req[v])} /\ calc[v] # 0
    BY <2>3 DEF Due
  <2> QED
    BY <2>1, <2>2, <2>3, <2>4 DEF Paid
<1> QED
  BY <1>1, <1>2

\* Every settled order was charged exactly what its lines add up to, at an
\* own session, whatever edits and charges raced.
THEOREM PaidExactlyHolds == Spec => []PaidExactly
BY InitPaid, NextPaid, Invariance, PTL DEF Spec

-----------------------------------------------------------------------------
(* Ticket numbers. *)

\* No ticket of a terminal is beyond its series.
TicketsBounded == \A o \in Order : tickets[o] <= sequences[OrderTerminal[o]]

LEMMA InitTickets == Init => TicketsBounded /\ TicketsUnique
BY TerminalAssumption DEF Init, TicketsBounded, TicketsUnique

LEMMA NextTickets ==
  IInv /\ TicketsBounded /\ TicketsUnique /\ [Next]_vars => TicketsBounded' /\ TicketsUnique'
<1> SUFFICES ASSUME IInv, TicketsBounded, TicketsUnique, [Next]_vars
             PROVE  TicketsBounded' /\ TicketsUnique'
  OBVIOUS
<1>0. tickets \in [Order -> Nat] /\ sequences \in [Terminal -> Nat]
  BY DEF IInv, TypeOK, OrderTypes
<1>1. CASE UNCHANGED <<tickets, sequences>>
  BY <1>1 DEF TicketsBounded, TicketsUnique
<1>2. ASSUME NEW v \in Worker, CloseOrder(v) \/ RefundOrder(v)
      PROVE  TicketsBounded' /\ TicketsUnique'
  <2>1. PICK n \in Order, e \in {"sale_closed", "refund_issued"} :
          /\ At(v, "commit") /\ req[v].op \in SettleOp /\ Settle(v, n, e)
          /\ OrderTerminal[n] = OrderTerminal[req[v].order]
    BY <1>2, Settlements
  <2> DEFINE t == OrderTerminal[n]
  <2>2. num[v] = sequences[t] + 1 /\ t \in Terminal
    BY <2>1, SettleFacts, TerminalAssumption DEF NextNumber
  <2>3. /\ tickets' = [tickets EXCEPT ![n] = sequences[t] + 1]
        /\ sequences' = [sequences EXCEPT ![t] = sequences[t] + 1]
    BY <2>1, <2>2 DEF Settle
  <2>4. TicketsBounded'
    BY <1>0, <2>2, <2>3, TerminalAssumption DEF TicketsBounded
  <2>5. TicketsUnique'
    BY <1>0, <2>2, <2>3, TerminalAssumption DEF TicketsBounded, TicketsUnique
  <2> QED
    BY <2>4, <2>5
<1> QED
  BY <1>1, <1>2, Writers, CommitOrders DEF orderVars, CreateOrder, VoidOrder

\* Two orders of a terminal never carry the same ticket number.
THEOREM TicketsUniqueHolds == Spec => []TicketsUnique
<1>1. Init => TicketsBounded /\ TicketsUnique
  BY InitTickets
<1>2. IInv /\ (TicketsBounded /\ TicketsUnique) /\ [Next]_vars
        => (TicketsBounded /\ TicketsUnique)'
  BY NextTickets
<1> QED
  BY <1>1, <1>2, Invariance, PTL DEF Spec


-----------------------------------------------------------------------------
(* Closed sessions. *)

\* What a step leaves of a closed session.
ClosedKept(s) ==
  /\ sessions'[s] = sessions[s]
  /\ expected'[s] = expected[s]
  /\ moves'[s] = moves[s]
  /\ counts'[s] = counts[s]

LEMMA NextClosed ==
  ASSUME IInv, [Next]_vars, NEW s \in Session, sessions[s].status = "closed"
  PROVE  ClosedKept(s)
<1> USE DEF ClosedKept
<1>0. CashTypes
  BY DEF IInv, TypeOK
<1>1. CASE UNCHANGED cashVars
  BY <1>1 DEF cashVars
<1>2. ASSUME NEW v \in Worker, OpenSession(v) PROVE ClosedKept(s)
  BY <1>0, <1>2 DEF OpenSession, FreshSession, CashTypes
<1>3. ASSUME NEW v \in Worker, AddMovement(v) \/ AddCount(v) \/ CloseSession(v)
      PROVE  ClosedKept(s)
  <2>1. At(v, "commit") /\ req[v].op \in CashOp
    BY <1>3 DEF AddMovement, AddCount, CloseSession, Committing, CashOp
  <2>2. sessions[req[v].sess].status = "open" /\ req[v].sess \in Session
    BY <2>1, CommitHolds DEF CashCheck, WellFormed, CashOp
  <2> QED
    BY <1>0, <1>3, <2>2 DEF AddMovement, AddCount, CloseSession, CashTypes
<1> QED
  BY <1>1, <1>2, <1>3, Writers, CommitCash

\* No step writes a closed session, its movements or its counts.
THEOREM ClosedForGoodHolds == Spec => ClosedForGood
<1>1. IInv /\ [Next]_vars =>
        [\A s \in Session : sessions[s].status = "closed" => ClosedKept(s)]_vars
  BY NextClosed
<1> QED
  BY <1>1, Invariance, PTL DEF Spec, ClosedForGood, ClosedKept

\* Nothing brings cash into a session that is not open.
LEMMA ClosedExpected ==
  ASSUME IInv, [Next]_vars, NEW s \in Session, sessions[s].status = "closed"
  PROVE  Expected(s)' = Expected(s)
<1>0. OrderTypes /\ s # None
  BY NoneAssumption DEF IInv, TypeOK
<1>1. ASSUME NEW o \in Order, orders'[o].sess = s \/ orders[o].sess = s
      PROVE  /\ orders'[o].sess = orders[o].sess /\ orders'[o].total = orders[o].total
             /\ payments'[o] = payments[o]
  <2>1. CASE Settled(o)
    <3>1. SettledKept(o)
      BY <2>1, NextSettled
    <3> QED
      BY <1>0, <3>1 DEF SettledKept, OrderTypes
  <2>2. CASE ~Settled(o)
    <3>1. orders'[o].sess = s /\ Settled(o)'
      BY <1>0, <1>1, <2>2 DEF Settled
    <3>2. PICK v \in Worker : /\ At(v, "commit") /\ req[v].op \in SettleOp
                              /\ \E e : Settle(v, o, e)
      BY <2>2, <3>1, NewlySettled
    <3>3. req[v].sess = s
      BY <1>0, <3>1, <3>2 DEF Settle, OrderTypes
    <3>4. sessions[s].status = "open"
      BY <3>2, <3>3, SettleFacts DEF CashCheck, CashSessionForSale, SettleOp
    <3> QED
      BY <3>4
  <2> QED
    BY <2>1, <2>2
<1>2. sessions'[s].opening = sessions[s].opening /\ moves'[s] = moves[s]
  BY NextClosed DEF ClosedKept
<1> QED
  BY <1>1, <1>2, ExpectedSame

LEMMA InitZ == Init => ZFrozen
BY DEF Init, ZFrozen, NoSession

LEMMA NextZ == IInv /\ ZFrozen /\ [Next]_vars => ZFrozen'
<1> SUFFICES ASSUME IInv, ZFrozen, [Next]_vars, NEW s \in Session, sessions'[s].status = "closed"
             PROVE  /\ expected'[s] = Expected(s)'
                    /\ counts'[s] # <<>>
                    /\ counts'[s][Len(counts'[s])] = sessions'[s].counted
  BY DEF ZFrozen
<1>0. CashTypes
  BY DEF IInv, TypeOK
<1>1. CASE sessions[s].status = "closed"
  BY <1>1, NextClosed, ClosedExpected DEF ClosedKept, ZFrozen
<1>2. CASE sessions[s].status # "closed"
  <2>1. ASSUME NEW v \in Worker, OpenSession(v) PROVE FALSE
    BY <1>0, <1>2, <2>1 DEF OpenSession, FreshSession, CashTypes
  <2>2. PICK v \in Worker : CloseSession(v)
    BY <1>2, <2>1, Writers, CommitCash DEF cashVars, AddMovement, AddCount
  <2>3. s = req[v].sess
    BY <1>0, <1>2, <2>2 DEF CloseSession, CashTypes
  <2>4. req[v].counted \in Nat /\ calc[v] = Expected(s)
    BY <2>2, <2>3, CommitHolds DEF CloseSession, Committing, CashOp, Amount, WellFormed
  <2>5. /\ expected'[s] = calc[v]
        /\ counts'[s] = Append(counts[s], req[v].counted)
        /\ sessions'[s].counted = req[v].counted
        /\ sessions'[s].opening = sessions[s].opening
    BY <1>0, <2>2, <2>3 DEF CloseSession, CashTypes
  <2>6. UNCHANGED <<orders, payments, moves>>
    BY <2>2 DEF CloseSession, orderVars
  <2>7. Expected(s)' = Expected(s)
    BY <2>5, <2>6, ExpectedSame
  <2>8. counts[s] \in Seq(Nat)
    BY <1>0 DEF CashTypes
  <2> QED
    BY <2>4, <2>5, <2>7, <2>8
<1> QED
  BY <1>1, <1>2

\* The Z of a closed session is true for ever: what it says the drawer should
\* hold is what the session's sales, refunds and movements add up to.
THEOREM ZFrozenHolds == Spec => []ZFrozen
BY InitZ, NextZ, Invariance, PTL DEF Spec


-----------------------------------------------------------------------------
(* Frozen answers. *)

\* A key row is new only when the commit of its request freezes it.
LEMMA NewlyFrozen ==
  ASSUME IInv, [Next]_vars, NEW k \in Key, keys'[k] # None, keys'[k] # keys[k]
  PROVE  \E v \in Worker :
           /\ Commit(v) /\ req[v] \in Request
           /\ keys'[k].req = req[v]
           /\ req[v].op = "close_order" => CloseOrder(v) /\ keys'[k].answer = num[v]
<1>0. KeyTypes
  BY DEF IInv, TypeOK
<1>1. \A x \in ExpiringKey : ~ExpireKey(x)
  BY <1>0 DEF ExpireKey, KeyTypes
<1>2. PICK v \in Worker : Commit(v) /\ ~UNCHANGED keyVars
  BY <1>1, Writers DEF keyVars
<1>3. At(v, "commit") /\ req[v] \in Request
  BY <1>2, CommitKeys, CommitHolds
<1>4. ASSUME NEW a, Freeze(v, a) PROVE keys'[k] = [req |-> req[v], answer |-> a]
  BY <1>0, <1>2, <1>4 DEF Freeze, KeyTypes
<1>5. keys'[k].req = req[v]
  <2>1. PICK a \in Nat : Freeze(v, a)
    BY <1>2, CommitKeys
  <2>2. keys'[k] = [req |-> req[v], answer |-> a]
    BY <1>4, <2>1
  <2> QED
    BY <2>2
<1>6. ASSUME req[v].op = "close_order" PROVE CloseOrder(v) /\ keys'[k].answer = num[v]
  <2>1. CloseOrder(v)
    BY <1>2, <1>6
    DEF Commit, Committing, CreateOrder, AddLine, UpdateLine, RemoveLine, VoidOrder,
        RefundOrder, OpenSession, AddMovement, AddCount, CloseSession
  <2>2. Freeze(v, num[v])
    BY <2>1 DEF CloseOrder
  <2>3. keys'[k] = [req |-> req[v], answer |-> num[v]]
    BY <1>4, <2>2
  <2> QED
    BY <2>1, <2>3
<1> QED
  BY <1>2, <1>3, <1>5, <1>6

LEMMA InitFrozen == Init => FrozenAnswer
BY DEF Init, FrozenAnswer

LEMMA NextFrozen == IInv /\ FrozenAnswer /\ [Next]_vars => FrozenAnswer'
<1> SUFFICES ASSUME IInv, FrozenAnswer, [Next]_vars,
                    NEW k \in Key, keys'[k] # None, keys'[k].req.op = "close_order",
                    NEW o, o = keys'[k].req.order
             PROVE  /\ orders'[o].sess # None
                    /\ tickets'[o] = keys'[k].answer
                    /\ orders'[o].status \in {"paid", "voided"}
  BY DEF FrozenAnswer, Settled
<1>0. OrderTypes /\ KeyTypes
  BY DEF IInv, TypeOK
<1>1. CASE keys'[k] = keys[k]
  <2>1. /\ Settled(o) /\ tickets[o] = keys'[k].answer
        /\ orders[o].status \in {"paid", "voided"}
    BY <1>1 DEF FrozenAnswer
  <2>2. o \in Order
    <3>1. keys'[k].req \in Request
      BY <1>0, <1>1 DEF KeyTypes
    <3> QED
      BY <3>1, RequestAssumption DEF WellFormed, OrderOp, SettleOp
  <2>3. SettledKept(o)
    BY <2>1, <2>2, NextSettled
  <2>4. /\ orders'[o].sess = orders[o].sess /\ tickets'[o] = tickets[o]
        /\ orders'[o].status \in {orders[o].status, "voided"}
    BY <1>0, <2>2, <2>3 DEF SettledKept, OrderTypes
  <2> QED
    BY <2>1, <2>4 DEF Settled
<1>2. CASE keys'[k] # keys[k]
  <2>1. PICK v \in Worker :
          /\ req[v] \in Request /\ keys'[k].req = req[v]
          /\ CloseOrder(v) /\ keys'[k].answer = num[v]
    BY <1>2, NewlyFrozen
  <2>2. Settle(v, o, "sale_closed") /\ WellFormed(req[v]) /\ req[v].op = "close_order"
    BY <2>1, RequestAssumption DEF CloseOrder, Committing
  <2>3. o \in Order /\ req[v].sess # None
    BY <2>1, <2>2, NoneAssumption DEF WellFormed, OrderOp, SettleOp
  <2>4. orders'[o].status = "paid" /\ orders'[o].sess = req[v].sess /\ tickets'[o] = num[v]
    BY <1>0, <2>2, <2>3 DEF Settle, OrderTypes
  <2> QED
    BY <2>1, <2>3, <2>4 DEF Settled
<1> QED
  BY <1>1, <1>2

\* The answer a retry of a charge is given stays true for ever.
THEOREM FrozenAnswerHolds == Spec => []FrozenAnswer
BY InitFrozen, NextFrozen, Invariance, PTL DEF Spec

-----------------------------------------------------------------------------
(* No deadlock. *)

\* Whoever holds a row that another worker waits for is at a later statement.
LEMMA HolderAhead ==
  ASSUME IInv, NEW w \in Worker, NEW v \in Worker, Waiting(w), Waiting(v), WaitsFor(w, v)
  PROVE  Rank(pc[w]) < Rank(pc[v])
<1>1. PICK p \in Stmt : Passed(v, p) /\ RowAt(req[w], pc[w]) = RowAt(req[v], p)
  BY DEF IInv, HeldExactly, WaitsFor
<1>2. Rank(p) < Rank(pc[v]) /\ Has(req[v], p)
  BY <1>1 DEF Passed, Behind
<1>3. pc[w] \in {"order", "cash", "series", "slot", "key"}
  BY DEF Waiting
<1>4. p # "commit"
  BY <1>2 DEF Waiting, Rank
<1>5. p = pc[w]
  BY <1>1, <1>3, <1>4 DEF RowAt, Stmt
<1> QED
  BY <1>2, <1>5

LEMMA RanksAcyclic == IInv => NoLockCycle
<1> SUFFICES ASSUME IInv, NEW W \in SUBSET {w \in Worker : Waiting(w)}, W # {}
             PROVE  \E w \in W : \A v \in W : ~WaitsFor(w, v)
  BY DEF NoLockCycle
<1>1. \A w \in W : w \in Worker /\ Waiting(w) /\ Rank(pc[w]) \in 1..4
  BY DEF Waiting, Rank
<1>2. ASSUME NEW w \in W, \A v \in W : Rank(pc[v]) <= Rank(pc[w])
      PROVE  \A v \in W : ~WaitsFor(w, v)
  BY <1>1, <1>2, HolderAhead
<1>3. \E w \in W : \A v \in W : Rank(pc[v]) <= Rank(pc[w])
  <2>1. CASE \E w \in W : Rank(pc[w]) = 4
    BY <1>1, <2>1
  <2>2. CASE (\A w \in W : Rank(pc[w]) # 4) /\ \E w \in W : Rank(pc[w]) = 3
    BY <1>1, <2>2
  <2>3. CASE (\A w \in W : Rank(pc[w]) \notin {3, 4}) /\ \E w \in W : Rank(pc[w]) = 2
    BY <1>1, <2>3
  <2>4. CASE \A w \in W : Rank(pc[w]) \notin {2, 3, 4}
    BY <1>1, <2>4
  <2> QED
    BY <2>1, <2>2, <2>3, <2>4
<1> QED
  BY <1>2, <1>3

\* The fixed order of the locks: no set of waiting requests waits on itself.
THEOREM NoLockCycleHolds == Spec => []NoLockCycle
BY RanksAcyclic, Invariance, PTL

-----------------------------------------------------------------------------
(* Sale events. *)

\* What the sale events of an order are, by its session, total and status.
Charged(sess, total) ==
  IF sess = None THEN <<>> ELSE IF total > 0 THEN <<"sale_closed">> ELSE <<"refund_issued">>

Told(sess, total, status) ==
  Charged(sess, total) \o (IF status = "voided" THEN <<"sale_voided">> ELSE <<>>)

LEMMA EventsTold ==
  OneEventPerTransition <=>
    \A o \in Order : saleEvents[o] = Told(orders[o].sess, orders[o].total, orders[o].status)
BY DEF OneEventPerTransition, Told, Charged, Settled

\* A charge, a refund and a void each add their own event.
LEMMA ToldGrows ==
  ASSUME NEW sess, NEW total \in Int
  PROVE  /\ \A status \in {"none", "draft", "paid"} :
              Append(Told(sess, total, status), "sale_voided") = Told(sess, total, "voided")
         /\ \A status \in {"none", "draft"} : Told(None, total, status) = <<>>
         /\ sess # None => /\ total > 0 => Told(sess, total, "paid") = <<"sale_closed">>
                           /\ ~(total > 0) => Told(sess, total, "paid") = <<"refund_issued">>
<1>1. \A s, t : t \in Int => Charged(s, t) \in {<<>>, <<"sale_closed">>, <<"refund_issued">>}
  BY DEF Charged
<1>2. \A c \in {<<>>, <<"sale_closed">>, <<"refund_issued">>} :
        c \o <<>> = c /\ Append(c, "sale_voided") = c \o <<"sale_voided">>
  <2>1. <<>> \o <<>> = <<>> /\ Append(<<>>, "sale_voided") = <<>> \o <<"sale_voided">>
    OBVIOUS
  <2>2. \A e \in {"sale_closed", "refund_issued"} :
          <<e>> \o <<>> = <<e>> /\ Append(<<e>>, "sale_voided") = <<e>> \o <<"sale_voided">>
    OBVIOUS
  <2> QED
    BY <2>1, <2>2
<1>3. \A s, status : Told(s, total, status) = IF status = "voided"
                                               THEN Charged(s, total) \o <<"sale_voided">>
                                               ELSE Charged(s, total)
  BY <1>1, <1>2 DEF Told
<1>4. /\ Charged(None, total) = <<>>
      /\ sess # None => Charged(sess, total) = IF total > 0 THEN <<"sale_closed">>
                                                            ELSE <<"refund_issued">>
  BY DEF Charged
<1> QED
  BY <1>1, <1>2, <1>3, <1>4

LEMMA InitEvents == Init => OneEventPerTransition
BY EventsTold, ToldGrows DEF Init, NoOrder

LEMMA NextEvents == IInv /\ OneEventPerTransition /\ [Next]_vars => OneEventPerTransition'
<1> SUFFICES ASSUME IInv, OneEventPerTransition, [Next]_vars, NEW o \in Order
             PROVE  saleEvents'[o]
                      = Told(orders'[o].sess, orders'[o].total, orders'[o].status)
  BY DEF OneEventPerTransition, Told, Charged, Settled
<1>0. /\ OrderTypes /\ orders[o].total \in Int
      /\ saleEvents[o] = Told(orders[o].sess, orders[o].total, orders[o].status)
  BY EventsTold DEF IInv, TypeOK, OrderTypes
<1>1. CASE UNCHANGED <<orders, saleEvents>>
  BY <1>0, <1>1
<1>2. ASSUME NEW v \in Worker, CreateOrder(v)
      PROVE  saleEvents'[o] = Told(orders'[o].sess, orders'[o].total, orders'[o].status)
  <2>1. PICK n \in FreshOrder(req[v].term) :
          orders' = [orders EXCEPT ![n].status = "draft", ![n].table = req[v].table]
    BY <1>2 DEF CreateOrder
  <2>2. saleEvents' = saleEvents
    BY <1>2 DEF CreateOrder
  <2>3. n \in Order /\ orders[n].status = "none" /\ orders[n].sess = None
    BY DEF FreshOrder, IInv, Unsettled, Settled
  <2>4. CASE o # n
    BY <1>0, <2>1, <2>2, <2>4 DEF OrderTypes
  <2>5. CASE o = n
    <3>1. /\ orders'[o].sess = None /\ orders'[o].status = "draft"
          /\ orders'[o].total = orders[o].total
      BY <1>0, <2>1, <2>3, <2>5 DEF OrderTypes
    <3> QED
      BY <1>0, <2>2, <2>3, <2>5, <3>1, ToldGrows
  <2> QED
    BY <2>4, <2>5
<1>3. ASSUME NEW v \in Worker, VoidOrder(v)
      PROVE  saleEvents'[o] = Told(orders'[o].sess, orders'[o].total, orders'[o].status)
  <2> DEFINE n == req[v].order
  <2>1. /\ n \in Order /\ orders[n].status \in {"draft", "paid"}
        /\ orders' = [orders EXCEPT ![n].status = "voided"]
    BY <1>3, Edits
  <2>2. saleEvents' = [saleEvents EXCEPT ![n] = Append(@, "sale_voided")]
    BY <1>3 DEF VoidOrder
  <2>3. CASE o # n
    BY <1>0, <2>1, <2>2, <2>3 DEF OrderTypes
  <2>4. CASE o = n
    <3>1. /\ orders'[o].sess = orders[o].sess /\ orders'[o].total = orders[o].total
          /\ orders'[o].status = "voided"
          /\ saleEvents'[o] = Append(saleEvents[o], "sale_voided")
      BY <1>0, <2>1, <2>2, <2>4 DEF OrderTypes
    <3> QED
      BY <1>0, <2>1, <2>4, <3>1, ToldGrows
  <2> QED
    BY <2>3, <2>4
<1>4. ASSUME NEW v \in Worker, CloseOrder(v) \/ RefundOrder(v)
      PROVE  saleEvents'[o] = Told(orders'[o].sess, orders'[o].total, orders'[o].status)
  <2>1. PICK n \in Order, e \in {"sale_closed", "refund_issued"} :
          /\ Settle(v, n, e)
          /\ (CloseOrder(v) /\ e = "sale_closed") \/ (RefundOrder(v) /\ e = "refund_issued")
          /\ orders[n].status \in {"none", "draft"} /\ ~Settled(n)
    <3>1. CASE CloseOrder(v)
      <4>1. req[v].op = "close_order" /\ Settle(v, req[v].order, "sale_closed") /\ At(v, "commit")
        BY <3>1 DEF CloseOrder, Committing
      <4>2. req[v].order \in Order /\ orders[req[v].order].status = "draft"
        BY <4>1, CommitHolds DEF WellFormed, OrderOp, SettleOp, OrderCheck, EnsureDraft
      <4> QED
        BY <3>1, <4>1, <4>2 DEF IInv, Unsettled
    <3>2. CASE RefundOrder(v)
      BY <3>2 DEF RefundOrder, FreshOrder, IInv, Unsettled
    <3> QED
      BY <1>4, <3>1, <3>2
  <2>2. CASE o # n
    BY <1>0, <2>1, <2>2 DEF Settle, OrderTypes
  <2>3. CASE o = n
    <3>1. /\ At(v, "commit") /\ req[v].op \in SettleOp
          /\ e = "sale_closed" => req[v].op = "close_order"
          /\ e = "refund_issued" => req[v].op = "refund_order"
      BY <2>1 DEF CloseOrder, RefundOrder, Committing, SettleOp
    <3>2. /\ calc[v] \in Int /\ calc[v] = Due(req[v]) /\ Paid(req[v]) > 0 /\ Paid(req[v]) \in Nat
          /\ req[v].sess # None
      BY <3>1, SettleFacts, NoneAssumption DEF WellFormed
    <3>3. IF e = "sale_closed" THEN calc[v] > 0 ELSE ~(calc[v] > 0)
      BY <2>1, <3>1, <3>2 DEF Due
    <3>4. /\ orders'[o].sess = req[v].sess /\ orders'[o].total = calc[v]
          /\ orders'[o].status = "paid"
          /\ saleEvents'[o] = Append(saleEvents[o], e)
      BY <1>0, <2>1, <2>3 DEF Settle, OrderTypes
    <3>5. saleEvents[o] = <<>>
      <4>1. orders[o].total \in Int /\ orders[o].sess = None
            /\ orders[o].status \in {"none", "draft"}
        BY <1>0, <2>1, <2>3 DEF Settled, OrderTypes
      <4> QED
        BY <1>0, <4>1, ToldGrows
    <3>6. saleEvents'[o] = <<e>>
      BY <3>4, <3>5
    <3> QED
      BY <2>1, <3>2, <3>3, <3>4, <3>6, ToldGrows
  <2> QED
    BY <2>2, <2>3
<1> QED
  BY <1>1, <1>2, <1>3, <1>4, Writers, CommitOrders DEF orderVars

\* Every transition of an order is told once, in order, and nothing else is:
\* what the fiscal adapter reads of an order is its history.
THEOREM OneEventHolds == Spec => []OneEventPerTransition
BY InitEvents, NextEvents, Invariance, PTL DEF Spec

-----------------------------------------------------------------------------
(* The drawer. *)

\* A charge whose drawer is still to open is settled, in cash, and its drawer
\* has not opened; no other worker has the same one to open.
DrawerPending ==
  \A w \in Worker : At(w, "drawer") =>
    /\ Settled(req[w].order) /\ payments[req[w].order].cash > 0 /\ drawer[req[w].order] = 0
    /\ \A v \in Worker \ {w} : At(v, "drawer") => req[v].order # req[w].order

\* A worker comes to the drawer by charging in cash, and leaves it by opening.
LEMMA DrawerWorkers ==
  ASSUME IInv, [Next]_vars, NEW w \in Worker, At(w, "drawer")'
  PROVE  \/ At(w, "drawer") /\ req'[w] = req[w] /\ ~OpenDrawer(w)
         \/ CloseOrder(w) /\ req[w].cash > 0 /\ req'[w] = req[w]
<1>0. TypeOK /\ WorkTypes /\ Placed
  BY DEF IInv, TypeOK
<1>1. CASE \E v \in Worker : v # w /\ Step(v)
  <2>1. PICK v \in Worker : v # w /\ Step(v)
    BY <1>1
  <2>2. req'[w] = req[w] /\ pc'[w] = pc[w]
    BY <2>1, StepWrites DEF Alone
  <2>3. ~OpenDrawer(w)
    BY <1>0, <2>2 DEF OpenDrawer, Leave, At, WorkTypes, Placed
  <2> QED
    BY <2>2, <2>3 DEF At
<1>2. CASE Step(w)
  <2>1. CASE CloseOrder(w) /\ req[w].cash > 0
    BY <2>1 DEF CloseOrder
  <2>2. CASE ~(CloseOrder(w) /\ req[w].cash > 0)
    <3>1. ~\E r \in Request : Begin(w, r)
      BY <1>0, FirstStmt DEF Begin, At, WorkTypes, Stmt
    <3>2. ASSUME NEW p \in {"order", "cash", "series", "slot", "key"}, At(w, p), Proceed(w)
          PROVE  FALSE
      <4>1. req[w] \in Request /\ Has(req[w], p) /\ pc'[w] = After(req[w], p)
        BY <1>0, <3>2 DEF At, Proceed, WorkTypes, Placed
      <4>2. pc'[w] \in Stmt
        BY <4>1, NextStmt
      <4> QED
        BY <4>2 DEF At, Stmt
    <3>3. Statement(w) => Leave(w)
      BY <3>2
      DEF Statement, LockOrder, LockCash, TakeNumber, ClaimSlot, StoreKey, RefuseOrder,
          RefuseCash, RefuseSlot, ReplayAfterConflict, Refuse
    <3>4. Commit(w) => Leave(w)
      BY <2>2
      DEF Commit, CreateOrder, AddLine, UpdateLine, RemoveLine, CloseOrder, VoidOrder,
          RefundOrder, OpenSession, AddMovement, AddCount, CloseSession
    <3>5. Leave(w)
      BY <1>2, <3>1, <3>3, <3>4 DEF Step, OpenDrawer, Abort, Refuse
    <3> QED
      BY <1>0, <3>5 DEF Leave, At, WorkTypes
  <2> QED
    BY <2>1, <2>2
<1>3. CASE UNCHANGED workVars
  BY <1>0, <1>3 DEF At, workVars, OpenDrawer, Leave, WorkTypes
<1> QED
  BY <1>1, <1>2, <1>3, NextSteps DEF ExpireKey, vars

LEMMA InitDrawer == Init => DrawerPending /\ DrawerOnce
BY DEF Init, DrawerPending, DrawerOnce, At

LEMMA NextDrawer ==
  IInv /\ DrawerPending /\ DrawerOnce /\ [Next]_vars => DrawerPending' /\ DrawerOnce'
<1> SUFFICES ASSUME IInv, DrawerPending, DrawerOnce, [Next]_vars
             PROVE  DrawerPending' /\ DrawerOnce'
  OBVIOUS
<1>0. TypeOK /\ OrderTypes /\ WorkTypes /\ Placed /\ drawer \in [Order -> Nat]
  BY DEF IInv, TypeOK
<1>1. \A w \in Worker : At(w, "drawer") => req[w].order \in Order
  BY <1>0, RequestAssumption DEF At, Placed, WorkTypes, WellFormed, OrderOp, SettleOp, Has
<1>2. \A o \in Order : Settled(o) => Settled(o)' /\ payments'[o] = payments[o]
  BY <1>0, NextSettled DEF SettledKept, Settled, OrderTypes
<1>3. ASSUME NEW w \in Worker, CloseOrder(w), req[w].cash > 0, req'[w] = req[w]
      PROVE  /\ req[w].order \in Order /\ ~Settled(req[w].order)
             /\ Settled(req[w].order)' /\ payments'[req[w].order].cash > 0
             /\ drawer[req[w].order] = 0 /\ drawer' = drawer
  <2>1. /\ At(w, "commit") /\ req[w].op = "close_order" /\ drawer' = drawer
        /\ Settle(w, req[w].order, "sale_closed")
    BY <1>3 DEF CloseOrder, Committing
  <2>2. /\ req[w].order \in Order /\ orders[req[w].order].status = "draft"
        /\ req[w].sess # None /\ req[w].cash \in Nat
    BY <2>1, CommitHolds, NoneAssumption
    DEF WellFormed, OrderOp, SettleOp, OrderCheck, EnsureDraft
  <2>3. ~Settled(req[w].order)
    BY <2>2 DEF IInv, Unsettled
  <2>4. Settled(req[w].order)' /\ payments'[req[w].order].cash = req[w].cash
    <3>1. orders'[req[w].order].sess = req[w].sess
      BY <1>0, <2>1, <2>2 DEF Settle, OrderTypes
    <3>2. payments'[req[w].order] = [cash |-> req[w].cash, card |-> req[w].card]
      BY <1>0, <2>1, <2>2 DEF Settle, OrderTypes
    <3> QED
      BY <1>3, <2>2, <3>1, <3>2 DEF Settled
  <2> QED
    BY <1>0, <1>3, <2>1, <2>2, <2>3, <2>4 DEF DrawerOnce
\* Workers that stay at the drawer, or come to it.
<1>4. \A w \in Worker : At(w, "drawer")' =>
        /\ req'[w] = req[w] /\ req[w].order \in Order
        /\ Settled(req[w].order)' /\ payments'[req[w].order].cash > 0
        /\ drawer[req[w].order] = 0
        /\ \/ At(w, "drawer") /\ ~OpenDrawer(w)
           \/ CloseOrder(w) /\ ~Settled(req[w].order)
  BY <1>1, <1>2, <1>3, DrawerWorkers DEF DrawerPending
<1>5. ASSUME NEW v \in Worker, NEW w \in Worker, v # w, CloseOrder(v), CloseOrder(w) PROVE FALSE
  <2>1. Step(v) /\ req[w] # None /\ pc[w] = "commit" /\ pc'[w] # "commit"
    BY <1>0, <1>5 DEF CloseOrder, Committing, At, Step, Commit, Leave, WorkTypes
  <2> QED
    BY <1>5, <2>1, StepWrites DEF Alone
<1>6. ASSUME NEW v \in Worker, NEW w \in Worker, v # w, At(v, "drawer")', At(w, "drawer")'
      PROVE  req[v].order # req[w].order
  <2>1. CASE At(v, "drawer") /\ At(w, "drawer")
    BY <1>6, <2>1 DEF DrawerPending
  <2>2. CASE At(v, "drawer") /\ ~Settled(req[w].order)
    BY <2>2 DEF DrawerPending
  <2>3. CASE At(w, "drawer") /\ ~Settled(req[v].order)
    BY <2>3 DEF DrawerPending
  <2> QED
    BY <1>4, <1>5, <1>6, <2>1, <2>2, <2>3
<1>7. CASE drawer' = drawer
  BY <1>2, <1>4, <1>6, <1>7 DEF DrawerPending, DrawerOnce
<1>8. CASE drawer' # drawer
  <2>1. PICK u \in Worker : OpenDrawer(u)
    BY <1>8, NextSteps
    DEF Step, Begin, Statement, LockOrder, LockCash, TakeNumber, ClaimSlot, StoreKey, RefuseOrder,
        RefuseCash, RefuseSlot, ReplayAfterConflict, Abort, Refuse, Commit, CreateOrder, AddLine,
        UpdateLine, RemoveLine, CloseOrder, VoidOrder, RefundOrder, OpenSession, AddMovement,
        AddCount, CloseSession, ExpireKey, vars
  <2> DEFINE n == req[u].order
  <2>2. /\ At(u, "drawer") /\ n \in Order /\ drawer' = [drawer EXCEPT ![n] = 1]
        /\ Settled(n) /\ payments[n].cash > 0 /\ UNCHANGED <<orders, payments>>
    <3>1. At(u, "drawer") /\ drawer' = [drawer EXCEPT ![n] = @ + 1] /\ UNCHANGED orderVars
      BY <2>1 DEF OpenDrawer
    <3>2. n \in Order /\ drawer[n] = 0 /\ Settled(n) /\ payments[n].cash > 0
      BY <1>1, <3>1 DEF DrawerPending
    <3> QED
      BY <3>1, <3>2 DEF orderVars
  <2>3. DrawerOnce'
    BY <1>0, <2>2 DEF DrawerOnce, Settled
  <2>4. ASSUME NEW w \in Worker, At(w, "drawer")' PROVE At(w, "drawer") /\ w # u
    BY <1>4, <1>8, <2>1, <2>4, DrawerWorkers DEF CloseOrder
  <2>5. ASSUME NEW w \in Worker, At(w, "drawer")' PROVE drawer'[req'[w].order] = 0
    <3>1. At(w, "drawer") /\ w # u /\ req'[w] = req[w] /\ req[w].order \in Order
          /\ drawer[req[w].order] = 0
      BY <1>4, <2>4, <2>5
    <3>2. req[w].order # n
      BY <2>2, <3>1 DEF DrawerPending
    <3> QED
      BY <1>0, <2>2, <3>1, <3>2
  <2>6. DrawerPending'
    BY <1>4, <1>6, <2>5 DEF DrawerPending
  <2> QED
    BY <2>3, <2>6
<1> QED
  BY <1>7, <1>8

\* A sale opens its drawer at most once, and only if it was charged in cash,
\* whatever is retried and whatever crashes after the commit.
THEOREM DrawerOnceHolds == Spec => []DrawerOnce
<1>1. Init => DrawerPending /\ DrawerOnce
  BY InitDrawer
<1>2. IInv /\ (DrawerPending /\ DrawerOnce) /\ [Next]_vars => (DrawerPending /\ DrawerOnce)'
  BY NextDrawer
<1> QED
  BY <1>1, <1>2, Invariance, PTL DEF Spec

-----------------------------------------------------------------------------
(* The ledger. *)

\* The cash an order has brought into the session s.
Brought(s) == [o \in Order |-> IF orders[o].sess = s THEN CashFlow(o) ELSE 0]

LEMMA CashFlowInt ==
  ASSUME OrderTypes, NEW o \in Order
  PROVE  CashFlow(o) \in Int
<1>1. orders[o].total \in Int /\ payments[o].cash \in Nat
  BY DEF OrderTypes
<1> QED
  BY <1>1 DEF CashFlow

\* What a session should hold, as a sum over all orders.
ExpectedIsSum ==
  \A s \in Session :
    /\ \A o \in Order : Brought(s)[o] \in Int
    /\ SumFunctionOnSet(Brought(s), Order) \in Int
    /\ Expected(s) = sessions[s].opening + SumFunctionOnSet(Brought(s), Order) + moves[s]

LEMMA ExpectedSum == OrderTypes => ExpectedIsSum
<1> SUFFICES ASSUME OrderTypes, NEW s \in Session
             PROVE  /\ \A o \in Order : Brought(s)[o] \in Int
                    /\ SumFunctionOnSet(Brought(s), Order) \in Int
                    /\ Expected(s) = sessions[s].opening
                                      + SumFunctionOnSet(Brought(s), Order) + moves[s]
  BY DEF ExpectedIsSum
<1> DEFINE S == {p \in Order : orders[p].sess = s}
           f == [o \in S |-> CashFlow(o)]
           g == Brought(s)
<1>1. \A o \in Order : g[o] \in Int
  BY CashFlowInt DEF Brought
<1>2. IsFiniteSet(S)
  BY OrderAssumption, FS_Subset
<1>3. \A o \in S : f[o] = g[o]
  BY DEF Brought
<1>4. \A o \in Order \ S : g[o] = 0
  BY DEF Brought
<1>5. DOMAIN f = S
  OBVIOUS
<1> HIDE DEF f, g
<1>6. SumFunctionOnSet(f, S) = SumFunctionOnSet(g, S)
  BY <1>2, <1>3, SumSame
<1> DEFINE T == S
<1>6a. T \in SUBSET Order
  OBVIOUS
<1> HIDE DEF T
<1>7. SumFunctionOnSet(g, Order) = SumFunctionOnSet(g, T)
  BY <1>1, <1>4, <1>6a, OrderAssumption, SumSkips DEF T
<1>8. SumFunctionOnSet(g, Order) \in Int
  BY <1>1, OrderAssumption, SumInt
<1>9. SumFunction(f) = SumFunctionOnSet(g, Order)
  BY <1>5, <1>6, <1>7 DEF SumFunction, T
<1> QED
  BY <1>1, <1>8, <1>9 DEF Expected, f, g

\* The same in the next state.
LEMMA ExpectedSumNext == OrderTypes' => ExpectedIsSum'
BY ExpectedSum, PTL

-----------------------------------------------------------------------------

LEMMA ReceiptNull ==
  ASSUME IInv, PaidExactly, NEW o \in Order
  PROVE  /\ Receipts[o] = Receipt(o)
         /\ Settled(o) => Receipts[o] # None
         /\ ~Settled(o) => Receipts[o] = None
<1>0. OrderTypes
  BY DEF IInv, TypeOK
<1>1. Receipts[o] = Receipt(o)
  BY DEF Receipts
<1>2. Settled(o) => Receipt(o) \in [session : Session, units : Int, total : Int, cash : Nat]
  <2> SUFFICES ASSUME Settled(o)
               PROVE  Receipt(o) \in [session : Session, units : Int, total : Int, cash : Nat]
    OBVIOUS
  <2>1. orders[o].sess \in Session /\ orders[o].total \in Int /\ payments[o].cash \in Nat
    BY <1>0 DEF Settled, OrderTypes
  <2>2. LineSum(lines[o]) \in Int
    BY <2>1 DEF PaidExactly
  <2> QED
    BY <2>1, <2>2 DEF Receipt
<1>3. ~Settled(o) => Receipt(o) = None
  BY DEF Receipt
<1> QED
  BY <1>1, <1>2, <1>3, NullAssumption

\* Orders that keep what settled them keep their receipts.
LEMMA ReceiptsKept ==
  ASSUME NEW S, S \subseteq Order,
         \A o \in S : /\ orders'[o].sess = orders[o].sess /\ orders'[o].total = orders[o].total
                      /\ payments'[o] = payments[o]
                      /\ lines'[o] = lines[o] \/ ~Settled(o)
  PROVE  \A o \in S : Receipts'[o] = Receipts[o]
BY DEF Receipts, Receipt, Settled

LEMMA BooksSame ==
  ASSUME UNCHANGED <<tickets, sequences>>
  PROVE  Books' = Books
BY DEF Books, Numbered

LEMMA TillsSame ==
  ASSUME UNCHANGED sessions
  PROVE  Tills' = Tills /\ (UNCHANGED expected => Zetas' = Zetas)
BY DEF Tills, OpenAt, Zetas

LEMMA AnswersSame ==
  ASSUME UNCHANGED keyVars
  PROVE  Answers' = Answers
BY DEF Answers, keyVars

\* No amount of money moves.
LEMMA CashSame ==
  ASSUME UNCHANGED <<sessions, moves>>,
         \A o \in Order : /\ orders'[o].sess = orders[o].sess /\ orders'[o].total = orders[o].total
                          /\ payments'[o] = payments[o]
  PROVE  Cash' = Cash
<1>1. \A s : Expected(s)' = Expected(s)
  BY ExpectedSame
<1> QED
  BY <1>1 DEF Cash

\* The commit that freezes a key gives the ledger its answer.
LEMMA FreezeAnswers ==
  ASSUME IInv, AppliedOnce, NEW v \in Worker, At(v, "commit"), NEW n \in Nat, Freeze(v, n)
  PROVE  L!Answer(n)
<1>0. KeyTypes
  BY DEF IInv, TypeOK
<1>1. CASE req[v].key = None
  BY <1>1, AnswersSame DEF Freeze, L!Answer
<1>2. CASE req[v].key # None
  <2> DEFINE k == req[v].key
  <2>1. keys[k] = None /\ k \in Key
    BY <1>2, CommitHolds DEF KeyFree, WellFormed
  <2>2. applied[k] = 0 /\ Answers[k] = None
    BY <2>1 DEF AppliedOnce, Answers
  <2>3. [req |-> req[v], answer |-> n] # None
    <3>1. req[v] \in Request
      BY CommitHolds
    <3> QED
      BY ONLY <3>1, n \in Nat, NoneAssumption
  <2>4. /\ keys' = [keys EXCEPT ![k] = [req |-> req[v], answer |-> n]]
        /\ applied' = [applied EXCEPT ![k] = @ + 1]
    BY <1>2 DEF Freeze
  <2>5. keys'[k] = [req |-> req[v], answer |-> n] /\ applied'[k] = 1
    BY <1>0, <2>1, <2>2, <2>4 DEF KeyTypes
  <2>6. Answers' = [Answers EXCEPT ![k] = [text |-> n, effects |-> 1]]
    <3>1. \A x \in Key \ {k} : keys'[x] = keys[x] /\ applied'[x] = applied[x]
      BY <1>0, <2>4 DEF KeyTypes
    <3>2. \A x \in Key \ {k} : Answers'[x] = Answers[x]
      BY <3>1 DEF Answers
    <3>3. Answers'[k] = [text |-> n, effects |-> 1]
      BY <2>1, <2>3, <2>5 DEF Answers
    <3>4. DOMAIN Answers = Key /\ DOMAIN Answers' = Key
      BY DEF Answers
    <3>5. Answers = [x \in Key |-> Answers[x]] /\ Answers' = [x \in Key |-> Answers'[x]]
      BY DEF Answers
    <3> HIDE DEF k
    <3> QED
      BY <3>2, <3>3, <3>4, <3>5
  <2> QED
    BY <2>1, <2>2, <2>6 DEF L!Answer
<1> QED
  BY <1>1, <1>2

-----------------------------------------------------------------------------
(* The entries of the ledger. *)

\* An order has no number and no total until it is settled.
Unnumbered == \A o \in Order : ~Settled(o) => tickets[o] = 0 /\ orders[o].total = 0

\* What is given back has no line that could be given back again.
RefundSigns == \A o \in Order : orders[o].total < 0 => \A l \in Line : lines[o][l] <= 0

\* No sale and no movement belongs to a session that was never opened.
Unopened ==
  \A s \in Session : sessions[s].status = "none" =>
    moves[s] = 0 /\ \A o \in Order : orders[o].sess # s

LInv == /\ IInv /\ PaidExactly /\ TicketsBounded /\ TicketsUnique /\ OneOpenPerTerminal
        /\ AppliedOnce /\ Unnumbered /\ RefundSigns /\ Unopened

\* The receipt that a charge or a refund writes.
Written(v) ==
  [session |-> req[v].sess, units |-> calc[v], total |-> calc[v], cash |-> req[v].cash]

LEMMA SettleReceipt ==
  ASSUME LInv, NEW v \in Worker, At(v, "commit"), req[v].op \in SettleOp, NEW n \in Order, NEW e,
         Settle(v, n, e), orders[n].status \in {"none", "draft"}, ~Settled(n),
         LineSum(lines'[n]) = calc[v], \A o \in Order \ {n} : lines'[o] = lines[o]
  PROVE  /\ Receipts[n] = None /\ Receipts'[n] = Written(v) /\ Written(v) # None
         /\ Receipts' = [Receipts EXCEPT ![n] = Written(v)]
         /\ Cancelled' = Cancelled
<1>0. OrderTypes /\ IInv /\ PaidExactly
  BY DEF LInv, IInv, TypeOK
<1>1. /\ req[v].sess \in Session /\ req[v].cash \in Nat /\ calc[v] \in Int
      /\ req[v].sess # None
  BY <1>0, SettleFacts, NoneAssumption DEF WellFormed, SettleOp
<1>2. /\ orders'[n].sess = req[v].sess /\ orders'[n].total = calc[v] /\ orders'[n].status = "paid"
      /\ payments'[n].cash = req[v].cash
  BY <1>0 DEF Settle, OrderTypes
<1>3. \A o \in Order \ {n} : orders'[o] = orders[o] /\ payments'[o] = payments[o]
  BY <1>0 DEF Settle, OrderTypes
<1>4. Receipts'[n] = Written(v)
  BY <1>1, <1>2 DEF Receipts, Receipt, Settled, Written
<1>5. \A o \in Order \ {n} : Receipts'[o] = Receipts[o]
  BY <1>3 DEF Receipts, Receipt, Settled
<1>6. Receipts = [o \in Order |-> Receipts[o]] /\ Receipts' = [o \in Order |-> Receipts'[o]]
  BY DEF Receipts
<1>7. Receipts' = [Receipts EXCEPT ![n] = Written(v)]
  BY <1>4, <1>5, <1>6
<1>8. Written(v) \in [session : Session, units : Int, total : Int, cash : Nat]
  BY <1>1 DEF Written
<1>9. Written(v) # None
  BY ONLY <1>8, NullAssumption
<1>10. Receipts[n] = None
  BY DEF Receipts, Receipt
<1>11. Cancelled' = Cancelled
  BY <1>2, <1>3 DEF Cancelled, Settled
<1> QED
  BY <1>4, <1>7, <1>9, <1>10, <1>11

\* The number it took is the next one of the book.
LEMMA SettleBook ==
  ASSUME LInv, NEW v \in Worker, At(v, "commit"), req[v].op \in SettleOp, NEW n \in Order, NEW e,
         Settle(v, n, e), ~Settled(n), OrderTerminal[n] = OrderTerminal[req[v].order]
  PROVE  /\ Books' = [Books EXCEPT ![OrderTerminal[n]] = Append(@, n)]
         /\ Len(Books'[OrderTerminal[n]]) = num[v]
<1>a. PICK t \in Terminal : t = OrderTerminal[n]
  BY TerminalAssumption
<1>b. PICK q \in Nat : q = sequences[t]
  BY DEF LInv, IInv, TypeOK, OrderTypes
<1>0. /\ tickets \in [Order -> Nat] /\ sequences \in [Terminal -> Nat] /\ OrderTypes
      /\ tickets[n] = 0 /\ TicketsBounded
  BY DEF LInv, IInv, TypeOK, OrderTypes, Unnumbered
<1>1. num[v] = q + 1
  BY <1>a, <1>b, SettleFacts DEF LInv, NextNumber
<1>2. /\ tickets'[n] = q + 1 /\ \A o \in Order \ {n} : tickets'[o] = tickets[o]
      /\ sequences'[t] = q + 1 /\ \A u \in Terminal \ {t} : sequences'[u] = sequences[u]
  BY <1>a, <1>0, <1>1 DEF Settle
<1> DEFINE H(u, m) == {o \in Order : OrderTerminal[o] = u /\ tickets[o] = m}
           G(u, m) == {o \in Order : OrderTerminal[o] = u /\ tickets'[o] = m}
<1>3. ASSUME NEW u \in Terminal, NEW m \in 1..sequences[u]
      PROVE  Numbered(u, m)' = Numbered(u, m)
  <2>1. m # 0 /\ (u = t => m # q + 1) /\ sequences[u] \in Nat
    BY <1>0, <1>b
  <2>2. G(u, m) = H(u, m)
    BY <1>a, <1>0, <1>2, <2>1
  <2>3. Numbered(u, m) = IF Cardinality(H(u, m)) = 1 THEN CHOOSE o \in H(u, m) : TRUE ELSE None
    BY DEF Numbered
  <2>4. Numbered(u, m)' = IF Cardinality(G(u, m)) = 1 THEN CHOOSE o \in G(u, m) : TRUE ELSE None
    BY DEF Numbered
  <2> HIDE DEF G, H
  <2> QED
    BY <2>2, <2>3, <2>4
<1>4. Numbered(t, q + 1)' = n
  <2>1. \A o \in Order : OrderTerminal[o] = t => tickets[o] <= q /\ tickets[o] \in Nat
    BY <1>b, <1>0 DEF TicketsBounded
  <2>2. G(t, q + 1) = {n}
    BY <1>a, <1>0, <1>2, <2>1
  <2>3. Cardinality({n}) = 1 /\ (CHOOSE o \in {n} : TRUE) = n
    BY FS_Singleton
  <2> QED
    BY <2>2, <2>3 DEF Numbered
<1>5. \A u \in Terminal : /\ Books[u] = [m \in 1..sequences[u] |-> Numbered(u, m)]
                          /\ Books'[u] = [m \in 1..sequences'[u] |-> Numbered(u, m)']
  BY DEF Books
<1>6. ASSUME NEW u \in Terminal \ {t} PROVE Books'[u] = Books[u]
  <2>1. sequences'[u] = sequences[u] /\ \A m \in 1..sequences[u] : Numbered(u, m)' = Numbered(u, m)
    BY <1>2, <1>3
  <2>2. Books'[u] = [m \in 1..sequences[u] |-> Numbered(u, m)']
    BY <1>5, <2>1
  <2>3. Books[u] = [m \in 1..sequences[u] |-> Numbered(u, m)]
    BY <1>5
  <2> QED
    BY <2>1, <2>2, <2>3
<1>7. Books'[t] = Append(Books[t], n) /\ Len(Books'[t]) = q + 1
  <2>1. Books[t] = [m \in 1..q |-> Numbered(t, m)]
    BY <1>b, <1>0, <1>5
  <2>2. Books'[t] = [m \in 1..(q + 1) |-> Numbered(t, m)']
    BY <1>0, <1>2, <1>5
  <2>3. \A m \in 1..q : Numbered(t, m)' = Numbered(t, m)
    BY <1>b, <1>0, <1>3
  <2> DEFINE b == Books[t]
             c == Books'[t]
             S == Order \union {None}
  <2>4. \A m \in 1..q : Numbered(t, m) \in S
    <3> SUFFICES ASSUME NEW m \in 1..q, Cardinality(H(t, m)) = 1 PROVE Numbered(t, m) \in Order
      BY DEF Numbered
    <3>1. H(t, m) # {}
      BY FS_EmptySet
    <3> QED
      BY <3>1 DEF Numbered
  <2>5. b \in Seq(S) /\ Len(b) = q
    BY <1>0, <2>1, <2>4
  <2>6. c \in Seq(S) /\ Len(c) = q + 1
    BY <1>0, <1>4, <2>2, <2>3, <2>4
  <2>7. \A m \in 1..q : c[m] = b[m]
    BY <1>0, <2>1, <2>2, <2>3
  <2>8. c[q + 1] = n
    BY <1>0, <1>4, <2>2
  <2>9. n \in S
    OBVIOUS
  <2> HIDE DEF b, c, S
  <2> DEFINE a == Append(b, n)
  <2>10. a \in Seq(S) /\ Len(a) = q + 1 /\ (\A m \in 1..q : a[m] = b[m]) /\ a[q + 1] = n
    BY <2>5, <2>9, AppendProperties
  <2> HIDE DEF a
  <2>11. \A m \in 1..(q + 1) : c[m] = a[m]
    BY <1>0, <2>7, <2>8, <2>10
  <2>12. c = a
    BY <2>6, <2>10, <2>11, SeqEqual
  <2> QED
    BY <2>6, <2>12 DEF a, b, c
<1>8. Books = [u \in Terminal |-> Books[u]] /\ Books' = [u \in Terminal |-> Books'[u]]
  BY DEF Books
<1>9. Books' = [Books EXCEPT ![t] = Append(@, n)]
  BY <1>0, <1>6, <1>7, <1>8
<1> QED
  BY <1>a, <1>1, <1>7, <1>9

\* The cash of a charge enters the drawer of its session, that of a refund leaves it.
Flow(v) == IF calc[v] > 0 THEN req[v].cash ELSE -req[v].cash

LEMMA SettleCash ==
  ASSUME LInv, TypeOK', NEW v \in Worker, At(v, "commit"), req[v].op \in SettleOp,
         NEW n \in Order, NEW e, Settle(v, n, e), ~Settled(n), UNCHANGED cashVars
  PROVE  /\ Cash[req[v].sess] \in Int
         /\ Cash' = [Cash EXCEPT ![req[v].sess] = @ + Flow(v)]
<1>s. PICK s \in Session : s = req[v].sess
  BY SettleFacts DEF LInv, WellFormed, SettleOp
<1>0. /\ OrderTypes /\ OrderTypes' /\ CashTypes /\ s # None
      /\ req[v].cash \in Nat /\ calc[v] \in Int /\ calc[v] # 0
      /\ sessions[s].status = "open"
  <2>1. OrderTypes /\ OrderTypes' /\ CashTypes /\ s # None /\ IInv
    BY NoneAssumption DEF LInv, IInv, TypeOK
  <2>2. WellFormed(req[v]) /\ CashCheck(req[v]) /\ calc[v] \in Int /\ calc[v] = Due(req[v])
        /\ Paid(req[v]) > 0 /\ Paid(req[v]) \in Nat
    BY <2>1, SettleFacts
  <2>3. calc[v] # 0
    BY <2>2 DEF Due
  <2>4. req[v].cash \in Nat
    BY <2>2 DEF WellFormed
  <2>5. sessions[s].status = "open"
    BY <1>s, <2>2 DEF CashCheck, CashSessionForSale, SettleOp
  <2> QED
    BY <2>1, <2>2, <2>3, <2>4, <2>5
<1>1. /\ orders[n].sess = None /\ orders'[n].sess = s /\ orders'[n].total = calc[v]
      /\ payments'[n].cash = req[v].cash
      /\ \A o \in Order \ {n} : orders'[o] = orders[o] /\ payments'[o] = payments[o]
  BY <1>s, <1>0 DEF Settle, Settled, OrderTypes
<1>2. sessions' = sessions /\ moves' = moves
  BY DEF cashVars
<1>3. ASSUME NEW u \in Session \ {s} PROVE Expected(u)' = Expected(u)
  <2>1. u # None
    BY NoneAssumption
  <2> QED
    BY <1>1, <1>2, <2>1, ExpectedSame
<1>4. Expected(s) \in Int /\ Expected(s)' = Expected(s) + Flow(v)
  <2> DEFINE f == Brought(s)
             g == Brought(s)'
  <2>1. ExpectedIsSum /\ ExpectedIsSum'
    BY <1>0, ExpectedSum, ExpectedSumNext
  <2>2. /\ Expected(s) = sessions[s].opening + SumFunctionOnSet(f, Order) + moves[s]
        /\ SumFunctionOnSet(f, Order) \in Int
        /\ \A o \in Order : f[o] \in Int
    BY <2>1 DEF ExpectedIsSum
  <2>3. /\ Expected(s)' = sessions[s].opening + SumFunctionOnSet(g, Order) + moves[s]
        /\ \A o \in Order : g[o] \in Int
    BY <1>2, <2>1 DEF ExpectedIsSum
  <2>4. f[n] = 0 /\ g[n] = Flow(v)
    BY <1>0, <1>1 DEF Brought, CashFlow, Flow
  <2>5. \A o \in Order \ {n} : f[o] = g[o]
    BY <1>1 DEF Brought, CashFlow
  <2> HIDE DEF f, g
  <2>6. SumFunctionOnSet(g, Order) = SumFunctionOnSet(f, Order) - f[n] + g[n]
    BY <2>2, <2>3, <2>5, OrderAssumption, SumChanges
  <2>7. sessions[s].opening \in Int /\ moves[s] \in Int /\ Flow(v) \in Int
    BY <1>0 DEF CashTypes, Flow
  <2> QED
    BY <2>2, <2>3, <2>4, <2>6, <2>7
<1>5. Cash[s] = Expected(s) /\ Cash'[s] = Expected(s)'
  BY <1>0, <1>2 DEF Cash
<1>6. \A u \in Session \ {s} : Cash'[u] = Cash[u]
  BY <1>2, <1>3 DEF Cash
<1>7. Cash = [u \in Session |-> Cash[u]] /\ Cash' = [u \in Session |-> Cash'[u]]
  BY DEF Cash
<1>8. Cash' = [Cash EXCEPT ![s] = @ + Flow(v)]
  BY <1>4, <1>5, <1>6, <1>7
<1> QED
  BY <1>s, <1>4, <1>5, <1>8

\* The session of a charge is the one open at the terminal.
LEMMA TillOpen ==
  ASSUME OneOpenPerTerminal, NEW s \in Session, sessions[s].status = "open"
  PROVE  Tills[SessionTerminal[s]] = s
<1> DEFINE t == SessionTerminal[s]
<1>1. {u \in Session : sessions[u].status = "open" /\ SessionTerminal[u] = t} = {s}
  BY DEF OneOpenPerTerminal
<1>2. OpenAt(t) = s
  BY <1>1 DEF OpenAt
<1> QED
  BY <1>2, TerminalAssumption DEF Tills

\* A charge or a refund is entered in the book and in the drawer at once.
LEMMA SettleEnters ==
  ASSUME LInv, TypeOK', NEW v \in Worker, At(v, "commit"), req[v].op \in SettleOp,
         NEW n \in Order, NEW e, Settle(v, n, e), orders[n].status \in {"none", "draft"},
         ~Settled(n), OrderTerminal[n] = OrderTerminal[req[v].order],
         LineSum(lines'[n]) = calc[v], \A o \in Order \ {n} : lines'[o] = lines[o],
         UNCHANGED cashVars
  PROVE  /\ L!Enter(n)
         /\ Receipts'[n] = Written(v)
         /\ Cash' = [Cash EXCEPT ![req[v].sess] = @ + Flow(v)]
         /\ Len(Books'[OrderTerminal[n]]) = num[v]
         /\ UNCHANGED <<Cancelled, Tills, Zetas>>
<1>1. /\ Receipts[n] = None /\ Receipts'[n] = Written(v) /\ Written(v) # None
      /\ Receipts' = [Receipts EXCEPT ![n] = Written(v)]
      /\ Cancelled' = Cancelled
  BY SettleReceipt
<1>2. /\ Books' = [Books EXCEPT ![OrderTerminal[n]] = Append(@, n)]
      /\ Len(Books'[OrderTerminal[n]]) = num[v]
  BY SettleBook
<1>3. Cash' = [Cash EXCEPT ![req[v].sess] = @ + Flow(v)]
  BY SettleCash
<1>4. UNCHANGED <<Tills, Zetas>>
  BY TillsSame DEF cashVars
<1>5. Tills[OrderTerminal[n]] = req[v].sess /\ req[v].sess # None
  <2>1. WellFormed(req[v]) /\ CashCheck(req[v])
    BY SettleFacts DEF LInv
  <2>2. req[v].sess \in Session /\ req[v].sess # None
    BY <2>1, NoneAssumption DEF WellFormed
  <2>3. sessions[req[v].sess].status = "open"
        /\ SessionTerminal[req[v].sess] = OrderTerminal[req[v].order]
    BY <2>1 DEF CashCheck, CashSessionForSale, SettleOp
  <2> QED
    BY <2>2, <2>3, TillOpen DEF LInv
<1>6. L!Enter(n)
  BY <1>1, <1>2, <1>5 DEF L!Enter, Written
<1> QED
  BY <1>1, <1>2, <1>3, <1>4, <1>6

LEMMA CloseOrderSells ==
  ASSUME LInv, TypeOK', NEW v \in Worker, CloseOrder(v)
  PROVE  \E o \in Order : L!Sell(o)
<1> DEFINE o == req[v].order
<1>0. At(v, "commit") /\ req[v].op = "close_order" /\ req[v].op \in SettleOp /\ IInv
  BY DEF CloseOrder, Committing, SettleOp, LInv
<1>1. /\ WellFormed(req[v]) /\ OrderCheck(req[v]) /\ calc[v] = Amount(req[v])
      /\ calc[v] = Due(req[v]) /\ Paid(req[v]) > 0 /\ num[v] = NextNumber(OrderTerminal[o])
  BY <1>0, SettleFacts
<1>2. o \in Order /\ req[v].cash \in Nat /\ req[v].card \in Nat
  BY <1>0, <1>1 DEF WellFormed, OrderOp
<1>3. orders[o].status = "draft" /\ ~Settled(o) /\ calc[v] = LineSum(lines[o])
  BY <1>0, <1>1, <1>2 DEF OrderCheck, EnsureDraft, Amount, IInv, Unsettled
<1>4. Settle(v, o, "sale_closed") /\ Freeze(v, num[v]) /\ lines' = lines /\ refunds' = refunds
      /\ UNCHANGED cashVars
  BY DEF CloseOrder
<1>5. /\ L!Enter(o) /\ Receipts'[o] = Written(v)
      /\ Cash' = [Cash EXCEPT ![req[v].sess] = @ + Flow(v)]
      /\ Len(Books'[OrderTerminal[o]]) = num[v]
      /\ UNCHANGED <<Cancelled, Tills, Zetas>>
  BY <1>0, <1>2, <1>3, <1>4, SettleEnters
<1>6. calc[v] > 0 /\ req[v].cash \in 0..calc[v]
  BY <1>0, <1>1, <1>2 DEF Due, Paid
<1>7. num[v] \in Nat
  BY DEF LInv, IInv, TypeOK, WorkTypes
<1>8. L!Answer(num[v])
  BY <1>0, <1>4, <1>7, FreezeAnswers DEF LInv
<1> HIDE DEF o
<1>9. /\ Receipts'[o].session = req[v].sess /\ Receipts'[o].total = calc[v]
      /\ Receipts'[o].cash = req[v].cash
  BY <1>5 DEF Written
<1>10. Cash' = [Cash EXCEPT ![Receipts'[o].session] = @ + Receipts'[o].cash]
  BY <1>5, <1>6, <1>9 DEF Flow
<1>11. L!Sell(o)
  BY <1>4, <1>5, <1>6, <1>8, <1>9, <1>10 DEF L!Sell
<1> QED
  BY <1>2, <1>11

LEMMA RefundGivesBack ==
  ASSUME LInv, TypeOK', NEW v \in Worker, RefundOrder(v)
  PROVE  \E o \in Order, n \in Order : L!GiveBack(o, n)
<1> DEFINE o == req[v].order
<1>0. At(v, "commit") /\ req[v].op = "refund_order" /\ req[v].op \in SettleOp /\ IInv
  BY DEF RefundOrder, Committing, SettleOp, LInv
<1>1. /\ WellFormed(req[v]) /\ OrderCheck(req[v]) /\ CashCheck(req[v]) /\ calc[v] = Amount(req[v])
      /\ calc[v] = Due(req[v]) /\ Paid(req[v]) > 0
  BY <1>0, SettleFacts
<1>2. o \in Order /\ req[v].cash \in Nat /\ req[v].card \in Nat
  BY <1>0, <1>1 DEF WellFormed, OrderOp
<1>3. orders[o].status = "paid" /\ refunds[o] = None /\ Settled(o) /\ ItemsSold(req[v])
  BY <1>0, <1>1, <1>2 DEF OrderCheck, CashCheck, IInv, Unsettled
<1>4. PICK n \in FreshOrder(OrderTerminal[o]) :
        /\ Settle(v, n, "refund_issued")
        /\ lines' = [lines EXCEPT ![n] = RefundLines(req[v])]
        /\ refunds' = [refunds EXCEPT ![o] = n]
  BY DEF RefundOrder
<1>5. n \in Order /\ orders[n].status = "none" /\ OrderTerminal[n] = OrderTerminal[o] /\ ~Settled(n)
  BY <1>0 DEF FreshOrder, IInv, Unsettled
<1>6. lines'[n] = RefundLines(req[v]) /\ \A p \in Order \ {n} : lines'[p] = lines[p]
  BY <1>0, <1>4, <1>5 DEF IInv, TypeOK, OrderTypes
<1>7. LineSum(lines'[n]) = calc[v]
  BY <1>0, <1>1, <1>6 DEF Amount
<1>8. UNCHANGED cashVars /\ UNCHANGED keyVars
  BY DEF RefundOrder
<1>9. /\ L!Enter(n) /\ Receipts'[n] = Written(v)
      /\ Cash' = [Cash EXCEPT ![req[v].sess] = @ + Flow(v)]
      /\ UNCHANGED <<Cancelled, Tills, Zetas>>
  BY <1>0, <1>4, <1>5, <1>6, <1>7, <1>8, SettleEnters
<1>10. calc[v] < 0 /\ req[v].cash \in 0..(-calc[v]) /\ calc[v] \in Int
  BY <1>0, <1>1, <1>2 DEF Due, Paid
<1>11. orders[o].total > 0
  <2>1. /\ req[v].items \in Seq([line : Line, qty : Nat \ {0}]) /\ Len(req[v].items) \in Line
    BY <1>0, <1>1 DEF WellFormed
  <2>2. 1 \in 1..Len(req[v].items)
    BY <2>1, LineAssumption DEF Line
  <2>3. /\ req[v].items[1] \in [line : Line, qty : Nat \ {0}]
        /\ req[v].items[1].qty <= lines[o][req[v].items[1].line]
    <3>1. req[v].items[1] \in [line : Line, qty : Nat \ {0}]
      BY ONLY <2>1, <2>2, ElementOfSeq
    <3> QED
      BY <1>3, <2>2, <3>1 DEF ItemsSold
  <2> DEFINE l == req[v].items[1].line
  <2>a. lines \in [Order -> [Line -> Int]]
    BY <1>0 DEF IInv, TypeOK, OrderTypes
  <2>b. l \in Line /\ req[v].items[1].qty \in Nat \ {0} /\ req[v].items[1].qty <= lines[o][l]
    BY <2>3
  <2> HIDE DEF l
  <2>4. l \in Line /\ lines[o][l] \in Int /\ lines[o][l] > 0
    BY <1>2, <2>a, <2>b
  <2>5. ~(orders[o].total < 0)
    BY <1>2, <2>4 DEF LInv, RefundSigns
  <2>6. orders[o].total # 0 /\ orders[o].total \in Int
    BY <1>0, <1>2, <1>3 DEF LInv, PaidExactly, IInv, TypeOK, OrderTypes
  <2> QED
    BY <2>5, <2>6
<1>12. Receipts[o] # None /\ Receipts[o].total > 0 /\ o \notin Cancelled
  <2>1. Receipts[o] = Receipt(o) /\ Receipts[o] # None
    BY <1>2, <1>3, ReceiptNull DEF LInv
  <2>2. Receipts[o].total = orders[o].total
    BY <1>3, <2>1 DEF Receipt
  <2>3. o \notin Cancelled
    BY <1>3 DEF Cancelled
  <2> QED
    BY <1>11, <2>1, <2>2, <2>3
<1>13. UNCHANGED Answers
  BY <1>8, AnswersSame
<1> HIDE DEF o
<1>14. /\ Receipts'[n].session = req[v].sess /\ Receipts'[n].total = calc[v]
       /\ Receipts'[n].cash = req[v].cash
  BY <1>9 DEF Written
<1>15. Flow(v) = -req[v].cash
  BY <1>10 DEF Flow
<1>16. Cash' = [Cash EXCEPT ![Receipts'[n].session] = @ - Receipts'[n].cash]
  <2>1. Cash[req[v].sess] \in Int
    BY <1>0, <1>4, <1>5, <1>8, SettleCash
  <2>2. Cash[req[v].sess] + Flow(v) = Cash[req[v].sess] - req[v].cash
    BY <1>2, <1>15, <2>1
  <2> QED
    BY <1>9, <1>14, <2>2
<1>17. L!GiveBack(o, n)
  BY <1>3, <1>4, <1>5, <1>9, <1>10, <1>12, <1>13, <1>14, <1>16 DEF L!GiveBack
<1> QED
  BY <1>2, <1>5, <1>17

LEMMA VoidCancels ==
  ASSUME LInv, NEW v \in Worker, VoidOrder(v)
  PROVE  \/ UNCHANGED <<Receipts, Books, refunds, Cancelled, Tills, Cash, Zetas, Answers>>
         \/ \E o \in Order : L!Cancel(o)
<1> DEFINE o == req[v].order
<1>0. OrderTypes /\ IInv /\ PaidExactly /\ Unsettled
  BY DEF LInv, IInv, TypeOK
<1>1. /\ o \in Order /\ orders[o].status \in {"draft", "paid"}
      /\ orders' = [orders EXCEPT ![o].status = "voided"]
  BY <1>0, Edits
<1>2. UNCHANGED <<lines, payments, refunds, tickets, sequences>> /\ UNCHANGED cashVars
      /\ UNCHANGED keyVars
  BY DEF VoidOrder
<1> HIDE DEF o
<1>3. \A p \in Order : /\ orders'[p].sess = orders[p].sess /\ orders'[p].total = orders[p].total
                       /\ payments'[p] = payments[p] /\ lines'[p] = lines[p]
                       /\ orders'[p].status = IF p = o THEN "voided" ELSE orders[p].status
  BY <1>0, <1>1, <1>2 DEF OrderTypes
<1>4. UNCHANGED <<Receipts, Books, Tills, Cash, Zetas, Answers>>
  <2>1. Receipts' = Receipts
    <3>1. \A p \in Order : Receipts'[p] = Receipts[p]
      BY <1>3, ReceiptsKept
    <3>2. Receipts = [p \in Order |-> Receipts[p]] /\ Receipts' = [p \in Order |-> Receipts'[p]]
      BY DEF Receipts
    <3> QED
      BY <3>1, <3>2
  <2>2. Cash' = Cash
    BY <1>2, <1>3, CashSame DEF cashVars
  <2> QED
    BY <1>2, <2>1, <2>2, BooksSame, TillsSame, AnswersSame DEF cashVars
<1>5. CASE Settled(o)
  <2>1. orders[o].status = "paid" /\ o \notin Cancelled
    BY <1>0, <1>1, <1>5 DEF Cancelled, Unsettled
  <2>2. Cancelled' = Cancelled \union {o}
    BY <1>1, <1>3, <1>5 DEF Cancelled, Settled
  <2>3. Receipts[o] # None
    BY <1>0, <1>1, <1>5, ReceiptNull
  <2>4. L!Cancel(o)
    BY <1>2, <1>4, <2>1, <2>2, <2>3 DEF L!Cancel
  <2> QED
    BY <1>1, <2>4
<1>6. CASE ~Settled(o)
  <2>1. Cancelled' = Cancelled
    BY <1>1, <1>3, <1>6 DEF Cancelled, Settled
  <2> QED
    BY <1>2, <1>4, <2>1
<1> QED
  BY <1>5, <1>6

\* New orders and new or edited lines write no receipt.
LEMMA EditsNote ==
  ASSUME LInv, NEW v \in Worker,
         CreateOrder(v) \/ AddLine(v) \/ UpdateLine(v) \/ RemoveLine(v)
  PROVE  L!Note
<1>0. OrderTypes /\ IInv /\ AppliedOnce /\ Unsettled
  BY DEF LInv, IInv, TypeOK
<1>1. At(v, "commit")
  BY DEF CreateOrder, AddLine, UpdateLine, RemoveLine, Committing
<1>2. UNCHANGED <<payments, refunds, tickets, sequences>> /\ UNCHANGED cashVars
  BY DEF CreateOrder, AddLine, UpdateLine, RemoveLine
<1>3. L!Answer(0)
  <2>1. Freeze(v, 0) \/ UNCHANGED keyVars
    BY DEF CreateOrder, AddLine, UpdateLine, RemoveLine
  <2>2. CASE UNCHANGED keyVars
    BY <2>2, AnswersSame DEF L!Answer
  <2>3. CASE Freeze(v, 0)
    BY <1>0, <1>1, <2>3, FreezeAnswers
  <2> QED
    BY <2>1, <2>2, <2>3
<1>4. /\ \A p \in Order : /\ orders'[p].sess = orders[p].sess /\ orders'[p].total = orders[p].total
                          /\ lines'[p] = lines[p] \/ ~Settled(p)
                          /\ Settled(p) => orders'[p].status = orders[p].status
  <2>1. CASE CreateOrder(v)
    <3>1. PICK o \in FreshOrder(req[v].term) :
            orders' = [orders EXCEPT ![o].status = "draft", ![o].table = req[v].table]
      BY <2>1 DEF CreateOrder
    <3>2. o \in Order /\ ~Settled(o)
      BY <1>0 DEF FreshOrder, Unsettled
    <3>3. lines' = lines
      BY <2>1 DEF CreateOrder
    <3> QED
      BY <1>0, <3>1, <3>2, <3>3 DEF OrderTypes
  <2>2. CASE AddLine(v) \/ UpdateLine(v) \/ RemoveLine(v)
    <3>1. ~Settled(req[v].order) /\ \A o \in Order \ {req[v].order} : lines'[o] = lines[o]
      BY <1>0, <2>2, Edits
    <3>2. orders' = orders
      BY <2>2 DEF AddLine, UpdateLine, RemoveLine
    <3> QED
      BY <3>1, <3>2
  <2> QED
    BY <2>1, <2>2
<1>5. Receipts' = Receipts
  <2>1. \A p \in Order : Receipts'[p] = Receipts[p]
    BY <1>2, <1>4, ReceiptsKept
  <2>2. Receipts = [p \in Order |-> Receipts[p]] /\ Receipts' = [p \in Order |-> Receipts'[p]]
    BY DEF Receipts
  <2> QED
    BY <2>1, <2>2
<1>6. Cash' = Cash
  BY <1>2, <1>4, CashSame DEF cashVars
<1>7. Cancelled' = Cancelled
  BY <1>4 DEF Cancelled, Settled
<1> QED
  BY <1>2, <1>3, <1>5, <1>6, <1>7, BooksSame, TillsSame DEF cashVars, L!Note

LEMMA OpenSessionOpens ==
  ASSUME LInv, TypeOK', NEW v \in Worker, OpenSession(v)
  PROVE  \E s \in Session : L!OpenTill(s)
<1>0. At(v, "commit") /\ IInv /\ CashTypes /\ OrderTypes /\ req[v].op = "open_session"
  BY DEF OpenSession, Committing, LInv, IInv, TypeOK
<1>1. req[v].term \in Terminal /\ TillFree(req[v].term) /\ req[v].opening \in Nat
  BY <1>0, CommitHolds DEF WellFormed, BirthOp
<1>2. PICK s \in FreshSession(req[v].term) :
        sessions' = [sessions EXCEPT ![s].status = "open", ![s].opening = req[v].opening]
  BY DEF OpenSession
<1>t. PICK t \in Terminal : t = req[v].term
  BY <1>1
<1>3. s \in Session /\ sessions[s].status = "none" /\ SessionTerminal[s] = t /\ s # None
  BY <1>t, NoneAssumption DEF FreshSession
<1>4. /\ sessions'[s].status = "open" /\ sessions'[s].opening \in Nat
      /\ \A u \in Session \ {s} : sessions'[u] = sessions[u]
  BY <1>0, <1>1, <1>2, <1>3 DEF CashTypes
<1>5. UNCHANGED orderVars /\ UNCHANGED <<expected, moves>>
  BY DEF OpenSession
<1>6. UNCHANGED <<Receipts, Books, refunds, Cancelled>>
  BY <1>5, BooksSame DEF orderVars, Receipts, Receipt, Settled, Cancelled
<1>7. L!Answer(0)
  BY <1>0, FreezeAnswers DEF OpenSession, LInv
<1>8. Tills[t] = None /\ Tills' = [Tills EXCEPT ![t] = s]
  <2> DEFINE H(x) == {u \in Session : sessions[u].status = "open" /\ SessionTerminal[u] = x}
             G(x) == {u \in Session : sessions'[u].status = "open" /\ SessionTerminal[u] = x}
  <2>1. H(t) = {} /\ G(t) = {s}
    BY <1>1, <1>t, <1>3, <1>4 DEF TillFree
  <2>2. ASSUME NEW x \in Terminal \ {t} PROVE G(x) = H(x)
    BY <1>3, <1>4
  <2>3. \A x : OpenAt(x) = IF H(x) = {} THEN None ELSE CHOOSE u \in H(x) : TRUE
    BY DEF OpenAt
  <2>4. \A x : OpenAt(x)' = IF G(x) = {} THEN None ELSE CHOOSE u \in G(x) : TRUE
    BY DEF OpenAt
  <2>5. (CHOOSE u \in {s} : TRUE) = s
    OBVIOUS
  <2> HIDE DEF G, H
  <2>6. OpenAt(t) = None /\ OpenAt(t)' = s
    BY <2>1, <2>3, <2>4, <2>5
  <2>7. ASSUME NEW x \in Terminal \ {t} PROVE OpenAt(x)' = OpenAt(x)
    <3>1. G(x) = H(x)
      BY <2>2
    <3>2. OpenAt(x) = IF H(x) = {} THEN None ELSE CHOOSE u \in H(x) : TRUE
      BY <2>3
    <3>3. OpenAt(x)' = IF G(x) = {} THEN None ELSE CHOOSE u \in G(x) : TRUE
      BY <2>4
    <3> QED
      BY <3>1, <3>2, <3>3
  <2>8. Tills = [x \in Terminal |-> OpenAt(x)] /\ Tills' = [x \in Terminal |-> OpenAt(x)']
    BY DEF Tills
  <2> QED
    BY <2>6, <2>7, <2>8
<1>9. \A u \in Session \ {s} : Cash'[u] = Cash[u]
  <2>1. ASSUME NEW u \in Session \ {s} PROVE Expected(u)' = Expected(u)
    BY <1>4, <1>5, ExpectedSame DEF orderVars
  <2> QED
    BY <1>4, <2>1 DEF Cash
<1>10. Cash[s] = None /\ Cash'[s] = Expected(s)'
  BY <1>3, <1>4 DEF Cash
<1>11. Expected(s)' \in Nat
  <2>1. ExpectedIsSum' /\ \A o \in Order : orders[o].sess # s /\ moves[s] = 0
    BY <1>3, ExpectedSumNext DEF LInv, TypeOK, Unopened
  <2> DEFINE f == Brought(s)'
  <2>2. Expected(s)' = sessions'[s].opening + SumFunctionOnSet(f, Order) + moves'[s]
        /\ \A o \in Order : f[o] \in Int
    BY <1>3, <2>1 DEF ExpectedIsSum
  <2>3. \A o \in Order : f[o] = 0
    BY <1>5, <2>1 DEF Brought, orderVars
  <2> HIDE DEF f
  <2> DEFINE R == {}
  <2>4. R \in SUBSET Order /\ \A o \in Order \ R : f[o] = 0
    BY <2>3
  <2> HIDE DEF R
  <2>5. SumFunctionOnSet(f, Order) = SumFunctionOnSet(f, R)
    BY <2>2, <2>4, OrderAssumption, SumSkips
  <2>6. SumFunctionOnSet(f, R) = 0
    BY SumEmpty DEF R
  <2>7. moves'[s] = 0
    <3>1. moves[s] = 0
      BY <1>3 DEF LInv, Unopened
    <3> QED
      BY <1>5, <3>1
  <2> QED
    BY <1>4, <2>2, <2>5, <2>6, <2>7
<1>12. Cash'[s] # None /\ Cash'[s] >= 0
  BY <1>10, <1>11, NullAssumption
<1>13. Cash = [u \in Session |-> Cash[u]] /\ Cash' = [u \in Session |-> Cash'[u]]
  BY DEF Cash
<1>14. Cash' = [Cash EXCEPT ![s] = Cash'[s]]
  BY <1>9, <1>13
<1>15. UNCHANGED Zetas
  <2>1. \A u \in Session : /\ sessions'[u].status = "closed" <=> sessions[u].status = "closed"
                           /\ expected'[u] = expected[u]
    BY <1>3, <1>4, <1>5
  <2> QED
    BY <2>1 DEF Zetas
<1>16. L!OpenTill(s)
  BY <1>3, <1>6, <1>7, <1>8, <1>10, <1>12, <1>14, <1>15 DEF L!OpenTill
<1> QED
  BY <1>3, <1>16

LEMMA MovementMoves ==
  ASSUME LInv, NEW v \in Worker, AddMovement(v)
  PROVE  \E s \in Session : L!MoveCash(s)
<1>0. At(v, "commit") /\ IInv /\ CashTypes /\ req[v].op = "add_movement"
  BY DEF AddMovement, Committing, LInv, IInv, TypeOK
<1>1. PICK s \in Session : s = req[v].sess
  BY <1>0, CommitHolds DEF WellFormed, CashOp
<1>2. sessions[s].status = "open"
  BY <1>0, <1>1, CommitHolds DEF CashOp, CashCheck
<1>3. Tills[SessionTerminal[s]] = s
  BY <1>2, TillOpen DEF LInv
<1>4. UNCHANGED orderVars /\ UNCHANGED <<sessions, expected>>
      /\ \A u \in Session \ {s} : moves'[u] = moves[u]
  BY <1>0, <1>1 DEF AddMovement, CashTypes
<1>5. \A u \in Session \ {s} : Cash'[u] = Cash[u]
  <2>1. ASSUME NEW u \in Session \ {s} PROVE Expected(u)' = Expected(u)
    BY <1>4, ExpectedSame DEF orderVars
  <2> QED
    BY <1>4, <2>1 DEF Cash
<1>6. Cash = [u \in Session |-> Cash[u]] /\ Cash' = [u \in Session |-> Cash'[u]]
  BY DEF Cash
<1>7. Cash' = [Cash EXCEPT ![s] = Cash'[s]]
  BY <1>5, <1>6
<1>8. L!Answer(0)
  BY <1>0, FreezeAnswers DEF AddMovement, LInv
<1>9. UNCHANGED <<Receipts, Books, refunds, Cancelled>>
  BY <1>4, BooksSame DEF orderVars, Receipts, Receipt, Settled, Cancelled
<1>10. UNCHANGED <<Tills, Zetas>>
  BY <1>4, TillsSame
<1>11. L!MoveCash(s)
  BY <1>3, <1>7, <1>8, <1>9, <1>10 DEF L!MoveCash
<1> QED
  BY <1>11

LEMMA CloseSessionCloses ==
  ASSUME LInv, NEW v \in Worker, CloseSession(v)
  PROVE  \E s \in Session : L!CloseTill(s)
<1>0. At(v, "commit") /\ IInv /\ CashTypes /\ req[v].op = "close_session" /\ OneOpenPerTerminal
  BY DEF CloseSession, Committing, LInv, IInv, TypeOK
<1>1. PICK s \in Session : s = req[v].sess
  BY <1>0, CommitHolds DEF WellFormed, CashOp
<1>2. sessions[s].status = "open" /\ calc[v] = Expected(s)
  BY <1>0, <1>1, CommitHolds DEF CashOp, CashCheck, Amount
<1>3. Tills[SessionTerminal[s]] = s
  BY <1>0, <1>2, TillOpen
<1>t. PICK t \in Terminal : t = SessionTerminal[s]
  BY TerminalAssumption
<1>4. /\ sessions'[s].status = "closed" /\ sessions'[s].opening = sessions[s].opening
      /\ \A u \in Session \ {s} : sessions'[u] = sessions[u]
      /\ expected'[s] = Expected(s) /\ \A u \in Session \ {s} : expected'[u] = expected[u]
  BY <1>0, <1>1, <1>2 DEF CloseSession, CashTypes
<1>5. UNCHANGED orderVars /\ UNCHANGED moves /\ UNCHANGED keyVars
  BY DEF CloseSession
<1>6. UNCHANGED <<Receipts, Books, refunds, Cancelled, Answers>>
  BY <1>5, BooksSame, AnswersSame DEF orderVars, Receipts, Receipt, Settled, Cancelled
<1>7. Tills' = [Tills EXCEPT ![t] = None]
  <2> DEFINE H(x) == {u \in Session : sessions[u].status = "open" /\ SessionTerminal[u] = x}
             G(x) == {u \in Session : sessions'[u].status = "open" /\ SessionTerminal[u] = x}
  <2>1. G(t) = {}
    BY <1>0, <1>2, <1>t, <1>4 DEF OneOpenPerTerminal
  <2>2. ASSUME NEW x \in Terminal \ {t} PROVE G(x) = H(x)
    BY <1>t, <1>4
  <2>3. \A x : OpenAt(x) = IF H(x) = {} THEN None ELSE CHOOSE u \in H(x) : TRUE
    BY DEF OpenAt
  <2>4. \A x : OpenAt(x)' = IF G(x) = {} THEN None ELSE CHOOSE u \in G(x) : TRUE
    BY DEF OpenAt
  <2> HIDE DEF G, H
  <2>6. OpenAt(t)' = None
    BY <2>1, <2>4
  <2>7. ASSUME NEW x \in Terminal \ {t} PROVE OpenAt(x)' = OpenAt(x)
    <3>1. G(x) = H(x)
      BY <2>2
    <3>2. OpenAt(x) = IF H(x) = {} THEN None ELSE CHOOSE u \in H(x) : TRUE
      BY <2>3
    <3>3. OpenAt(x)' = IF G(x) = {} THEN None ELSE CHOOSE u \in G(x) : TRUE
      BY <2>4
    <3> QED
      BY <3>1, <3>2, <3>3
  <2>8. Tills = [x \in Terminal |-> OpenAt(x)] /\ Tills' = [x \in Terminal |-> OpenAt(x)']
    BY DEF Tills
  <2> QED
    BY <2>6, <2>7, <2>8
<1>8. UNCHANGED Cash
  <2>1. ASSUME NEW u \in Session PROVE Expected(u)' = Expected(u)
    BY <1>4, <1>5, ExpectedSame DEF orderVars
  <2>2. \A u \in Session : sessions'[u].status = "none" <=> sessions[u].status = "none"
    BY <1>2, <1>4
  <2> QED
    BY <2>1, <2>2 DEF Cash
<1>9. Zetas' = [Zetas EXCEPT ![s] = Cash[s]]
  <2>1. Zetas'[s] = Cash[s]
    BY <1>2, <1>4 DEF Zetas, Cash
  <2>2. \A u \in Session \ {s} : Zetas'[u] = Zetas[u]
    BY <1>4 DEF Zetas
  <2>3. Zetas = [u \in Session |-> Zetas[u]] /\ Zetas' = [u \in Session |-> Zetas'[u]]
    BY DEF Zetas
  <2> QED
    BY <2>1, <2>2, <2>3
<1>10. L!CloseTill(s)
  BY <1>3, <1>t, <1>6, <1>7, <1>8, <1>9 DEF L!CloseTill
<1> QED
  BY <1>10

-----------------------------------------------------------------------------
(* The invariant of the refinement. *)

LEMMA InitLInv == Init => LInv
<1> SUFFICES ASSUME Init PROVE LInv
  OBVIOUS
<1>1. IInv /\ PaidExactly /\ TicketsBounded /\ TicketsUnique /\ OneOpenPerTerminal /\ AppliedOnce
  BY InitInv, InitPaid, InitTickets, InitTills, InitApplied
<1>2. Unnumbered /\ RefundSigns
  BY DEF Init, NoOrder, Unnumbered, RefundSigns
<1>3. Unopened
  BY NoneAssumption DEF Init, NoOrder, Unopened
<1> QED
  BY <1>1, <1>2, <1>3 DEF LInv

\* An order that stays unsettled takes no number and no total.
LEMMA StillUnsettled ==
  ASSUME IInv, [Next]_vars, NEW o \in Order, ~Settled(o), ~Settled(o)'
  PROVE  tickets'[o] = tickets[o] /\ orders'[o].total = orders[o].total
<1>0. OrderTypes
  BY DEF IInv, TypeOK
<1>1. CASE UNCHANGED <<orders, tickets>>
  BY <1>1
<1>2. ASSUME NEW v \in Worker, CreateOrder(v)
      PROVE  tickets'[o] = tickets[o] /\ orders'[o].total = orders[o].total
  BY <1>0, <1>2 DEF CreateOrder, FreshOrder, OrderTypes
<1>3. ASSUME NEW v \in Worker, VoidOrder(v)
      PROVE  tickets'[o] = tickets[o] /\ orders'[o].total = orders[o].total
  BY <1>0, <1>3, Edits DEF VoidOrder, OrderTypes
<1>4. ASSUME NEW v \in Worker, CloseOrder(v) \/ RefundOrder(v)
      PROVE  tickets'[o] = tickets[o] /\ orders'[o].total = orders[o].total
  <2>0. PICK n \in Order : \E x : Settle(v, n, x) /\ At(v, "commit") /\ req[v].op \in SettleOp
    BY <1>4, Settlements
  <2>1. PICK e : Settle(v, n, e) /\ At(v, "commit") /\ req[v].op \in SettleOp
    BY <2>0
  <2>2. req[v].sess # None
    BY <2>1, SettleFacts, NoneAssumption DEF WellFormed
  <2>3. o # n
    BY <1>0, <2>1, <2>2 DEF Settle, Settled, OrderTypes
  <2> QED
    BY <1>0, <2>1, <2>3 DEF Settle, OrderTypes
<1> QED
  BY <1>1, <1>2, <1>3, <1>4, Writers, CommitOrders DEF orderVars

LEMMA NextTotals ==
  ASSUME LInv, [Next]_vars PROVE Unnumbered' /\ RefundSigns'
<1>0. OrderTypes /\ IInv /\ Unnumbered /\ RefundSigns
  BY DEF LInv, IInv, TypeOK
<1>1. ASSUME NEW o \in Order, Settled(o)
      PROVE  Settled(o)' /\ orders'[o].total = orders[o].total /\ lines'[o] = lines[o]
  <2>1. SettledKept(o)
    BY <1>0, <1>1, NextSettled
  <2> QED
    BY <1>0, <1>1, <2>1 DEF SettledKept, Settled, OrderTypes
<1>2. ASSUME NEW o \in Order, ~Settled(o), Settled(o)', orders'[o].total < 0
      PROVE  \A l \in Line : lines'[o][l] <= 0
  <2>1. PICK v \in Worker : /\ CloseOrder(v) \/ RefundOrder(v)
                            /\ At(v, "commit") /\ req[v].op \in SettleOp
                            /\ \E e \in {"sale_closed", "refund_issued"} : Settle(v, o, e)
    BY <1>0, <1>2, NewlySettled
  <2>2. /\ calc[v] = Due(req[v]) /\ Paid(req[v]) > 0 /\ Paid(req[v]) \in Nat
        /\ WellFormed(req[v]) /\ req[v].sess # None
    BY <1>0, <2>1, SettleFacts, NoneAssumption DEF WellFormed
  <2>3. orders'[o].total = calc[v]
    BY <1>0, <2>1 DEF Settle, OrderTypes
  <2>4. RefundOrder(v)
    BY <1>2, <2>1, <2>2, <2>3 DEF CloseOrder, Committing, Due
  <2>5. PICK n \in Order : /\ Settle(v, n, "refund_issued")
                           /\ lines' = [lines EXCEPT ![n] = RefundLines(req[v])]
    BY <2>4 DEF RefundOrder, FreshOrder
  <2>6. n = o
    BY <1>0, <1>2, <2>1, <2>2, <2>5 DEF Settle, Settled, OrderTypes
  <2>7. lines'[o] = RefundLines(req[v])
    BY <1>0, <2>5, <2>6 DEF OrderTypes
  <2>8. req[v].items \in Seq([line : Line, qty : Nat \ {0}])
    BY <2>2, <2>4 DEF WellFormed, RefundOrder, Committing
  <2>9. ASSUME NEW l \in Line PROVE RefundLines(req[v])[l] <= 0
    <3>1. CASE l <= Len(req[v].items)
      <4>1. l \in 1..Len(req[v].items)
        BY <2>8, <3>1, LineAssumption DEF Line
      <4>2. req[v].items[l] \in [line : Line, qty : Nat \ {0}]
        BY ONLY <2>8, <4>1, ElementOfSeq
      <4> QED
        BY <3>1, <4>2 DEF RefundLines
    <3>2. CASE ~(l <= Len(req[v].items))
      BY <3>2 DEF RefundLines
    <3> QED
      BY <3>1, <3>2
  <2> QED
    BY <2>7, <2>9
<1>3. Unnumbered'
  BY <1>0, <1>1, StillUnsettled DEF Unnumbered
<1>4. ASSUME NEW o \in Order, orders'[o].total < 0 PROVE \A l \in Line : lines'[o][l] <= 0
  <2>1. CASE Settled(o)
    BY <1>0, <1>1, <1>4, <2>1 DEF RefundSigns
  <2>2. CASE ~Settled(o) /\ ~Settled(o)'
    BY <1>0, <1>4, <2>2, StillUnsettled DEF Unnumbered
  <2> QED
    BY <1>2, <1>4, <2>1, <2>2
<1> QED
  BY <1>3, <1>4 DEF RefundSigns

LEMMA NextUnopened ==
  ASSUME LInv, [Next]_vars PROVE Unopened'
<1>0. OrderTypes /\ CashTypes /\ IInv /\ Unopened
  BY DEF LInv, IInv, TypeOK
<1> SUFFICES ASSUME NEW s \in Session, sessions'[s].status = "none"
             PROVE  moves'[s] = 0 /\ \A o \in Order : orders'[o].sess # s
  BY DEF Unopened
<1>1. sessions[s].status = "none" /\ moves'[s] = moves[s]
  <2>1. CASE UNCHANGED cashVars
    BY <2>1 DEF cashVars
  <2>2. ASSUME NEW v \in Worker, OpenSession(v)
        PROVE  sessions[s].status = "none" /\ moves'[s] = moves[s]
    BY <1>0, <2>2 DEF OpenSession, FreshSession, CashTypes
  <2>3. ASSUME NEW v \in Worker, AddMovement(v) \/ AddCount(v) \/ CloseSession(v)
        PROVE  sessions[s].status = "none" /\ moves'[s] = moves[s]
    <3>1. At(v, "commit") /\ req[v].op \in CashOp
      BY <2>3 DEF AddMovement, AddCount, CloseSession, Committing, CashOp
    <3>2. sessions[req[v].sess].status = "open" /\ req[v].sess \in Session
      BY <1>0, <3>1, CommitHolds DEF CashCheck, WellFormed, CashOp
    <3>3. CASE s = req[v].sess
      <4>1. sessions'[s].status \in {"open", "closed"}
        BY <1>0, <2>3, <3>2, <3>3 DEF AddMovement, AddCount, CloseSession, CashTypes
      <4> QED
        BY <4>1
    <3>4. CASE s # req[v].sess
      <4>1. sessions'[s] = sessions[s]
        BY <1>0, <2>3, <3>2, <3>4 DEF AddMovement, AddCount, CloseSession, CashTypes
      <4>2. moves'[s] = moves[s]
        BY <1>0, <2>3, <3>2, <3>4 DEF AddMovement, AddCount, CloseSession, CashTypes
      <4> QED
        BY <4>1, <4>2
    <3> QED
      BY <3>3, <3>4
  <2> QED
    BY <2>1, <2>2, <2>3, Writers, CommitCash
<1>2. moves[s] = 0 /\ \A o \in Order : orders[o].sess # s
  BY <1>0, <1>1 DEF Unopened
<1>3. ASSUME NEW o \in Order, orders'[o].sess = s PROVE FALSE
  <2>1. CASE Settled(o)
    <3>1. orders'[o].sess = orders[o].sess
      <4>1. SettledKept(o)
        BY <1>0, <2>1, NextSettled
      <4> QED
        BY <1>0, <4>1 DEF SettledKept, OrderTypes
    <3> QED
      BY <1>2, <1>3, <3>1
  <2>2. CASE ~Settled(o)
    <3>1. Settled(o)'
      BY <1>3, NoneAssumption DEF Settled
    <3>2. PICK v \in Worker : /\ At(v, "commit") /\ req[v].op \in SettleOp
                              /\ \E e : Settle(v, o, e)
      BY <1>0, <2>2, <3>1, NewlySettled
    <3>3. req[v].sess = s
      BY <1>0, <1>3, <3>2 DEF Settle, OrderTypes
    <3>4. sessions[s].status = "open"
      BY <1>0, <3>2, <3>3, SettleFacts DEF CashCheck, CashSessionForSale, SettleOp
    <3> QED
      BY <1>1, <3>4
  <2> QED
    BY <2>1, <2>2
<1> QED
  BY <1>1, <1>2, <1>3

LEMMA NextLInv == LInv /\ [Next]_vars => LInv'
<1> SUFFICES ASSUME LInv, [Next]_vars PROVE LInv'
  OBVIOUS
<1>1. (IInv /\ PaidExactly /\ OneOpenPerTerminal /\ AppliedOnce)'
  BY NextInv, NextPaid, NextTills, NextApplied DEF LInv
<1>2. (TicketsBounded /\ TicketsUnique)'
  BY NextTickets DEF LInv
<1>3. (Unnumbered /\ RefundSigns /\ Unopened)'
  BY NextTotals, NextUnopened
<1> QED
  BY <1>1, <1>2, <1>3 DEF LInv

-----------------------------------------------------------------------------
(* Every step of the handlers is an entry of the ledger, or none. *)

LEMMA InitLedger == Init => L!Init
<1> SUFFICES ASSUME Init PROVE L!Init
  OBVIOUS
<1>1. Receipts = [o \in Order |-> None] /\ Cancelled = {}
  BY DEF Init, NoOrder, Receipts, Receipt, Settled, Cancelled
<1>2. Books = [t \in Terminal |-> <<>>]
  <2>1. ASSUME NEW t \in Terminal PROVE Books[t] = <<>>
    <3>1. 1..sequences[t] = {}
      BY DEF Init
    <3>2. Books[t] = [n \in 1..sequences[t] |-> Numbered(t, n)]
      BY DEF Books
    <3>3. Books[t] \in Seq(Order) /\ Len(Books[t]) = 0
      BY <3>1, <3>2 DEF Init
    <3> QED
      BY <3>3
  <2> QED
    BY <2>1 DEF Books
<1>3. Tills = [t \in Terminal |-> None]
  BY DEF Init, NoSession, Tills, OpenAt
<1>4. Cash = [s \in Session |-> None] /\ Zetas = [s \in Session |-> None]
  BY DEF Init, NoSession, Cash, Zetas
<1>5. Answers = [k \in Key |-> None] /\ refunds = [o \in Order |-> None]
  BY DEF Init, Answers
<1> QED
  BY <1>1, <1>2, <1>3, <1>4, <1>5 DEF L!Init

LEMMA RowsKept ==
  ASSUME UNCHANGED <<orderVars, sessions, expected, moves>>
  PROVE  UNCHANGED <<Receipts, Books, refunds, Cancelled, Tills, Cash, Zetas>>
<1>1. Receipts' = Receipts /\ Cancelled' = Cancelled
  BY DEF orderVars, Receipts, Receipt, Settled, Cancelled
<1>2. Cash' = Cash
  BY CashSame DEF orderVars
<1> QED
  BY <1>1, <1>2, BooksSame, TillsSame DEF orderVars

LEMMA ExpiryForgets ==
  ASSUME LInv, NEW k \in ExpiringKey, ExpireKey(k)
  PROVE  [L!Next]_(L!ledgerVars)
<1>0. KeyTypes /\ keys[k] # None
  BY DEF LInv, IInv, TypeOK, ExpireKey
<1>1. UNCHANGED <<Receipts, Books, refunds, Cancelled, Tills, Cash, Zetas>>
  BY RowsKept DEF ExpireKey, cashVars
<1>2. CASE k \in Key
  <2>1. keys'[k] = None /\ \A x \in Key \ {k} : keys'[x] = keys[x] /\ applied'[x] = applied[x]
    BY <1>0, <1>2 DEF ExpireKey, KeyTypes
  <2>2. Answers[k] \in [text : Nat, effects : Nat]
    BY <1>0, <1>2, NoneAssumption DEF Answers, KeyTypes
  <2>3. Answers[k] # None
    BY ONLY <2>2, NullAssumption
  <2>4. Answers'[k] = None /\ \A x \in Key \ {k} : Answers'[x] = Answers[x]
    BY <1>2, <2>1 DEF Answers
  <2>5. Answers = [x \in Key |-> Answers[x]] /\ Answers' = [x \in Key |-> Answers'[x]]
    BY DEF Answers
  <2>6. Answers' = [Answers EXCEPT ![k] = None]
    BY <2>4, <2>5
  <2>7. L!Forget(k)
    BY <1>1, <2>3, <2>6 DEF L!Forget
  <2> QED
    BY <1>2, <2>7 DEF L!Next
<1>3. CASE k \notin Key
  <2>1. \A x \in Key : keys'[x] = keys[x] /\ applied'[x] = applied[x]
    BY <1>0, <1>3 DEF ExpireKey, KeyTypes
  <2>2. Answers' = Answers
    BY <2>1 DEF Answers
  <2> QED
    BY <1>1, <2>2 DEF L!ledgerVars
<1> QED
  BY <1>2, <1>3

LEMMA NextLedger == LInv /\ [Next]_vars => [L!Next]_(L!ledgerVars)
<1> SUFFICES ASSUME LInv, [Next]_vars PROVE [L!Next]_(L!ledgerVars)
  OBVIOUS
<1>0. TypeOK'
  BY NextInv DEF LInv, IInv
<1>1. ASSUME NEW v \in Worker, Commit(v) PROVE [L!Next]_(L!ledgerVars)
  <2>1. CASE CloseOrder(v)
    BY <1>0, <2>1, CloseOrderSells DEF L!Next
  <2>2. CASE RefundOrder(v)
    BY <1>0, <2>2, RefundGivesBack DEF L!Next
  <2>3. CASE VoidOrder(v)
    BY <2>3, VoidCancels DEF L!Next, L!ledgerVars
  <2>4. CASE CreateOrder(v) \/ AddLine(v) \/ UpdateLine(v) \/ RemoveLine(v)
    BY <2>4, EditsNote DEF L!Next
  <2>5. CASE OpenSession(v)
    BY <1>0, <2>5, OpenSessionOpens DEF L!Next
  <2>6. CASE AddMovement(v)
    BY <2>6, MovementMoves DEF L!Next
  <2>7. CASE CloseSession(v)
    BY <2>7, CloseSessionCloses DEF L!Next
  <2>8. CASE AddCount(v)
    BY <2>8, RowsKept, AnswersSame DEF AddCount, L!ledgerVars
  <2> QED
    BY <1>1, <2>1, <2>2, <2>3, <2>4, <2>5, <2>6, <2>7, <2>8 DEF Commit
<1>2. CASE UNCHANGED <<orderVars, cashVars>> /\ UNCHANGED keyVars
  BY <1>2, RowsKept, AnswersSame DEF cashVars, L!ledgerVars
<1> QED
  BY <1>1, <1>2, ExpiryForgets, Writers

\* The handlers implement the ledger: whatever the requests, their
\* interleaving, their retries and their failures, each commit is one entry
\* of the ledger and every other step leaves it alone.
THEOREM LedgerImplemented == Spec => ImplementsLedger
<1>1. Init => LInv /\ L!Init
  BY InitLInv, InitLedger
<1>2. LInv /\ [Next]_vars => LInv' /\ [L!Next]_(L!ledgerVars)
  BY NextLInv, NextLedger
<1> QED
  BY <1>1, <1>2, PTL DEF Spec, ImplementsLedger, L!Spec
=============================================================================
