------------------------------- MODULE TillInv -------------------------------
(***************************************************************************)
(* The inductive invariant of Till: what a transaction holds and what it   *)
(* may still believe at each of its statements.                            *)
(***************************************************************************)
EXTENDS Till

Stmt == {"order", "cash", "series", "slot", "key", "commit"}

\* The handler of r has the statement p.
Has(r, p) ==
  \/ p = "order"  /\ r.op \in OrderOp
  \/ p = "cash"   /\ r.op \in SettleOp \union CashOp
  \/ p = "series" /\ r.op \in SettleOp
  \/ p = "slot"   /\ (r.op = "open_session" \/ (r.op = "create_order" /\ r.table # None))
  \/ p = "key"    /\ r.key # None
  \/ p = "commit"

Rank(p) == IF p = "order"  THEN 1 ELSE
           IF p = "cash"   THEN 2 ELSE
           IF p = "series" THEN 3 ELSE
           IF p = "slot"   THEN 3 ELSE
           IF p = "key"    THEN 4 ELSE
           IF p = "commit" THEN 5 ELSE 0

\* The handler of r ran the statement p before it came to the one at q.
Behind(r, p, q) == Has(r, p) /\ Rank(p) < Rank(q)

\* The transaction of w has run the statement p and has not ended.
Passed(w, p) == req[w] # None /\ Behind(req[w], p, pc[w])

Disjoint == \A v, w \in Worker : v # w => held[v] \intersect held[w] = {}

\* A busy worker is at a statement of its handler, or at the drawer.
Placed ==
  \A w \in Worker :
    /\ req[w] = None <=> pc[w] = "idle"
    /\ req[w] # None => \/ Has(req[w], pc[w])
                        \/ pc[w] = "drawer" /\ req[w].op = "close_order"

\* A transaction holds the rows of the statements it has run, and no others.
HeldExactly ==
  \A w \in Worker :
    /\ \A p \in Stmt : Passed(w, p) => RowAt(req[w], p) \in held[w]
    /\ \A row \in held[w] : \E p \in Stmt : Passed(w, p) /\ row = RowAt(req[w], p)

\* What the handler checked or computed at the statement p.
Fact(w, p) ==
  /\ p = "order"  => OrderCheck(req[w])
  /\ p = "cash"   => CashCheck(req[w]) /\ calc[w] = Amount(req[w])
  /\ p = "series" => num[w] = NextNumber(OrderTerminal[req[w].order])
  /\ p = "slot"   => SlotCheck(req[w])
  /\ p = "key"    => KeyFree(req[w].key)

\* What a handler checked once is still so at every later statement.
Facts == \A w \in Worker : \A p \in Stmt : Passed(w, p) => Fact(w, p)

\* Only a charge or a refund gives an order its session.
Unsettled ==
  \A o \in Order : /\ orders[o].status \in {"none", "draft"} => ~Settled(o)
                   /\ orders[o].status = "paid" => Settled(o)

IInv == TypeOK /\ Disjoint /\ Placed /\ HeldExactly /\ Facts /\ Unsettled

=============================================================================
