----------------------------- MODULE MCKitchen -----------------------------
(***************************************************************************)
(* Small instances of Kitchen.                                             *)
(***************************************************************************)
EXTENDS Kitchen, TLC

CONSTANTS w1, w2, l1, l2

SetLine(l, t)   == [op |-> "set_line_status", line |-> l, target |-> t]
SetTicket(t)    == [op |-> "set_ticket_status", target |-> t]
Sale(op, l)     == [op |-> op, line |-> l, qty |-> 1]
Update(l, n)    == [op |-> "update_line", line |-> l, qty |-> n]
Order(op)       == [op |-> op]

Kds  == {SetLine(l, t) : l \in Line, t \in LineTarget} \union {SetTicket(t) : t \in LineTarget}
Edit == {Sale("add_line", l) : l \in Line} \union {Update(l, 2) : l \in Line}
          \union {Sale("remove_line", l) : l \in Line}

Workers == Permutations(Worker)

\* Everything the sale and the display can do.
Request_All == Kds \union Edit \union {Order("pay"), Order("void_order")}

\* What overlapping handlers send: l1 may also go back to pending, change its
\* quantity and be removed, and the bulk buttons only move forward.
Request_Busy ==
  {r \in Request_All :
     /\ r.op = "set_line_status" => (r.target = "pending" => r.line = l1)
     /\ r.op = "set_ticket_status" => r.target \in {"ready", "served"}
     /\ r.op \in {"update_line", "remove_line"} => r.line = l1}

=============================================================================
