---------------------------- MODULE MCPaperwork -----------------------------
(* Two sales of a customer with a tax id, and a refund of each: one of a    *)
(* part, one of more than was sold.                                         *)
EXTENDS Paperwork

MCRefundOf == <<Null, Null, 1, 2>>
MCCustomer == [o \in Sale |-> "ana"]
MCWithTaxId == {"ana"}

Vat(a, b) == [r \in Rate |-> IF r = "r10" THEN a ELSE b]
MCSummary == <<Vat(2, 1), Vat(3, 0), Vat(-1, -1), Vat(-4, 0)>>

Bill(os) == [op |-> "issue_invoice", orders |-> os]
Cancel(i) == [op |-> "void_invoice", invoice |-> i]
Rectify(i, o) == [op |-> "issue_rectification", invoice |-> i,
                  mode |-> IF o = Null THEN "total" ELSE "partial", refund |-> o]
Reprint(o) == [op |-> "reprint_ticket", order |-> o]

Sold(paid, voided) ==
  [o \in Sale |-> IF o \in paid THEN "paid" ELSE IF o \in voided THEN "voided" ELSE "draft"]

\* Who invoices first; invoices against their rectifications and voids, over
\* sales already charged and refunded; and the fiscal passes alone.
MCDocScene ==
  { [desk |-> {Bill(<<1, 2>>), Bill(<<2, 1>>), Bill(<<1>>), Bill(<<4>>), Reprint(1)},
     sales |-> Sold({1}, {})],
    [desk |-> {Bill(<<1>>), Rectify(<<"FAC", 1>>, 3), Rectify(<<"FAC", 1>>, 4), Cancel(<<"FAC", 1>>)},
     sales |-> Sold({1, 2, 4}, {})],
    [desk |-> {Bill(<<2, 1>>), Rectify(<<"FAC", 1>>, 3), Rectify(<<"FAC", 1>>, 4),
               Rectify(<<"FAC", 1>>, Null), Rectify(<<"R", 1>>, Null)},
     sales |-> Sold({1, 2, 3}, {})],
    [desk |-> {}, sales |-> Sold({1}, {2})] }
=============================================================================
