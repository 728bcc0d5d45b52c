----------------------------- MODULE Documents -----------------------------
(***************************************************************************)
(* Invoices: the handlers of services/documents.py over the sales that     *)
(* services/sales.py charges, refunds and voids.  (The tickets of the      *)
(* charges are in module Till.)                                            *)
(*                                                                         *)
(* A request is one transaction, a list of statements run in order; one    *)
(* that locks waits for its row and keeps it to the end, and what it wrote *)
(* is seen at its commit.  Sales are numbered as their ids sort.  The      *)
(* amounts of a sale are its VAT summary, a function on rates; they are    *)
(* fixed when it is charged.  One year, one business header.               *)
(***************************************************************************)
EXTENDS Integers, Sequences, FiniteSets, Functions

CONSTANTS
  Clerk,         \* document requests that run at the same time
  NSales,        \* order rows, in id order
  Rate,          \* VAT rates
  Summary,       \* tax_summary of each order, negative for a refund
  Customer,      \* customer_id of each order, Null if it has none
  WithTaxId,     \* customers that have a tax id
  RefundOf,      \* the sale an order refunds, Null if it is a sale
  DocScene,      \* where behaviours start: requests and orders.status
  MaxNumber,     \* bound: invoices of a series, reprints of a ticket
  Null           \* SQL NULL, no request

Sale   == 1..NSales
Series == {"FAC", "R"}
Invoice == Series \X (1..MaxNumber)
DocRequest == UNION {s.desk : s \in DocScene}

DocWellFormed(r) ==
  /\ r.op \in {"issue_invoice", "void_invoice", "issue_rectification", "reprint_ticket"}
  /\ r.op = "issue_invoice" => r.orders \in Seq(Sale) /\ r.orders # <<>> /\ IsInjective(r.orders)
  /\ r.op \in {"void_invoice", "issue_rectification"} => r.invoice \in Invoice
  /\ r.op = "issue_rectification" => r.mode \in {"total", "partial"} /\ r.refund \in Sale \union {Null}
  /\ r.op = "reprint_ticket" => r.order \in Sale

ASSUME SaleAssumption ==
  /\ NSales \in Nat /\ MaxNumber \in Nat /\ IsFiniteSet(Rate)
  /\ RefundOf \in [Sale -> Sale \union {Null}]
  /\ Summary \in [Sale -> [Rate -> Int]]
  /\ Null \notin Sale \union Invoice \union {"partial", "total"}
\* No line of a refund is positive.  A refund may exceed its sale: see
\* RefundWithinSale in module Till.
ASSUME RefundsAssumption ==
  \A p \in Sale : RefundOf[p] # Null => \A v \in Rate : Summary[p][v] <= 0
ASSUME DocRequestAssumption ==
  /\ Null \notin DocRequest
  /\ \A r \in DocRequest : DocWellFormed(r)
ASSUME DocSceneAssumption ==
  \A s \in DocScene : s.sales \in [Sale -> {"draft", "paid", "voided"}]

VARIABLES
  sales,     \* orders.status
  invoices,  \* invoices and their invoice_lines, by series and number
  series,    \* document_sequences.current_value
  reprints,  \* tickets.reprint_count
  desk,      \* the requests the clerks send in this behaviour
  doing,     \* the request a clerk runs, Null when idle
  steps,     \* the statements its transaction has left
  locked,    \* the rows and index entries it holds
  number,    \* the number it took
  read       \* the reprint count it read

docRows == <<sales, invoices, series, reprints>>
docWork == <<desk, doing, steps, locked, number, read>>
docVars == <<docRows, docWork>>

DocInit ==
  /\ \E s \in DocScene : desk = s.desk /\ sales = s.sales
  /\ invoices = <<>>
  /\ series   = [s \in Series |-> 0]
  /\ reprints = [o \in Sale |-> 0]
  /\ doing    = [c \in Clerk |-> Null]
  /\ steps    = [c \in Clerk |-> <<>>]
  /\ locked   = [c \in Clerk |-> {}]
  /\ number   = [c \in Clerk |-> 0]
  /\ read     = [c \in Clerk |-> 0]

-----------------------------------------------------------------------------
(* What the handlers compute. *)

Amount(sum) == SumFunctionOnSet(sum, Rate)

\* merge_tax_summaries, rate by rate.
MergeTaxSummaries(os) == [v \in Rate |-> SumFunctionOnSet([o \in os |-> Summary[o][v]], os)]

NegateTaxSummary(sum) == [v \in Rate |-> -sum[v]]

Issued == DOMAIN invoices
InvoicedOrders == UNION {invoices[i].orders : i \in Issued}

\* One customer with a tax id, charged and positive, on no invoice yet.
Invoiceable(os) ==
  /\ \A o \in os : sales[o] = "paid" /\ Amount(Summary[o]) > 0 /\ Customer[o] # Null
  /\ \A o, p \in os : Customer[o] = Customer[p]
  /\ os \intersect InvoicedOrders = {}
  /\ \A o \in os : Customer[o] \in WithTaxId

\* Mutant: any refund will do, whatever the invoice.
Rectifiable_AnyRefund(r) == r.mode = "partial" => r.refund # Null /\ sales[r.refund] # "draft"

\* A partial rectification needs a refund of a sale of the invoice.
Rectifiable(r) ==
  IF r.mode = "total" THEN r.refund = Null
  ELSE /\ r.refund # Null /\ RefundOf[r.refund] # Null /\ sales[r.refund] # "draft"
       /\ RefundOf[r.refund] \in invoices[r.invoice].orders

IsIssued(i) == i \in Issued /\ invoices[i].status = "issued"

-----------------------------------------------------------------------------
(* Statements and the rows they lock. *)

\* ORDER BY id
InIdOrder(os) ==
  CHOOSE ids \in [1..Cardinality(os) -> os] :
    /\ Range(ids) = os
    /\ \A i, j \in DOMAIN ids : i < j => ids[i] < ids[j]

\* Mutant: the orders are locked as the request lists them.
OrderLocks_AsListed(list) == [i \in DOMAIN list |-> <<"order", list[i]>>]

\* list_orders_for_update
OrderLocks(list) ==
  LET ids == InIdOrder(Range(list)) IN [i \in DOMAIN ids |-> <<"order", ids[i]>>]

\* create_invoice, and the UNIQUE entries of its lines.
LineSlots(list) == [i \in DOMAIN list |-> <<"line", list[i]>>]

DocSteps(r) ==
  CASE r.op = "issue_invoice" ->
         OrderLocks(r.orders) \o <<<<"check">>, <<"series", "FAC">>>>
           \o LineSlots(r.orders) \o <<<<"commit">>>>
    [] r.op = "issue_rectification" ->
         <<<<"read">>, <<"series", "R">>, <<"check">>>>
           \o (IF r.mode = "partial" THEN LineSlots(<<r.refund>>)
               ELSE OrderLocks(InIdOrder(invoices[r.invoice].orders)))
           \o <<<<"commit">>>>
    [] OTHER -> <<<<"read">>, <<"commit">>>>

DocAt(c, kind) == doing[c] # Null /\ Head(steps[c])[1] = kind
DocRow(c) == Head(steps[c])

DocGranted(c) ==
  DocRow(c)[1] \in {"order", "series", "line"} =>
    \A d \in Clerk \ {c} : DocRow(c) \notin locked[d]

\* Mutant: invoice_lines without its UNIQUE on order_id.
LineFree_NoUnique(o) == TRUE
LineFree(o) == o \notin InvoicedOrders

DocCheck(c) ==
  LET r == doing[c]
      s == DocRow(c)
  IN  CASE s[1] = "read" ->
             IF r.op = "reprint_ticket" THEN sales[r.order] # "draft" /\ reprints[r.order] < MaxNumber ELSE IsIssued(r.invoice)
        [] s[1] = "check" ->
             IF r.op = "issue_invoice" THEN Invoiceable(Range(r.orders)) ELSE Rectifiable(r)
        [] s[1] = "line"   -> LineFree(s[2])
        [] s[1] = "series" -> series[s[2]] < MaxNumber
        [] OTHER           -> TRUE

-----------------------------------------------------------------------------
(* Steps of every transaction. *)

\* An invoice is asked for by the id its issue returned.
DocBegin(c, r) ==
  /\ doing[c] = Null /\ r \in desk
  /\ r.op \in {"void_invoice", "issue_rectification"} => r.invoice \in Issued
  /\ doing' = [doing EXCEPT ![c] = r]
  /\ steps' = [steps EXCEPT ![c] = DocSteps(r)]
  /\ UNCHANGED <<docRows, desk, locked, number, read>>

DocAdvance(c) ==
  /\ doing[c] # Null /\ DocRow(c)[1] # "commit"
  /\ DocGranted(c) /\ DocCheck(c)
  /\ steps'  = [steps EXCEPT ![c] = Tail(@)]
  /\ locked' = [locked EXCEPT ![c] = @ \union {DocRow(c)}]
  /\ number' = [number EXCEPT ![c] = IF DocAt(c, "series") THEN series[DocRow(c)[2]] + 1 ELSE @]
  /\ read'   = [read EXCEPT ![c] = IF doing[c].op = "reprint_ticket" THEN reprints[doing[c].order] ELSE @]
  /\ UNCHANGED <<docRows, desk, doing>>

DocLeave(c) ==
  /\ doing'  = [doing EXCEPT ![c] = Null]
  /\ steps'  = [steps EXCEPT ![c] = <<>>]
  /\ locked' = [locked EXCEPT ![c] = {}]
  /\ number' = [number EXCEPT ![c] = 0]
  /\ read'   = [read EXCEPT ![c] = 0]
  /\ UNCHANGED desk

DocRefuse(c) ==
  /\ doing[c] # Null
  /\ DocGranted(c) /\ ~DocCheck(c)
  /\ DocLeave(c)
  /\ UNCHANGED docRows

\* Mutant: a native sequence, whose number a rollback does not give back.
DocAbort_BurnsNumber(c) ==
  /\ doing[c] # Null
  /\ DocLeave(c)
  /\ series' = IF number[c] = 0 THEN series
               ELSE [series EXCEPT ![IF doing[c].op = "issue_invoice" THEN "FAC" ELSE "R"] = number[c]]
  /\ UNCHANGED <<sales, invoices, reprints>>

\* A crash before the commit.
DocAbort(c) ==
  /\ doing[c] # Null
  /\ DocLeave(c)
  /\ UNCHANGED docRows

-----------------------------------------------------------------------------
(* Commits. *)

DocCommitting(c, op) == DocAt(c, "commit") /\ doing[c].op = op /\ DocLeave(c)

Created(s, n, os, sum, original, mode) ==
  [i \in Issued \union {<<s, n>>} |->
     IF i # <<s, n>> THEN invoices[i]
     ELSE [status |-> "issued", orders |-> os, totals |-> sum,
           rectifies |-> original, mode |-> mode]]

IssueInvoice(c) ==
  /\ DocCommitting(c, "issue_invoice")
  /\ LET os == Range(doing[c].orders)
     IN  invoices' = Created("FAC", number[c], os, MergeTaxSummaries(os), Null, Null)
  /\ series' = [series EXCEPT !["FAC"] = number[c]]
  /\ UNCHANGED <<sales, reprints>>

\* Neither the sales nor the rectifications of the invoice are looked at, and
\* its lines stay: its sales remain invoiced.
VoidInvoice(c) ==
  /\ DocCommitting(c, "void_invoice")
  /\ invoices' = [invoices EXCEPT ![doing[c].invoice].status = "voided"]
  /\ UNCHANGED <<sales, series, reprints>>

\* Partial: the amounts and the line of the refund.  Total: the amounts of the
\* invoice with their sign turned, and no lines.
IssueRectification(c) ==
  /\ DocCommitting(c, "issue_rectification")
  /\ LET r   == doing[c]
         os  == IF r.mode = "partial" THEN {r.refund} ELSE {}
         sum == IF r.mode = "partial" THEN Summary[r.refund]
                ELSE NegateTaxSummary(invoices[r.invoice].totals)
     IN  invoices' = Created("R", number[c], os, sum, r.invoice, r.mode)
  /\ series' = [series EXCEPT !["R"] = number[c]]
  /\ UNCHANGED <<sales, reprints>>

\* The counter is written as it was read, plus one.
ReprintTicket(c) ==
  /\ DocCommitting(c, "reprint_ticket")
  /\ reprints' = [reprints EXCEPT ![doing[c].order] = read[c] + 1]
  /\ UNCHANGED <<sales, invoices, series>>

-----------------------------------------------------------------------------
(* The sales, in one step each: module Till has their detail.  They lock    *)
(* the order row, as the invoices do.                                       *)

Unlocked(o) == \A c \in Clerk : <<"order", o>> \notin locked[c]

CloseSale(o) ==
  /\ RefundOf[o] = Null /\ sales[o] = "draft" /\ Unlocked(o)
  /\ sales' = [sales EXCEPT ![o] = "paid"]
  /\ UNCHANGED <<invoices, series, reprints, docWork>>

\* The refund is an order of its own, born paid; a sale has one at most.
RefundSale(o) ==
  /\ RefundOf[o] # Null /\ sales[o] = "draft"
  /\ sales[RefundOf[o]] = "paid" /\ Unlocked(RefundOf[o])
  /\ \A p \in Sale : RefundOf[p] = RefundOf[o] => sales[p] = "draft"
  /\ sales' = [sales EXCEPT ![o] = "paid"]
  /\ UNCHANGED <<invoices, series, reprints, docWork>>

\* Mutant: a voided sale can be voided again.
VoidSale_Again(o) ==
  /\ RefundOf[o] = Null \/ sales[o] # "draft"
  /\ Unlocked(o)
  /\ sales' = [sales EXCEPT ![o] = "voided"]
  /\ UNCHANGED <<invoices, series, reprints, docWork>>

\* Invoices are not looked at.
VoidSale(o) ==
  /\ sales[o] \in {"paid"} \union (IF RefundOf[o] = Null THEN {"draft"} ELSE {})
  /\ Unlocked(o)
  /\ sales' = [sales EXCEPT ![o] = "voided"]
  /\ UNCHANGED <<invoices, series, reprints, docWork>>

SaleStep(o) == CloseSale(o) \/ RefundSale(o) \/ VoidSale(o)

ClerkStep(c) ==
  \/ \E r \in DocRequest : DocBegin(c, r)
  \/ DocAdvance(c) \/ DocRefuse(c) \/ DocAbort(c)
  \/ IssueInvoice(c) \/ VoidInvoice(c) \/ IssueRectification(c) \/ ReprintTicket(c)

DocNext == (\E c \in Clerk : ClerkStep(c)) \/ (\E o \in Sale : SaleStep(o))

DocSpec == DocInit /\ [][DocNext]_docVars

-----------------------------------------------------------------------------
(* Properties. *)

DocTypeOK ==
  /\ sales \in [Sale -> {"draft", "paid", "voided"}]
  /\ Issued \subseteq Invoice
  /\ \A i \in Issued :
       /\ invoices[i].status \in {"issued", "voided"}
       /\ invoices[i].orders \subseteq Sale
       /\ (i[1] = "R") <=> (invoices[i].rectifies \in Issued)
       /\ (invoices[i].orders = {}) <=> (invoices[i].mode = "total")
  /\ series \in [Series -> 0..MaxNumber]
  /\ reprints \in [Sale -> Nat]
  /\ \A c \in Clerk : doing[c] \in DocRequest \union {Null}

\* A sale, or a refund, is on one document at most, whoever invoices or
\* rectifies it at the same time; a voided invoice keeps its sales.
InvoicedOnce ==
  \A i, j \in Issued : i # j => invoices[i].orders \intersect invoices[j].orders = {}

\* The numbers of a series are those of its documents, from one, without
\* gaps, whatever fails or crashes in between.
InvoiceNumbersGapless ==
  \A s \in Series : {i[2] : i \in {j \in Issued : j[1] = s}} = 1..series[s]

Partials(i) == {j \in Issued : invoices[j].rectifies = i /\ invoices[j].mode = "partial"}
Refunds(i)  == {p \in Sale : RefundOf[p] \in invoices[i].orders /\ sales[p] # "draft"}

\* What the refunds of an invoice's sales gave back, at a rate.
GivenBack(i, v) == SumFunctionOnSet([p \in Refunds(i) |-> -Summary[p][v]], Refunds(i))

\* The partial rectifications of an invoice take off, at each rate, no more
\* than the refunds of its own sales gave back: each is of one of them, and
\* of one that no other has taken off, whoever rectifies at the same time.
PartialsCovered ==
  \A i \in Issued : invoices[i].mode = Null =>
    \A v \in Rate :
      GivenBack(i, v)
        + SumFunctionOnSet([j \in Partials(i) |-> invoices[j].totals[v]], Partials(i)) >= 0

\* Not so of all rectifications: a total one takes off the whole invoice, next
\* to another total one or to partial ones.
NetNotNegative ==
  \A i \in Issued : invoices[i].mode = Null =>
    LET rectified == {j \in Issued : invoices[j].rectifies = i}
    IN  \A v \in Rate :
          invoices[i].totals[v]
            + SumFunctionOnSet([j \in rectified |-> invoices[j].totals[v]], rectified) >= 0

DocWaits(c, d) ==
  doing[c] # Null /\ DocRow(c)[1] \in {"order", "series", "line"} /\ DocRow(c) \in locked[d]

\* "Deterministic order, no deadlocks": invoices and rectifications never wait
\* on each other in a ring.
InvoicesNeverDeadlock ==
  \A S \in SUBSET Clerk : S # {} => \E c \in S : \A d \in S \ {c} : ~DocWaits(c, d)
=============================================================================
