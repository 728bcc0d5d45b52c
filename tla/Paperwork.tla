----------------------------- MODULE Paperwork ------------------------------
(***************************************************************************)
(* The documents of a sale: Documents and Fiscal over the same sales.      *)
(* Each charge, refund and void leaves, in its own transaction, the event  *)
(* the fiscal passes consume; the invoices lock the orders that these      *)
(* transactions lock.                                                      *)
(*                                                                         *)
(* Invoices and passes share no row.  A behaviour has the ones or the      *)
(* others (bound), so that their states add up instead of multiplying.     *)
(***************************************************************************)
EXTENDS Documents, Fiscal

paperVars == <<docVars, fiscalVars>>

PaperInit == DocInit /\ FiscalInit

ChargeLeavesEvent(o) == CloseSale(o) /\ Record(o, "sale_closed")
VoidLeavesEvent(o)   == VoidSale(o) /\ Record(o, "sale_voided")
RefundLeavesEvent(o) == RefundSale(o) /\ Record(o, "refund_issued")

SaleEventLeft(o) == ChargeLeavesEvent(o) \/ RefundLeavesEvent(o) \/ VoidLeavesEvent(o)

OfClerks == UNCHANGED fiscalVars
OfPasses == desk = {} /\ UNCHANGED docVars

PaperNext ==
  \/ \E o \in Sale : SaleEventLeft(o)
  \/ \E c \in Clerk :
       \/ \E r \in DocRequest : DocBegin(c, r) /\ OfClerks
       \/ DocAdvance(c) /\ OfClerks
       \/ DocRefuse(c) /\ OfClerks
       \/ DocAbort(c) /\ OfClerks
       \/ IssueInvoice(c) /\ OfClerks
       \/ VoidInvoice(c) /\ OfClerks
       \/ IssueRectification(c) /\ OfClerks
       \/ ReprintTicket(c) /\ OfClerks
  \/ \E d \in Dispatcher :
       \/ ClaimEvents(d) /\ OfPasses
       \/ ClaimDocuments(d) /\ OfPasses
       \/ \E e \in Event, a \in Answer : Submit(d, e, a) /\ OfPasses
       \/ CommitPass(d) /\ OfPasses
       \/ Die(d) /\ OfPasses
  \/ \E p \in Regime \union {"none"} : Restart(p) /\ OfPasses

\* A timer calls /fiscal/dispatch, and a pass that runs goes on.  Nothing says
\* that anything is ever sold, or that the process restarts.
PassFairness ==
  \A d \in Dispatcher : WF_paperVars(PassStep(d) /\ OfPasses)

PaperSpec == PaperInit /\ [][PaperNext]_paperVars /\ PassFairness

\* The invoices and the outbox have their shapes.
PaperTypeOK == DocTypeOK /\ FiscalTypeOK

\* A sale is certified once, and so is its void: the regime has at most one
\* document of each type for an order.
CertifiedOnce ==
  \A e, f \in DOMAIN filed :
    outbox[e].order = outbox[f].order /\ filed[e].type = filed[f].type => e = f

\* "A submission NEVER reverts what was consumed": where passes run, each event
\* is consumed in the end, whatever the regime answers and whichever pass dies.
EventsConsumed ==
  \A e \in 1..MaxEvents : (e \in Event /\ desk = {}) ~> e \in DOMAIN consumed
=============================================================================
