------------------------------- MODULE Fiscal -------------------------------
(***************************************************************************)
(* The fiscal outbox: services/fiscal.py consumes the sale_events that the *)
(* sales leave, makes one fiscal document of each and submits it to the    *)
(* regime the process was started with.                                    *)
(*                                                                         *)
(* A pass is one transaction.  It claims events, then documents, with FOR  *)
(* UPDATE SKIP LOCKED, submits the documents one by one and commits; the   *)
(* regime is outside, so what it accepted stays accepted if the pass is    *)
(* rolled back.  Events are named by their place in the outbox, which is   *)
(* the order they commit in, and a document by its event.  (The code sorts *)
(* events by created_at, the start of the transaction of the sale; nothing *)
(* below depends on which of the two it is.)                               *)
(***************************************************************************)
EXTENDS Integers, Sequences, FiniteSets, FiniteSetsExt, Functions

CONSTANTS
  Dispatcher,    \* passes that may run at the same time
  Regime,        \* real providers of TPV_FISCAL_PROVIDER ("none" apart)
  Answer,        \* what a regime may answer: accepted, rejected, error
  Limit,         \* rows a pass claims (100 in the code)
  MaxCrashes,    \* bound: passes that die before their commit
  MaxEvents      \* bound: sale events

ASSUME FiscalAssumption ==
  /\ "none" \notin Regime
  /\ Answer \subseteq {"accepted", "rejected", "error"} /\ Answer # {}
  /\ Limit \in Nat \ {0} /\ MaxCrashes \in Nat /\ MaxEvents \in Nat

VARIABLES
  outbox,    \* sale_events, and the provider each was left under
  consumed,  \* events with dispatched_at, by the provider that consumed them
  filed,     \* fiscal_documents, by event
  provider,  \* app.state.fiscal_adapter
  stage,     \* what a pass does next
  taken,     \* the events a pass has claimed
  born,      \* the created_at of the documents a pass makes
  batch,     \* the documents it claimed and has not submitted
  answers,   \* the new status of those it has
  accepts,   \* how often the regime accepted each document
  lost,      \* how many of those acceptances a crash forgot
  crashes    \* passes that died

fiscalRows == <<consumed, filed>>
passVars   == <<stage, taken, born, batch, answers>>
fiscalVars == <<outbox, fiscalRows, provider, passVars, accepts, lost, crashes>>

Event == DOMAIN outbox

FiscalInit ==
  /\ outbox   = <<>>
  /\ consumed = << >>
  /\ filed    = << >>
  /\ provider \in Regime \union {"none"}
  /\ stage    = [d \in Dispatcher |-> "idle"]
  /\ taken    = [d \in Dispatcher |-> {}]
  /\ born     = [d \in Dispatcher |-> 0]
  /\ batch    = [d \in Dispatcher |-> {}]
  /\ answers  = [d \in Dispatcher |-> << >>]
  /\ accepts  = << >>
  /\ lost     = << >>
  /\ crashes  = 0

-----------------------------------------------------------------------------
(* What the passes read. *)

EventType == {"sale_closed", "sale_voided", "refund_issued"}

\* DOC_TYPES
DocTypeFor(kind) ==
  CASE kind = "sale_closed"   -> "sale"
    [] kind = "sale_voided"   -> "void"
    [] kind = "refund_issued" -> "refund"

\* The first n members of S in an order; ties fall either way.
FirstOf(S, n, rank) ==
  {T \in SUBSET S :
     /\ Cardinality(T) = IF Cardinality(S) < n THEN Cardinality(S) ELSE n
     /\ \A x \in T, y \in S \ T : rank[x] <= rank[y]}

\* The documents a pass holds locked, its own included.
Holds(d) == batch[d] \union DOMAIN answers[d]

\* A pass has the acceptance of e and has not committed it.
InFlight(d, e) == e \in DOMAIN answers[d] /\ answers[d][e] = "accepted"

\* The documents a pass has made and not committed.
Made(d) == IF provider = "none" THEN {} ELSE taken[d] \ DOMAIN filed

BornOf(d, e) == IF e \in DOMAIN filed THEN filed[e].born ELSE born[d]

\* claim_pending_sale_events
PendingSaleEvents == (Event \ DOMAIN consumed) \ UNION {taken[d] : d \in Dispatcher}

\* Mutant: the documents are claimed without FOR UPDATE.
RetryableDocuments_Unlocked(d) == {e \in DOMAIN filed : filed[e].status = "pending"} \union Made(d)

\* claim_retryable_documents: a rejected one is never pending again.
RetryableDocuments(d) ==
  ({e \in DOMAIN filed : filed[e].status = "pending"} \ UNION {Holds(x) : x \in Dispatcher})
    \union Made(d)

-----------------------------------------------------------------------------
(* The sales leave an event; the process restarts with another provider. *)

\* The event is written in the transaction of the sale.
Record(o, kind) ==
  /\ Len(outbox) < MaxEvents
  /\ outbox' = Append(outbox, [order |-> o, kind |-> kind, under |-> provider])
  /\ accepts' = Append(accepts, 0)
  /\ lost' = Append(lost, 0)
  /\ UNCHANGED <<fiscalRows, provider, passVars, crashes>>

\* A provider that is not one of PROVIDERS stops the start.  A restart ends the
\* passes: this one comes when none runs, Die ends one that does.
Restart(p) ==
  /\ p # provider
  /\ \A d \in Dispatcher : stage[d] = "idle"
  /\ provider' = p
  /\ UNCHANGED <<outbox, fiscalRows, passVars, accepts, lost, crashes>>

-----------------------------------------------------------------------------
(* A pass: dispatch_pending. *)

\* Step A.  The documents of one pass share created_at, the start of its
\* transaction, so that their order is the order of their random ids.
ClaimEvents(d) ==
  /\ stage[d] = "idle" /\ Event # {}
  /\ \E T \in FirstOf(PendingSaleEvents, Limit, [e \in Event |-> e]) :
       /\ taken' = [taken EXCEPT ![d] = T]
       /\ born'  = [born EXCEPT ![d] = IF provider = "none" \/ T = {} THEN 0 ELSE
                      1 + Max({0} \union {filed[e].born : e \in DOMAIN filed}
                                  \union {born[x] : x \in Dispatcher})]
  /\ stage' = [stage EXCEPT ![d] = IF provider = "none" THEN "commit" ELSE "claim"]
  /\ UNCHANGED <<outbox, fiscalRows, provider, batch, answers, accepts, lost, crashes>>

\* Step B, the claim: also the documents of another provider.
ClaimDocuments(d) ==
  /\ stage[d] = "claim"
  /\ \E T \in FirstOf(RetryableDocuments(d), Limit, [e \in Event |-> BornOf(d, e)]) :
       batch' = [batch EXCEPT ![d] = T]
  /\ stage' = [stage EXCEPT ![d] = "send"]
  /\ UNCHANGED <<outbox, fiscalRows, provider, taken, born, answers, accepts, lost, crashes>>

\* The status a document takes: FiscalError leaves it pending.
StatusAfter(a) == IF a = "error" THEN "pending" ELSE a

PassEnds(d) ==
  /\ stage'   = [stage EXCEPT ![d] = "idle"]
  /\ taken'   = [taken EXCEPT ![d] = {}]
  /\ born'    = [born EXCEPT ![d] = 0]
  /\ batch'   = [batch EXCEPT ![d] = {}]
  /\ answers' = [answers EXCEPT ![d] = << >>]

Oldest(d, e) == \A x \in batch[d] : BornOf(d, e) <= BornOf(d, x)

\* Mutant: FiscalError is not caught and rolls the pass back.
Submit_ErrorPropagates(d, e, a) ==
  /\ stage[d] = "send" /\ e \in batch[d] /\ Oldest(d, e)
  /\ IF a = "error"
     THEN PassEnds(d) /\ UNCHANGED accepts
     ELSE /\ batch'   = [batch EXCEPT ![d] = @ \ {e}]
          /\ answers' = [answers EXCEPT ![d] = [x \in DOMAIN @ \union {e} |->
                           IF x = e THEN a ELSE @[x]]]
          /\ accepts' = [accepts EXCEPT ![e] = IF a = "accepted" THEN @ + 1 ELSE @]
          /\ UNCHANGED <<stage, taken, born>>
  /\ UNCHANGED <<outbox, fiscalRows, provider, lost, crashes>>

\* _submit_document: the oldest first.
Submit(d, e, a) ==
  /\ stage[d] = "send" /\ e \in batch[d] /\ Oldest(d, e)
  /\ batch'   = [batch EXCEPT ![d] = @ \ {e}]
  /\ answers' = [answers EXCEPT ![d] = [x \in DOMAIN @ \union {e} |->
                   IF x = e THEN StatusAfter(a) ELSE @[x]]]
  /\ accepts' = [accepts EXCEPT ![e] = IF a = "accepted" THEN @ + 1 ELSE @]
  /\ UNCHANGED <<outbox, fiscalRows, provider, stage, taken, born, lost, crashes>>

\* What the pass leaves of each document it made or submitted.
Outcome(d, e) ==
  [type   |-> DocTypeFor(outbox[e].kind),
   under  |-> IF e \in DOMAIN filed THEN filed[e].under ELSE provider,
   born   |-> BornOf(d, e),
   status |-> IF e \in DOMAIN answers[d] THEN answers[d][e] ELSE "pending"]

\* Mutant: the events are marked after the commit of the documents, in another
\* transaction that a pass of provider "none" runs too.
CommitPass_MarksNothing(d) ==
  /\ stage[d] = "commit" \/ (stage[d] = "send" /\ batch[d] = {})
  /\ consumed' = consumed
  /\ filed' = [e \in DOMAIN filed \union Made(d) \union DOMAIN answers[d] |->
                 IF e \in Made(d) \union DOMAIN answers[d] THEN Outcome(d, e) ELSE filed[e]]
  /\ PassEnds(d)
  /\ UNCHANGED <<outbox, provider, accepts, lost, crashes>>

CommitPass(d) ==
  /\ stage[d] = "commit" \/ (stage[d] = "send" /\ batch[d] = {})
  /\ consumed' = [e \in DOMAIN consumed \union taken[d] |->
                    IF e \in taken[d] THEN provider ELSE consumed[e]]
  /\ filed' = [e \in DOMAIN filed \union Made(d) \union DOMAIN answers[d] |->
                 IF e \in Made(d) \union DOMAIN answers[d] THEN Outcome(d, e) ELSE filed[e]]
  /\ PassEnds(d)
  /\ UNCHANGED <<outbox, provider, accepts, lost, crashes>>

\* The process or its connection dies: all of the pass is rolled back, but not
\* what the regime has accepted.
Die(d) ==
  /\ stage[d] # "idle" /\ crashes < MaxCrashes
  /\ PassEnds(d)
  /\ lost' = [e \in Event |-> lost[e] + IF InFlight(d, e) THEN 1 ELSE 0]
  /\ crashes' = crashes + 1
  /\ UNCHANGED <<outbox, fiscalRows, provider, accepts>>

PassStep(d) ==
  \/ ClaimEvents(d) \/ ClaimDocuments(d) \/ CommitPass(d)
  \/ \E e \in Event, a \in Answer : Submit(d, e, a)

FiscalNext ==
  \/ \E d \in Dispatcher : PassStep(d) \/ Die(d)
  \/ \E p \in Regime \union {"none"} : Restart(p)

-----------------------------------------------------------------------------
(* Properties. *)

FiscalTypeOK ==
  /\ DOMAIN consumed \subseteq Event /\ DOMAIN accepts = Event
  /\ DOMAIN filed \subseteq Event
  /\ \A e \in DOMAIN filed :
       /\ filed[e].status \in {"pending", "accepted", "rejected"}
       /\ filed[e].type = DocTypeFor(outbox[e].kind)
       /\ filed[e].under \in Regime
  /\ \A d \in Dispatcher :
       /\ stage[d] \in {"idle", "claim", "send", "commit"}
       /\ taken[d] \subseteq Event
       /\ stage[d] = "idle" => taken[d] = {} /\ Holds(d) = {}

\* Nothing is lost and nothing doubled: an event a real provider consumed has
\* its document, one that none consumed has not, and one with a document is
\* never consumed again.
ConsumedHasDocument ==
  \A e \in Event : e \in DOMAIN filed <=> (e \in DOMAIN consumed /\ consumed[e] # "none")

\* Each acceptance of the regime is on file, or in a pass that still runs, or
\* in one that crashed: two passes never submit the same document, and one is
\* accepted again only if a crash forgot that it was.
AcceptancesKept ==
  \A e \in Event :
    accepts[e] = lost[e] + Cardinality({d \in Dispatcher : InFlight(d, e)})
                 + (IF e \in DOMAIN filed /\ filed[e].status = "accepted" THEN 1 ELSE 0)

\* "When a real regime is activated only NEW events are processed": an event
\* left under no regime never gets a document (adapters/fiscal.py).
OnlyNewEvents == \A e \in DOMAIN filed : outbox[e].under # "none"
=============================================================================
