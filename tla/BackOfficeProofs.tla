-------------------------- MODULE BackOfficeProofs --------------------------
(***************************************************************************)
(* What is done away from the counter, for every value of the constants.   *)
(* First the paperwork: the fiscal passes and the invoices.  Then the rows *)
(* the office edits: sessions, prices, taxes and forms, for any number of  *)
(* handlers, requests and rows.  The two share no variable.                *)
(***************************************************************************)
EXTENDS Paperwork, Office, Sums, SequenceTheorems

(* The inductive invariant of the passes. *)

SaleEvent == [order : Sale, kind : EventType, under : Regime \union {"none"}]
Status == {"pending", "accepted", "rejected"}

PassTypes ==
  /\ outbox \in Seq(SaleEvent) /\ provider \in Regime \union {"none"}
  /\ accepts \in [Event -> Nat] /\ lost \in [Event -> Nat]
  /\ DOMAIN consumed \subseteq Event /\ DOMAIN filed \subseteq Event
  /\ stage \in [Dispatcher -> {"idle", "claim", "send", "commit"}]
  /\ taken \in [Dispatcher -> SUBSET Event] /\ batch \in [Dispatcher -> SUBSET Event]
  /\ answers = [d \in Dispatcher |-> answers[d]]
  /\ \A d \in Dispatcher : DOMAIN answers[d] \subseteq Event

\* What is on file of an event.
Filings ==
  \A e \in DOMAIN filed : /\ filed[e].status \in Status /\ filed[e].under \in Regime
                          /\ filed[e].type = DocTypeFor(outbox[e].kind)

\* Only a pass of a real provider claims documents, only one that sends holds
\* some, and one that does nothing has claimed nothing.
Stages ==
  \A d \in Dispatcher :
    /\ stage[d] \in {"claim", "send"} => provider # "none"
    /\ stage[d] = "commit" => provider = "none"
    /\ stage[d] # "send" => Holds(d) = {}
    /\ stage[d] = "idle" => taken[d] = {}

\* SKIP LOCKED on the events: those claimed are claimed by one pass, and none
\* consumed them.
Claimed ==
  \A d \in Dispatcher :
    /\ taken[d] \intersect DOMAIN consumed = {}
    /\ \A x \in Dispatcher \ {d} : taken[d] \intersect taken[x] = {}

\* SKIP LOCKED on the documents: those held are held by one pass, each is
\* submitted once, and is either pending on file or made by the pass.
Held ==
  \A d \in Dispatcher :
    /\ batch[d] \intersect DOMAIN answers[d] = {}
    /\ \A e \in DOMAIN answers[d] : answers[d][e] \in Status
    /\ \A e \in Holds(d) : IF e \in DOMAIN filed THEN filed[e].status = "pending"
                                                 ELSE e \in taken[d]
    /\ \A x \in Dispatcher \ {d} : Holds(d) \intersect Holds(x) = {}

\* AcceptancesKept, where Held says that no count is above one.
KeptOnFile(e) == IF e \in DOMAIN filed /\ filed[e].status = "accepted" THEN 1 ELSE 0
Fly(e)  == IF \E d \in Dispatcher : InFlight(d, e) THEN 1 ELSE 0
Balanced == \A e \in Event : accepts[e] = lost[e] + Fly(e) + KeptOnFile(e)

PassInv ==
  /\ PassTypes /\ Filings /\ Stages /\ Claimed /\ Held
  /\ ConsumedHasDocument /\ Balanced

-----------------------------------------------------------------------------
(* Each step of a pass keeps it. *)

LEMMA InitPassInv == FiscalInit => PassInv
<1> SUFFICES ASSUME FiscalInit PROVE PassInv
  OBVIOUS
<1>1. Event = {}
  BY DEF FiscalInit, Event
<1>2. PassTypes
  BY <1>1 DEF FiscalInit, PassTypes
<1>3. Filings /\ Stages /\ Claimed /\ Held
  BY <1>1 DEF FiscalInit, Filings, Stages, Claimed, Held, Holds
<1>4. ConsumedHasDocument /\ Balanced
  BY <1>1 DEF ConsumedHasDocument, Balanced
<1> QED
  BY <1>2, <1>3, <1>4 DEF PassInv

\* One pass at most has an acceptance of e in flight.
Flying(e) == {d \in Dispatcher : InFlight(d, e)}

LEMMA FlyingAlone ==
  ASSUME Held, NEW e
  PROVE  /\ IsFiniteSet(Flying(e)) /\ Cardinality(Flying(e)) \in {0, 1}
         /\ \A d \in Dispatcher : InFlight(d, e) => Flying(e) = {d} /\ Cardinality(Flying(e)) = 1
         /\ (\A d \in Dispatcher : ~InFlight(d, e)) => Flying(e) = {} /\ Cardinality(Flying(e)) = 0
<1>1. ASSUME NEW d \in Dispatcher, InFlight(d, e) PROVE Flying(e) = {d}
  BY <1>1 DEF Flying, InFlight, Held, Holds
<1>2. (\A d \in Dispatcher : ~InFlight(d, e)) => Flying(e) = {}
  BY DEF Flying
<1>3. \A d \in Dispatcher : IsFiniteSet({d}) /\ Cardinality({d}) = 1
  BY FS_Singleton
<1>4. IsFiniteSet({}) /\ Cardinality({}) = 0
  BY FS_EmptySet
<1> QED
  BY <1>1, <1>2, <1>3, <1>4

LEMMA CountIsFly == Held => (AcceptancesKept <=> Balanced)
<1> SUFFICES ASSUME Held PROVE AcceptancesKept <=> Balanced
  OBVIOUS
<1>1. ASSUME NEW e PROVE Cardinality({d \in Dispatcher : InFlight(d, e)}) = Fly(e)
  BY FlyingAlone DEF Flying, Fly
<1> QED
  BY <1>1 DEF AcceptancesKept, Balanced, KeptOnFile

LEMMA FunctionIsSeq ==
  ASSUME NEW n \in Nat, NEW f \in [1..n -> Nat]
  PROVE  f \in Seq(Nat) /\ Len(f) = n
<1>1. f = [i \in 1..n |-> f[i]] /\ \A i \in 1..n : f[i] \in Nat
  OBVIOUS
<1>2. [i \in 1..n |-> f[i]] \in Seq(Nat)
  BY <1>1
<1>3. Len(f) \in Nat /\ DOMAIN f = 1..Len(f)
  BY <1>1, <1>2, LenProperties
<1> QED
  BY <1>1, <1>2, <1>3

LEMMA AppendedZero ==
  ASSUME NEW n \in Nat, NEW f \in [1..n -> Nat]
  PROVE  /\ Append(f, 0) \in [1..(n + 1) -> Nat] /\ Append(f, 0)[n + 1] = 0
         /\ \A i \in 1..n : Append(f, 0)[i] = f[i]
<1>1. f \in Seq(Nat) /\ Len(f) = n
  BY FunctionIsSeq
<1> DEFINE g == Append(f, 0)
<1>2. g \in Seq(Nat) /\ Len(g) = n + 1
  BY <1>1, AppendProperties
<1>3. g \in [1..(n + 1) -> Nat]
  BY <1>2, LenProperties
<1>4. g[n + 1] = 0 /\ \A i \in 1..n : g[i] = f[i]
  BY <1>1, AppendProperties
<1> QED
  BY <1>3, <1>4

\* A sale leaves an event.
LEMMA RecordInv ==
  ASSUME PassInv, NEW o \in Sale, NEW k \in EventType, Record(o, k)
  PROVE  PassInv'
<1> DEFINE ev == [order |-> o, kind |-> k, under |-> provider]
           n  == Len(outbox)
<1>0. PassTypes /\ Filings /\ Stages /\ Claimed /\ Held /\ ConsumedHasDocument /\ Balanced
  BY DEF PassInv
<1>1. ev \in SaleEvent
  BY <1>0 DEF PassTypes, SaleEvent
<1>2. /\ outbox' \in Seq(SaleEvent) /\ n \in Nat
      /\ Event = 1..n /\ Event' = 1..(n + 1)
      /\ \A e \in Event : outbox'[e] = outbox[e]
  BY <1>0, <1>1 DEF PassTypes, Record, Event
<1>4. /\ accepts' \in [Event' -> Nat] /\ lost' \in [Event' -> Nat]
      /\ accepts'[n + 1] = 0 /\ lost'[n + 1] = 0
      /\ \A e \in Event : accepts'[e] = accepts[e] /\ lost'[e] = lost[e]
  <2>1. accepts' = Append(accepts, 0) /\ lost' = Append(lost, 0)
    BY DEF Record
  <2>2. accepts \in [1..n -> Nat] /\ lost \in [1..n -> Nat]
    BY <1>0, <1>2 DEF PassTypes
  <2> QED
    BY ONLY <2>1, <2>2, <1>2, AppendedZero
<1>5. UNCHANGED <<consumed, filed, provider, stage, taken, born, batch, answers>>
  BY DEF Record, fiscalRows, passVars
<1>6. Event \subseteq Event' /\ n + 1 \notin Event
  BY <1>2
<1>7. PassTypes'
  BY <1>0, <1>2, <1>4, <1>5, <1>6 DEF PassTypes
<1>8. Filings'
  BY <1>0, <1>2, <1>5 DEF PassTypes, Filings
<1>9. Stages' /\ Claimed' /\ Held'
  BY <1>0, <1>5 DEF Stages, Claimed, Held, Holds
<1>10. ConsumedHasDocument'
  BY <1>0, <1>2, <1>5 DEF PassTypes, ConsumedHasDocument
<1>11. Balanced'
  <2> SUFFICES ASSUME NEW e \in Event' PROVE accepts'[e] = lost'[e] + Fly(e)' + KeptOnFile(e)'
    BY DEF Balanced
  <2>1. Fly(e)' = Fly(e) /\ KeptOnFile(e)' = KeptOnFile(e)
    BY <1>5 DEF Fly, KeptOnFile, InFlight
  <2>2. CASE e \in Event
    BY <1>0, <1>4, <2>1, <2>2 DEF Balanced
  <2>3. CASE e = n + 1
    <3>1. Fly(e) = 0 /\ KeptOnFile(e) = 0
      BY <1>0, <1>6, <2>3 DEF PassTypes, Fly, KeptOnFile, InFlight
    <3> QED
      BY <1>4, <2>1, <2>3, <3>1
  <2> QED
    BY <1>2, <2>2, <2>3
<1> QED
  BY <1>7, <1>8, <1>9, <1>10, <1>11 DEF PassInv

\* The process restarts with another provider.
LEMMA RestartInv ==
  ASSUME PassInv, NEW p \in Regime \union {"none"}, Restart(p)
  PROVE  PassInv'
<1>1. UNCHANGED <<outbox, consumed, filed, stage, taken, born, batch, answers, accepts, lost, crashes>>
  BY DEF Restart, fiscalRows, passVars
<1>2. PassTypes'
  BY <1>1 DEF PassInv, PassTypes, Restart, Event
<1>3. Filings'
  BY <1>1 DEF PassInv, Filings
<1>4. Stages'
  BY <1>1 DEF PassInv, Stages, Restart, Holds
<1>5. Claimed' /\ Held'
  BY <1>1 DEF PassInv, Claimed, Held, Holds
<1>6. ConsumedHasDocument' /\ Balanced'
  BY <1>1 DEF PassInv, ConsumedHasDocument, Balanced, Fly, KeptOnFile, InFlight, Event
<1> QED
  BY <1>2, <1>3, <1>4, <1>5, <1>6 DEF PassInv

LEMMA ClaimEventsInv ==
  ASSUME PassInv, NEW d \in Dispatcher, ClaimEvents(d)
  PROVE  PassInv'
<1>0. PassTypes /\ Filings /\ Stages /\ Claimed /\ Held /\ ConsumedHasDocument /\ Balanced
  BY DEF PassInv
<1>1. UNCHANGED <<outbox, consumed, filed, provider, batch, answers, accepts, lost, crashes>>
  BY DEF ClaimEvents, fiscalRows
<1>2. PICK T \in SUBSET PendingSaleEvents : taken' = [taken EXCEPT ![d] = T]
  BY DEF ClaimEvents, FirstOf
<1>3. stage[d] = "idle" /\ stage' = [stage EXCEPT ![d] = IF provider = "none" THEN "commit" ELSE "claim"]
  BY DEF ClaimEvents
<1>4. T \subseteq Event /\ T \intersect DOMAIN consumed = {}
      /\ \A x \in Dispatcher : T \intersect taken[x] = {}
  BY DEF PendingSaleEvents
<1>5. taken[d] = {} /\ Holds(d) = {} /\ \A x \in Dispatcher : Holds(x)' = Holds(x)
  BY <1>0, <1>1, <1>3 DEF Stages, Holds
<1>6. /\ taken'[d] = T /\ \A x \in Dispatcher \ {d} : taken'[x] = taken[x] /\ stage'[x] = stage[x]
      /\ stage'[d] = IF provider = "none" THEN "commit" ELSE "claim"
  BY <1>0, <1>2, <1>3 DEF PassTypes
<1>7. PassTypes'
  <2>1. taken' \in [Dispatcher -> SUBSET Event]
    BY <1>0, <1>2, <1>4 DEF PassTypes
  <2>2. stage' \in [Dispatcher -> {"idle", "claim", "send", "commit"}]
    BY <1>0, <1>3 DEF PassTypes
  <2> QED
    BY <1>0, <1>1, <2>1, <2>2 DEF PassTypes, Event
<1>8. Filings'
  BY <1>0, <1>1 DEF Filings
<1>9. Stages'
  BY <1>0, <1>1, <1>5, <1>6 DEF Stages
<1>10. Claimed'
  BY <1>0, <1>1, <1>4, <1>6 DEF Claimed
<1>11. Held'
  BY <1>0, <1>1, <1>5, <1>6 DEF Held
<1>12. ConsumedHasDocument' /\ Balanced'
  BY <1>0, <1>1 DEF ConsumedHasDocument, Balanced, Fly, KeptOnFile, InFlight, Event
<1> QED
  BY <1>7, <1>8, <1>9, <1>10, <1>11, <1>12 DEF PassInv

LEMMA ClaimDocumentsInv ==
  ASSUME PassInv, NEW d \in Dispatcher, ClaimDocuments(d)
  PROVE  PassInv'
<1>0. PassTypes /\ Filings /\ Stages /\ Claimed /\ Held /\ ConsumedHasDocument /\ Balanced
  BY DEF PassInv
<1>1. UNCHANGED <<outbox, consumed, filed, provider, taken, born, answers, accepts, lost, crashes>>
  BY DEF ClaimDocuments, fiscalRows
<1>2. PICK T \in SUBSET RetryableDocuments(d) : batch' = [batch EXCEPT ![d] = T]
  BY DEF ClaimDocuments, FirstOf
<1>3. stage[d] = "claim" /\ stage' = [stage EXCEPT ![d] = "send"]
  BY DEF ClaimDocuments
<1>4. Holds(d) = {} /\ DOMAIN answers[d] = {}
  BY <1>0, <1>3 DEF Stages, Holds
<1>5. ASSUME NEW e \in T
      PROVE  /\ e \in Event /\ (IF e \in DOMAIN filed THEN filed[e].status = "pending" ELSE e \in taken[d])
             /\ \A x \in Dispatcher \ {d} : e \notin Holds(x)
  <2>1. CASE e \in Made(d)
    <3>1. e \in taken[d] /\ e \notin DOMAIN filed
      BY <2>1 DEF Made
    <3>2. \A x \in Dispatcher \ {d} : e \notin taken[x]
      BY <1>0, <3>1 DEF Claimed
    <3>3. \A x \in Dispatcher \ {d} : e \notin Holds(x)
      BY <1>0, <3>1, <3>2 DEF Held
    <3> QED
      BY <1>0, <3>1, <3>3 DEF PassTypes
  <2>2. CASE e \notin Made(d)
    BY <1>0, <2>2 DEF RetryableDocuments, PassTypes
  <2> QED
    BY <2>1, <2>2
<1>6. /\ batch'[d] = T /\ \A x \in Dispatcher \ {d} : batch'[x] = batch[x] /\ stage'[x] = stage[x]
      /\ stage'[d] = "send"
  BY <1>0, <1>2, <1>3 DEF PassTypes
<1>7. Holds(d)' = T /\ \A x \in Dispatcher \ {d} : Holds(x)' = Holds(x)
  BY <1>1, <1>4, <1>6 DEF Holds
<1>8. PassTypes'
  <2>1. batch' \in [Dispatcher -> SUBSET Event]
    BY <1>0, <1>2, <1>5 DEF PassTypes
  <2>2. stage' \in [Dispatcher -> {"idle", "claim", "send", "commit"}]
    BY <1>0, <1>3 DEF PassTypes
  <2> QED
    BY <1>0, <1>1, <2>1, <2>2 DEF PassTypes, Event
<1>9. Filings'
  BY <1>0, <1>1 DEF Filings
<1>10. Stages'
  BY <1>0, <1>1, <1>3, <1>6, <1>7 DEF Stages
<1>11. Claimed'
  BY <1>0, <1>1 DEF Claimed
<1>12. Held'
  BY <1>0, <1>1, <1>4, <1>5, <1>6, <1>7 DEF Held
<1>13. ConsumedHasDocument' /\ Balanced'
  BY <1>0, <1>1 DEF ConsumedHasDocument, Balanced, Fly, KeptOnFile, InFlight, Event
<1> QED
  BY <1>8, <1>9, <1>10, <1>11, <1>12, <1>13 DEF PassInv

LEMMA SubmitInv ==
  ASSUME PassInv, NEW d \in Dispatcher, NEW e \in Event, NEW a \in Answer, Submit(d, e, a)
  PROVE  PassInv'
<1>0. PassTypes /\ Filings /\ Stages /\ Claimed /\ Held /\ ConsumedHasDocument /\ Balanced
  BY DEF PassInv
<1>1. UNCHANGED <<outbox, consumed, filed, provider, stage, taken, born, lost, crashes>>
  BY DEF Submit, fiscalRows
<1>2. stage[d] = "send" /\ e \in batch[d] /\ e \notin DOMAIN answers[d]
  BY <1>0 DEF Submit, Held
<1>3. /\ batch'[d] = batch[d] \ {e}
      /\ answers'[d] = [x \in DOMAIN answers[d] \union {e} |->
                          IF x = e THEN StatusAfter(a) ELSE answers[d][x]]
      /\ \A x \in Dispatcher \ {d} : batch'[x] = batch[x] /\ answers'[x] = answers[x]
      /\ answers' = [x \in Dispatcher |-> answers'[x]]
  BY <1>0 DEF Submit, PassTypes
<1>4. \A x \in Dispatcher : Holds(x)' = Holds(x)
  BY <1>2, <1>3 DEF Holds
<1>5. StatusAfter(a) \in Status /\ (StatusAfter(a) = "accepted" <=> a = "accepted")
  BY FiscalAssumption DEF StatusAfter, Status
<1>6. PassTypes'
  <2>1. batch' \in [Dispatcher -> SUBSET Event]
    BY <1>0 DEF PassTypes, Submit
  <2>2. accepts' \in [Event -> Nat]
    BY <1>0 DEF PassTypes, Submit
  <2>3. ASSUME NEW x \in Dispatcher PROVE DOMAIN answers'[x] \subseteq Event
    <3>1. CASE x = d
      BY <1>0, <1>3, <3>1 DEF PassTypes
    <3>2. CASE x # d
      BY <1>0, <1>3, <3>2 DEF PassTypes
    <3> QED
      BY <3>1, <3>2
  <2> QED
    BY <1>0, <1>1, <1>3, <2>1, <2>2, <2>3 DEF PassTypes, Event
<1>7. Filings'
  BY <1>0, <1>1 DEF Filings
<1>8. Stages' /\ Claimed'
  BY <1>0, <1>1, <1>4 DEF Stages, Claimed
<1>9. Held'
  <2>1. ASSUME NEW x \in Dispatcher
        PROVE  /\ batch'[x] \intersect DOMAIN answers'[x] = {}
               /\ \A y \in DOMAIN answers'[x] : answers'[x][y] \in Status
    BY <1>0, <1>3, <1>5 DEF Held
  <2> QED
    BY <1>0, <1>1, <1>4, <2>1 DEF Held
<1>10. ConsumedHasDocument'
  BY <1>0, <1>1 DEF ConsumedHasDocument, Event
<1>11. Balanced'
  <2> SUFFICES ASSUME NEW y \in Event PROVE accepts'[y] = lost'[y] + Fly(y)' + KeptOnFile(y)'
    BY <1>1 DEF Balanced, Event
  <2>1. KeptOnFile(y)' = KeptOnFile(y) /\ accepts[y] = lost[y] + Fly(y) + KeptOnFile(y) /\ lost'[y] = lost[y]
    BY <1>0, <1>1 DEF KeptOnFile, Balanced
  <2>2. CASE y # e
    <3>1. Fly(y)' = Fly(y)
      BY <1>3, <2>2 DEF Fly, InFlight
    <3>2. accepts'[y] = accepts[y]
      BY <1>0, <2>2 DEF Submit, PassTypes
    <3> QED
      BY <2>1, <3>1, <3>2
  <2>3. CASE y = e
    <3>1. \A x \in Dispatcher \ {d} : e \notin DOMAIN answers[x]
      BY <1>0, <1>2 DEF Held, Holds
    <3>2. Fly(e) = 0
      BY <1>2, <3>1 DEF Fly, InFlight
    <3>3. Fly(e)' = IF a = "accepted" THEN 1 ELSE 0
      BY <1>3, <1>5, <3>1 DEF Fly, InFlight
    <3>4. accepts'[e] = IF a = "accepted" THEN accepts[e] + 1 ELSE accepts[e]
      BY <1>0 DEF Submit, PassTypes
    <3>5. accepts[e] \in Nat /\ lost[e] \in Nat /\ KeptOnFile(e) \in Nat
      BY <1>0 DEF PassTypes, KeptOnFile
    <3> QED
      BY <2>1, <2>3, <3>2, <3>3, <3>4, <3>5
  <2> QED
    BY <2>2, <2>3
<1> QED
  BY <1>6, <1>7, <1>8, <1>9, <1>10, <1>11 DEF PassInv

\* What a pass that ends leaves of its own state.
LEMMA EndedPass ==
  ASSUME PassTypes, NEW d \in Dispatcher, PassEnds(d)
  PROVE  /\ stage'[d] = "idle" /\ taken'[d] = {} /\ batch'[d] = {} /\ DOMAIN answers'[d] = {}
         /\ Holds(d)' = {}
         /\ \A x \in Dispatcher \ {d} :
              /\ stage'[x] = stage[x] /\ taken'[x] = taken[x]
              /\ batch'[x] = batch[x] /\ answers'[x] = answers[x] /\ Holds(x)' = Holds(x)
         /\ stage' \in [Dispatcher -> {"idle", "claim", "send", "commit"}]
         /\ taken' \in [Dispatcher -> SUBSET Event] /\ batch' \in [Dispatcher -> SUBSET Event]
         /\ answers' = [x \in Dispatcher |-> answers'[x]]
         /\ \A x \in Dispatcher : DOMAIN answers'[x] \subseteq Event
<1>1. stage'[d] = "idle" /\ taken'[d] = {} /\ batch'[d] = {} /\ DOMAIN answers'[d] = {}
  BY DEF PassTypes, PassEnds
<1>2. \A x \in Dispatcher \ {d} :
        /\ stage'[x] = stage[x] /\ taken'[x] = taken[x]
        /\ batch'[x] = batch[x] /\ answers'[x] = answers[x]
  BY DEF PassTypes, PassEnds
<1>3. /\ stage' \in [Dispatcher -> {"idle", "claim", "send", "commit"}]
      /\ taken' \in [Dispatcher -> SUBSET Event] /\ batch' \in [Dispatcher -> SUBSET Event]
      /\ answers' = [x \in Dispatcher |-> answers'[x]]
  BY DEF PassTypes, PassEnds
<1>4. \A x \in Dispatcher : DOMAIN answers'[x] \subseteq Event
  BY <1>1, <1>2 DEF PassTypes
<1> QED
  BY <1>1, <1>2, <1>3, <1>4 DEF Holds

LEMMA DieInv ==
  ASSUME PassInv, NEW d \in Dispatcher, Die(d)
  PROVE  PassInv'
<1>0. PassTypes /\ Filings /\ Stages /\ Claimed /\ Held /\ ConsumedHasDocument /\ Balanced
  BY DEF PassInv
<1>1. UNCHANGED <<outbox, consumed, filed, provider, accepts>> /\ PassEnds(d)
  BY DEF Die, fiscalRows
<1>2. lost' = [e \in Event |-> lost[e] + IF InFlight(d, e) THEN 1 ELSE 0]
  BY DEF Die
<1>3. PassTypes'
  <2>1. lost' \in [Event -> Nat]
    BY <1>0, <1>2 DEF PassTypes
  <2> QED
    BY <1>0, <1>1, <2>1, EndedPass DEF PassTypes, Event
<1>4. Filings'
  BY <1>0, <1>1 DEF Filings
<1>5. Stages' /\ Claimed'
  BY <1>0, <1>1, EndedPass DEF Stages, Claimed
<1>6. Held'
  BY <1>0, <1>1, EndedPass DEF Held
<1>7. ConsumedHasDocument'
  BY <1>0, <1>1 DEF ConsumedHasDocument, Event
<1>8. Balanced'
  <2> SUFFICES ASSUME NEW e \in Event PROVE accepts'[e] = lost'[e] + Fly(e)' + KeptOnFile(e)'
    BY <1>1 DEF Balanced, Event
  <2>1. KeptOnFile(e)' = KeptOnFile(e) /\ accepts'[e] = lost[e] + Fly(e) + KeptOnFile(e)
    BY <1>0, <1>1 DEF KeptOnFile, Balanced
  <2>2. Fly(e)' = IF \E x \in Dispatcher \ {d} : InFlight(x, e) THEN 1 ELSE 0
    BY <1>0, <1>1, EndedPass DEF Fly, InFlight
  <2>3. InFlight(d, e) => \A x \in Dispatcher \ {d} : ~InFlight(x, e)
    BY <1>0 DEF Held, Holds, InFlight
  <2>4. lost[e] \in Nat /\ KeptOnFile(e) \in Nat
    BY <1>0 DEF PassTypes, KeptOnFile
  <2>5. CASE InFlight(d, e)
    BY <1>2, <2>1, <2>2, <2>3, <2>4, <2>5 DEF Fly
  <2>6. CASE ~InFlight(d, e)
    <3>1. Fly(e)' = Fly(e)
      BY <2>2, <2>6 DEF Fly
    <3> QED
      BY <1>2, <2>1, <2>4, <2>6, <3>1
  <2> QED
    BY <2>5, <2>6
<1> QED
  BY <1>3, <1>4, <1>5, <1>6, <1>7, <1>8 DEF PassInv

LEMMA OutcomeFields ==
  ASSUME NEW d, NEW e
  PROVE  /\ Outcome(d, e).type = DocTypeFor(outbox[e].kind)
         /\ Outcome(d, e).under = IF e \in DOMAIN filed THEN filed[e].under ELSE provider
         /\ Outcome(d, e).status = IF e \in DOMAIN answers[d] THEN answers[d][e] ELSE "pending"
BY DEF Outcome

\* What a pass writes at its commit: of its own documents, and of no other's.
LEMMA Committed ==
  ASSUME PassInv, NEW d \in Dispatcher, CommitPass(d)
  PROVE  LET M == Made(d) \union DOMAIN answers[d]
         IN  /\ DOMAIN filed' = DOMAIN filed \union M
             /\ \A e \in DOMAIN filed \ M : filed'[e] = filed[e]
             /\ \A e \in M : /\ e \in Event /\ filed'[e] = Outcome(d, e)
                             /\ filed'[e].status \in Status
                             /\ filed'[e].status = "accepted" <=> InFlight(d, e)
                             /\ e \in DOMAIN filed => filed[e].status = "pending"
                             /\ \A x \in Dispatcher \ {d} : e \notin Holds(x) /\ e \notin taken[x]
             /\ DOMAIN answers[d] \subseteq DOMAIN filed \union taken[d]
             /\ IF provider = "none" THEN M = {} ELSE Made(d) = taken[d]
<1>0. PassTypes /\ Filings /\ Stages /\ Claimed /\ Held /\ ConsumedHasDocument /\ Balanced
  BY DEF PassInv
<1> DEFINE M == Made(d) \union DOMAIN answers[d]
<1>1. filed' = [e \in DOMAIN filed \union M |-> IF e \in M THEN Outcome(d, e) ELSE filed[e]]
  BY DEF CommitPass
<1>2. DOMAIN filed' = DOMAIN filed \union M /\ \A e \in DOMAIN filed \ M : filed'[e] = filed[e]
  BY <1>1
<1>3. \A e \in M : filed'[e] = Outcome(d, e)
  BY <1>1
<1>4. taken[d] \intersect DOMAIN filed = {}
  BY <1>0 DEF Claimed, ConsumedHasDocument, PassTypes
<1>5. IF provider = "none" THEN Made(d) = {} ELSE Made(d) = taken[d]
  BY <1>4 DEF Made
<1>6. provider = "none" => DOMAIN answers[d] = {}
  BY <1>0 DEF Stages, Holds
<1>7. DOMAIN answers[d] \subseteq DOMAIN filed \union taken[d]
  BY <1>0 DEF Held, Holds
<1>8. ASSUME NEW e \in M
      PROVE  /\ e \in Event /\ (e \in DOMAIN filed => filed[e].status = "pending")
             /\ (e \notin DOMAIN filed => e \in taken[d])
             /\ filed'[e].status \in Status
             /\ filed'[e].status = "accepted" <=> InFlight(d, e)
  <2>1. e \in Event
    BY <1>0 DEF PassTypes, Made
  <2>2. (e \in DOMAIN filed => filed[e].status = "pending") /\ (e \notin DOMAIN filed => e \in taken[d])
    BY <1>0 DEF Held, Holds, Made
  <2>3. filed'[e].status = IF e \in DOMAIN answers[d] THEN answers[d][e] ELSE "pending"
    BY <1>3, OutcomeFields
  <2>4. filed'[e].status \in Status /\ (filed'[e].status = "accepted" <=> InFlight(d, e))
    BY <1>0, <2>3 DEF Held, Status, InFlight
  <2> QED
    BY <2>1, <2>2, <2>4
<1>9. ASSUME NEW e \in M, NEW x \in Dispatcher \ {d} PROVE e \notin Holds(x) /\ e \notin taken[x]
  <2>1. e \notin taken[x]
    <3>1. CASE e \in DOMAIN filed
      BY <1>0, <3>1 DEF Claimed, ConsumedHasDocument, PassTypes
    <3>2. CASE e \notin DOMAIN filed
      BY <1>0, <1>8, <3>2 DEF Claimed
    <3> QED
      BY <3>1, <3>2
  <2>2. CASE e \in Made(d)
    <3>1. e \notin DOMAIN filed
      BY <2>2 DEF Made
    <3>2. \A y \in Holds(x) : y \in DOMAIN filed \/ y \in taken[x]
      BY <1>0 DEF Held
    <3> QED
      BY <2>1, <3>1, <3>2
  <2>3. CASE e \in DOMAIN answers[d]
    <3>1. e \in Holds(d)
      BY <2>3 DEF Holds
    <3>2. Holds(d) \intersect Holds(x) = {}
      BY <1>0 DEF Held
    <3> QED
      BY <2>1, <3>1, <3>2
  <2> QED
    BY <2>1, <2>2, <2>3
<1> QED
  BY <1>2, <1>3, <1>5, <1>6, <1>7, <1>8, <1>9

LEMMA CommitPassInv ==
  ASSUME PassInv, NEW d \in Dispatcher, CommitPass(d)
  PROVE  PassInv'
<1>0. PassTypes /\ Filings /\ Stages /\ Claimed /\ Held /\ ConsumedHasDocument /\ Balanced
  BY DEF PassInv
<1> DEFINE M == Made(d) \union DOMAIN answers[d]
<1>1. UNCHANGED <<outbox, provider, accepts, lost>> /\ PassEnds(d)
  BY DEF CommitPass
<1>2. /\ DOMAIN consumed' = DOMAIN consumed \union taken[d]
      /\ \A e \in taken[d] : consumed'[e] = provider
      /\ \A e \in DOMAIN consumed \ taken[d] : consumed'[e] = consumed[e]
  BY DEF CommitPass
<1>3. /\ DOMAIN filed' = DOMAIN filed \union M
      /\ \A e \in DOMAIN filed \ M : filed'[e] = filed[e]
      /\ \A e \in M : /\ e \in Event /\ filed'[e] = Outcome(d, e)
                      /\ filed'[e].status \in Status
                      /\ filed'[e].status = "accepted" <=> InFlight(d, e)
                      /\ e \in DOMAIN filed => filed[e].status = "pending"
                      /\ \A x \in Dispatcher \ {d} : e \notin Holds(x) /\ e \notin taken[x]
      /\ DOMAIN answers[d] \subseteq DOMAIN filed \union taken[d]
      /\ IF provider = "none" THEN M = {} ELSE Made(d) = taken[d]
  BY Committed
<1>4. PassTypes'
  <2>1. DOMAIN consumed' \subseteq Event /\ DOMAIN filed' \subseteq Event
    BY <1>0, <1>2, <1>3 DEF PassTypes
  <2> QED
    BY <1>0, <1>1, <2>1, EndedPass DEF PassTypes, Event
<1>5. Filings'
  <2> SUFFICES ASSUME NEW e \in DOMAIN filed'
               PROVE  /\ filed'[e].status \in Status /\ filed'[e].under \in Regime
                      /\ filed'[e].type = DocTypeFor(outbox[e].kind)
    BY <1>1 DEF Filings
  <2>1. CASE e \in M
    <3>1. filed'[e].under = IF e \in DOMAIN filed THEN filed[e].under ELSE provider
      BY <1>3, <2>1, OutcomeFields
    <3>2. provider \in Regime
      BY <1>0, <1>3, <2>1 DEF PassTypes
    <3>3. filed'[e].type = DocTypeFor(outbox[e].kind)
      BY <1>3, <2>1, OutcomeFields
    <3> QED
      BY <1>0, <1>3, <2>1, <3>1, <3>2, <3>3 DEF Filings
  <2>2. CASE e \notin M
    BY <1>0, <1>3, <2>2 DEF Filings
  <2> QED
    BY <2>1, <2>2
<1>6. Stages'
  BY <1>0, <1>1, EndedPass DEF Stages
<1>7. Claimed'
  <2>1. \A x \in Dispatcher \ {d} : taken[x] \intersect DOMAIN consumed' = {}
    BY <1>0, <1>2 DEF Claimed
  <2> QED
    BY <1>0, <1>1, <2>1, EndedPass DEF Claimed
<1>8. Held'
  <2>1. ASSUME NEW x \in Dispatcher \ {d}, NEW e \in Holds(x)
        PROVE  IF e \in DOMAIN filed' THEN filed'[e].status = "pending" ELSE e \in taken[x]
    <3>1. e \notin M
      BY <1>3
    <3> QED
      BY <1>0, <1>3, <3>1 DEF Held
  <2> QED
    BY <1>0, <1>1, <2>1, EndedPass DEF Held
<1>9. ConsumedHasDocument'
  <2> SUFFICES ASSUME NEW e \in Event
               PROVE  e \in DOMAIN filed' <=> (e \in DOMAIN consumed' /\ consumed'[e] # "none")
    BY <1>1 DEF ConsumedHasDocument, Event
  <2>1. CASE e \in taken[d]
    <3>1. e \notin DOMAIN filed
      BY <1>0, <2>1 DEF Claimed, ConsumedHasDocument
    <3> QED
      BY <1>2, <1>3, <2>1, <3>1
  <2>2. CASE e \notin taken[d]
    <3>1. e \in DOMAIN filed' <=> e \in DOMAIN filed
      BY <1>3, <2>2 DEF Made
    <3> QED
      BY <1>0, <1>2, <2>2, <3>1 DEF ConsumedHasDocument
  <2> QED
    BY <2>1, <2>2
<1>10. Balanced'
  <2> SUFFICES ASSUME NEW e \in Event PROVE accepts[e] = lost[e] + Fly(e)' + KeptOnFile(e)'
    BY <1>1 DEF Balanced, Event
  <2>1. Fly(e)' = IF \E x \in Dispatcher \ {d} : InFlight(x, e) THEN 1 ELSE 0
    BY <1>0, <1>1, EndedPass DEF Fly, InFlight
  <2>2. accepts[e] = lost[e] + Fly(e) + KeptOnFile(e) /\ lost[e] \in Nat
    BY <1>0 DEF Balanced, PassTypes
  <2>3. CASE e \in M
    <3>1. \A x \in Dispatcher \ {d} : ~InFlight(x, e)
      BY <1>3, <2>3 DEF Holds, InFlight
    <3>2. Fly(e)' = 0 /\ Fly(e) = IF InFlight(d, e) THEN 1 ELSE 0
      BY <2>1, <3>1 DEF Fly
    <3>3. KeptOnFile(e) = 0 /\ KeptOnFile(e)' = IF InFlight(d, e) THEN 1 ELSE 0
      BY <1>3, <2>3 DEF KeptOnFile
    <3> QED
      BY <2>2, <3>2, <3>3
  <2>4. CASE e \notin M
    <3>1. ~InFlight(d, e)
      BY <2>4 DEF InFlight
    <3>2. Fly(e)' = Fly(e)
      BY <2>1, <3>1 DEF Fly
    <3>3. KeptOnFile(e)' = KeptOnFile(e)
      BY <1>3, <2>4 DEF KeptOnFile
    <3> QED
      BY <2>2, <3>2, <3>3
  <2> QED
    BY <2>3, <2>4
<1> QED
  BY <1>4, <1>5, <1>6, <1>7, <1>8, <1>9, <1>10 DEF PassInv

LEMMA IdleInv == PassInv /\ UNCHANGED fiscalVars => PassInv'
<1> SUFFICES ASSUME PassInv, UNCHANGED fiscalVars PROVE PassInv'
  OBVIOUS
<1>1. UNCHANGED <<outbox, consumed, filed, provider, stage, taken, batch, answers, accepts, lost>>
  BY DEF fiscalVars, fiscalRows, passVars
<1>2. PassTypes' /\ Filings' /\ Stages' /\ Claimed' /\ Held'
  BY <1>1 DEF PassInv, PassTypes, Filings, Stages, Claimed, Held, Holds, Event
<1>3. ConsumedHasDocument' /\ Balanced'
  BY <1>1 DEF PassInv, ConsumedHasDocument, Balanced, Fly, KeptOnFile, InFlight, Event
<1> QED
  BY <1>2, <1>3 DEF PassInv

LEMMA NextPassInv == PassInv /\ [PaperNext]_paperVars => PassInv'
<1> SUFFICES ASSUME PassInv, [PaperNext]_paperVars PROVE PassInv'
  OBVIOUS
<1>1. ASSUME NEW o \in Sale, SaleEventLeft(o) PROVE PassInv'
  BY <1>1, RecordInv DEF SaleEventLeft, ChargeLeavesEvent, VoidLeavesEvent, RefundLeavesEvent, EventType
<1>2. ASSUME NEW d \in Dispatcher,
             \/ ClaimEvents(d) \/ ClaimDocuments(d) \/ CommitPass(d) \/ Die(d)
             \/ \E e \in Event, a \in Answer : Submit(d, e, a)
      PROVE  PassInv'
  BY <1>2, ClaimEventsInv, ClaimDocumentsInv, CommitPassInv, DieInv, SubmitInv
<1>3. ASSUME UNCHANGED fiscalVars PROVE PassInv'
  BY <1>3, IdleInv
<1> QED
  BY <1>1, <1>2, <1>3, RestartInv DEF PaperNext, OfClerks, OfPasses, paperVars

-----------------------------------------------------------------------------
(* The sales leave one event of each kind. *)

SaleTypes == sales \in [Sale -> {"draft", "paid", "voided"}]

\* A sale that has left an event has gone through what the event says, and
\* left no other of the kind.
EventsOfSales ==
  /\ \A e \in Event : IF outbox[e].kind = "sale_voided" THEN sales[outbox[e].order] = "voided"
                      ELSE sales[outbox[e].order] # "draft"
  /\ \A e, f \in Event :
       outbox[e].order = outbox[f].order /\ outbox[e].kind = outbox[f].kind => e = f

SalesInv == SaleTypes /\ EventsOfSales

LEMMA EventFields ==
  ASSUME PassTypes, NEW e \in Event
  PROVE  outbox[e].order \in Sale /\ outbox[e].kind \in EventType
<1>1. outbox[e] \in SaleEvent
  BY DEF PassTypes, Event
<1> QED
  BY <1>1 DEF SaleEvent

LEMMA InitSalesInv == PaperInit => SalesInv
<1> SUFFICES ASSUME PaperInit PROVE SalesInv
  OBVIOUS
<1>1. SaleTypes
  BY DocSceneAssumption DEF PaperInit, DocInit, SaleTypes
<1>2. Event = {}
  BY DEF PaperInit, FiscalInit, Event
<1> QED
  BY <1>1, <1>2 DEF SalesInv, EventsOfSales

\* What each transition of a sale needs and does.
LEMMA SaleMoves ==
  ASSUME SaleTypes, NEW o \in Sale, SaleEventLeft(o)
  PROVE  \E k \in EventType :
           /\ Record(o, k)
           /\ IF k = "sale_voided" THEN sales[o] # "voided" /\ sales'[o] = "voided"
              ELSE sales[o] = "draft" /\ sales'[o] = "paid"
           /\ sales' \in [Sale -> {"draft", "paid", "voided"}]
           /\ \A p \in Sale \ {o} : sales'[p] = sales[p]
           /\ UNCHANGED <<invoices, series, reprints, docWork>>
<1>1. CASE ChargeLeavesEvent(o)
  <2>1. sales[o] = "draft" /\ sales' = [sales EXCEPT ![o] = "paid"]
    BY <1>1 DEF ChargeLeavesEvent, CloseSale
  <2> QED
    BY <1>1, <2>1 DEF ChargeLeavesEvent, CloseSale, SaleTypes, EventType
<1>2. CASE RefundLeavesEvent(o)
  <2>1. sales[o] = "draft" /\ sales' = [sales EXCEPT ![o] = "paid"]
    BY <1>2 DEF RefundLeavesEvent, RefundSale
  <2> QED
    BY <1>2, <2>1 DEF RefundLeavesEvent, RefundSale, SaleTypes, EventType
<1>3. CASE VoidLeavesEvent(o)
  <2>1. sales[o] # "voided" /\ sales' = [sales EXCEPT ![o] = "voided"]
    BY <1>3 DEF VoidLeavesEvent, VoidSale
  <2> QED
    BY <1>3, <2>1 DEF VoidLeavesEvent, VoidSale, SaleTypes, EventType
<1> QED
  BY <1>1, <1>2, <1>3 DEF SaleEventLeft

\* Every other step leaves the sales and their events as they are.
LEMMA OthersLeaveSales ==
  ASSUME [PaperNext]_paperVars, ~\E o \in Sale : SaleEventLeft(o)
  PROVE  UNCHANGED <<sales, outbox>>
<1> USE DEF docVars, docRows, fiscalVars
<1>1. ASSUME NEW c \in Clerk, NEW r \in DocRequest, DocBegin(c, r), OfClerks
      PROVE  UNCHANGED <<sales, outbox>>
  BY <1>1 DEF DocBegin, OfClerks
<1>2. ASSUME NEW c \in Clerk, DocAdvance(c) \/ DocRefuse(c) \/ DocAbort(c), OfClerks
      PROVE  UNCHANGED <<sales, outbox>>
  BY <1>2 DEF DocAdvance, DocRefuse, DocAbort, OfClerks
<1>3. ASSUME NEW c \in Clerk, OfClerks,
             IssueInvoice(c) \/ VoidInvoice(c) \/ IssueRectification(c) \/ ReprintTicket(c)
      PROVE  UNCHANGED <<sales, outbox>>
  BY <1>3 DEF IssueInvoice, VoidInvoice, IssueRectification, ReprintTicket, OfClerks
<1>4. ASSUME NEW d \in Dispatcher, OfPasses,
             \/ ClaimEvents(d) \/ ClaimDocuments(d) \/ CommitPass(d) \/ Die(d)
             \/ \E e \in Event, a \in Answer : Submit(d, e, a)
      PROVE  UNCHANGED <<sales, outbox>>
  BY <1>4 DEF ClaimEvents, ClaimDocuments, CommitPass, Die, Submit, OfPasses
<1>5. ASSUME NEW p \in Regime \union {"none"}, Restart(p), OfPasses
      PROVE  UNCHANGED <<sales, outbox>>
  BY <1>5 DEF Restart, OfPasses
<1>6. CASE UNCHANGED paperVars
  BY <1>6 DEF paperVars
<1> QED
  BY <1>1, <1>2, <1>3, <1>4, <1>5, <1>6 DEF PaperNext

LEMMA NextSalesInv == PassInv /\ SalesInv /\ [PaperNext]_paperVars => SalesInv'
<1> SUFFICES ASSUME PassInv, SalesInv, [PaperNext]_paperVars PROVE SalesInv'
  OBVIOUS
<1>1. ASSUME NEW o \in Sale, SaleEventLeft(o) PROVE SalesInv'
  <2>1. PICK k \in EventType :
           /\ Record(o, k)
           /\ IF k = "sale_voided" THEN sales[o] # "voided" /\ sales'[o] = "voided"
              ELSE sales[o] = "draft" /\ sales'[o] = "paid"
           /\ sales' \in [Sale -> {"draft", "paid", "voided"}]
           /\ \A p \in Sale \ {o} : sales'[p] = sales[p]
    BY <1>1, SaleMoves DEF SalesInv
  <2> DEFINE ev == [order |-> o, kind |-> k, under |-> provider]
             n  == Len(outbox)
  <2>2. outbox \in Seq(SaleEvent) /\ outbox' = Append(outbox, ev) /\ ev \in SaleEvent
    BY <2>1 DEF PassInv, PassTypes, Record, SaleEvent
  <2>3. /\ Event = 1..n /\ n \in Nat /\ Event' = 1..(n + 1)
        /\ outbox'[n + 1] = ev /\ \A e \in Event : outbox'[e] = outbox[e]
    BY <2>2 DEF Event
  <2>4. \A e \in Event : outbox[e].order \in Sale /\ outbox[e].kind \in EventType
    BY EventFields DEF PassInv
  <2>5. \A e \in Event : outbox[e].order = o => outbox[e].kind # k
    BY <2>1, <2>4 DEF SalesInv, EventsOfSales
  <2>6. ASSUME NEW e \in Event'
        PROVE  IF outbox'[e].kind = "sale_voided" THEN sales'[outbox'[e].order] = "voided"
               ELSE sales'[outbox'[e].order] # "draft"
    <3>1. CASE e = n + 1
      BY <2>1, <2>3, <3>1
    <3>2. CASE e \in Event
      <4>1. IF outbox[e].kind = "sale_voided" THEN sales[outbox[e].order] = "voided"
               ELSE sales[outbox[e].order] # "draft"
        BY <3>2 DEF SalesInv, EventsOfSales
      <4> QED
        BY <2>1, <2>3, <2>4, <3>2, <4>1
    <3> QED
      BY <2>3, <3>1, <3>2
  <2>7. ASSUME NEW e \in Event', NEW f \in Event',
               outbox'[e].order = outbox'[f].order, outbox'[e].kind = outbox'[f].kind
        PROVE  e = f
    <3>1. CASE e \in Event /\ f \in Event
      BY <2>3, <2>7, <3>1 DEF SalesInv, EventsOfSales
    <3>2. CASE e = n + 1 \/ f = n + 1
      BY <2>3, <2>5, <2>7, <3>2
    <3> QED
      BY <2>3, <3>1, <3>2
  <2> QED
    BY <2>1, <2>6, <2>7 DEF SalesInv, SaleTypes, EventsOfSales
<1>2. CASE ~\E o \in Sale : SaleEventLeft(o)
  BY <1>2, OthersLeaveSales DEF SalesInv, SaleTypes, EventsOfSales, Event
<1> QED
  BY <1>1, <1>2

LEMMA PassInvariance == PaperSpec => [](PassInv /\ SalesInv)
<1>1. PaperInit => PassInv /\ SalesInv
  BY InitPassInv, InitSalesInv DEF PaperInit
<1>2. PassInv /\ SalesInv /\ [PaperNext]_paperVars => PassInv' /\ SalesInv'
  BY NextPassInv, NextSalesInv
<1> QED
  BY <1>1, <1>2, PTL DEF PaperSpec

-----------------------------------------------------------------------------
(* The properties of the passes. *)

\* A document is on file for exactly the events that a real provider
\* consumed: none is lost, and none is made twice.
THEOREM ConsumedHasDocumentHolds == PaperSpec => []ConsumedHasDocument
<1>1. PassInv => ConsumedHasDocument
  BY DEF PassInv
<1> QED
  BY <1>1, PassInvariance, PTL

\* The regime accepts a document once for each time that is on file, in
\* flight, or forgotten by a pass that died: two passes never submit the same.
THEOREM AcceptancesKeptHolds == PaperSpec => []AcceptancesKept
<1>1. PassInv => AcceptancesKept
  BY CountIsFly DEF PassInv
<1> QED
  BY <1>1, PassInvariance, PTL

\* The regime has at most one document of each type for an order.
THEOREM CertifiedOnceHolds == PaperSpec => []CertifiedOnce
<1>1. ASSUME PassInv, SalesInv, NEW e \in DOMAIN filed, NEW f \in DOMAIN filed,
             outbox[e].order = outbox[f].order, filed[e].type = filed[f].type
      PROVE  e = f
  <2>1. e \in Event /\ f \in Event
    BY <1>1 DEF PassInv, PassTypes
  <2>2. outbox[e].kind \in EventType /\ outbox[f].kind \in EventType
    BY <1>1, <2>1, EventFields DEF PassInv
  <2>3. DocTypeFor(outbox[e].kind) = DocTypeFor(outbox[f].kind)
    BY <1>1 DEF PassInv, Filings
  <2>4. outbox[e].kind = outbox[f].kind
    BY <2>2, <2>3 DEF DocTypeFor, EventType
  <2> QED
    BY <1>1, <2>1, <2>4 DEF SalesInv, EventsOfSales
<1>2. PassInv /\ SalesInv => CertifiedOnce
  BY <1>1 DEF CertifiedOnce
<1> QED
  BY <1>2, PassInvariance, PTL

-----------------------------------------------------------------------------
(* The statements of a request. *)

\* Sales can be listed in the order of their ids.
LEMMA IdOrderExists ==
  ASSUME NEW os \in SUBSET Sale
  PROVE  /\ IsFiniteSet(os)
         /\ \E ids \in [1..Cardinality(os) -> os] :
              /\ Range(ids) = os
              /\ \A i, j \in DOMAIN ids : i < j => ids[i] < ids[j]
<1> DEFINE Listed(S) == \E ids \in [1..Cardinality(S) -> S] :
                          /\ Range(ids) = S
                          /\ \A i, j \in DOMAIN ids : i < j => ids[i] < ids[j]
           T == {m \in Nat : \A S \in SUBSET (1..m) : Listed(S)}
<1> HIDE DEF Listed
<1>0. ASSUME NEW m \in Nat, NEW S \in SUBSET (1..m)
      PROVE  IsFiniteSet(S) /\ Cardinality(S) \in Nat
  <2>1. IsFiniteSet(1..m)
    BY FS_Interval
  <2> QED
    BY <2>1, FS_Subset, FS_CardinalityType
<1>1. 0 \in T
  <2>1. Listed({})
    <3> DEFINE ids == [i \in 1..0 |-> i]
    <3>1. Cardinality({}) = 0
      BY FS_EmptySet
    <3>2. ids \in [1..Cardinality({}) -> {}] /\ DOMAIN ids = {}
      BY <3>1
    <3>3. Range(ids) = {}
      BY <3>2 DEF Range
    <3> HIDE DEF ids
    <3> QED
      BY <3>2, <3>3 DEF Listed
  <2>2. \A S \in SUBSET (1..0) : S = {}
    OBVIOUS
  <2> QED
    BY <2>1, <2>2
<1>2. ASSUME NEW m \in Nat, m \in T PROVE m + 1 \in T
  <2> SUFFICES ASSUME NEW S \in SUBSET (1..(m + 1)) PROVE Listed(S)
    OBVIOUS
  <2>1. CASE m + 1 \notin S
    <3>1. S \in SUBSET (1..m)
      BY <2>1
    <3> QED
      BY <1>2, <3>1
  <2>2. CASE m + 1 \in S
    <3> DEFINE R == S \ {m + 1}
               n == Cardinality(R)
    <3>1. R \in SUBSET (1..m)
      OBVIOUS
    <3>2. IsFiniteSet(R) /\ n \in Nat
      BY <1>0, <3>1
    <3>3. Cardinality(S) = n + 1
      <4>1. S = R \union {m + 1} /\ m + 1 \notin R
        BY <2>2
      <4> HIDE DEF R
      <4> QED
        BY <3>2, <4>1, FS_AddElement
    <3>4. Listed(R)
      BY <1>2, <3>1
    <3>5. PICK ids \in [1..n -> R] : /\ Range(ids) = R
                                     /\ \A i, j \in DOMAIN ids : i < j => ids[i] < ids[j]
      BY <3>4 DEF Listed
    <3> DEFINE more == [i \in 1..(n + 1) |-> IF i = n + 1 THEN m + 1 ELSE ids[i]]
    <3> HIDE DEF n
    <3>6. more \in [1..(n + 1) -> S]
      BY <2>2, <3>2, <3>5
    <3>7. Range(more) = S
      <4>1. \A x \in S : \E i \in 1..(n + 1) : more[i] = x
        <5> SUFFICES ASSUME NEW x \in S PROVE \E i \in 1..(n + 1) : more[i] = x
          OBVIOUS
        <5>1. CASE x = m + 1
          <6>1. n + 1 \in 1..(n + 1) /\ more[n + 1] = m + 1
            BY <3>2
          <6> QED
            BY <5>1, <6>1
        <5>2. CASE x # m + 1
          <6>1. x \in Range(ids)
            BY <3>5, <5>2
          <6>2. PICK i \in 1..n : ids[i] = x
            BY <6>1 DEF Range
          <6>3. i \in 1..(n + 1) /\ more[i] = x
            BY <3>2, <6>2
          <6> QED
            BY <6>3
        <5> QED
          BY <5>1, <5>2
      <4> QED
        BY <3>6, <4>1 DEF Range
    <3>8. ASSUME NEW i \in 1..(n + 1), NEW j \in 1..(n + 1), i < j PROVE more[i] < more[j]
      <4>0. i \in 1..n
        BY <3>2, <3>8
      <4>1. i \in 1..n /\ ids[i] \in 1..m /\ more[i] = ids[i]
        <5>1. ids[i] \in R /\ i # n + 1
          BY <3>2, <3>5, <4>0
        <5>2. more[i] = ids[i]
          BY <3>2, <4>0, <5>1
        <5> QED
          BY <3>1, <4>0, <5>1, <5>2
      <4>2. CASE j = n + 1
        <5>1. more[j] = m + 1
          BY <4>2
        <5> QED
          BY <4>1, <5>1
      <4>3. CASE j # n + 1
        <5>1. j \in 1..n /\ more[j] = ids[j]
          BY <3>2, <4>3
        <5> QED
          BY <3>5, <3>8, <4>1, <5>1
      <4> QED
        BY <4>2, <4>3
    <3> HIDE DEF more
    <3> QED
      BY <3>3, <3>6, <3>7, <3>8 DEF Listed
  <2> QED
    BY <2>1, <2>2
<1> HIDE DEF T
<1>3. NSales \in T
  BY <1>1, <1>2, NatSetInduction, SaleAssumption DEF T
<1> QED
  BY <1>0, <1>3, SaleAssumption DEF T, Sale, Listed

LEMMA IdOrder ==
  ASSUME NEW os \in SUBSET Sale
  PROVE  /\ Cardinality(os) \in Nat
         /\ InIdOrder(os) \in [1..Cardinality(os) -> os] /\ Range(InIdOrder(os)) = os
         /\ \A i, j \in 1..Cardinality(os) : i < j => InIdOrder(os)[i] < InIdOrder(os)[j]
<1>1. IsFiniteSet(os) /\ Cardinality(os) \in Nat
  BY IdOrderExists, FS_CardinalityType
<1>2. \E ids \in [1..Cardinality(os) -> os] :
        /\ Range(ids) = os
        /\ \A i, j \in DOMAIN ids : i < j => ids[i] < ids[j]
  BY IdOrderExists
<1>3. /\ InIdOrder(os) \in [1..Cardinality(os) -> os]
      /\ Range(InIdOrder(os)) = os
      /\ \A i, j \in DOMAIN InIdOrder(os) : i < j => InIdOrder(os)[i] < InIdOrder(os)[j]
  BY <1>2 DEF InIdOrder
<1> QED
  BY <1>1, <1>3

\* What a list of statements holds.
Statement == {<<"check">>, <<"read">>, <<"commit">>} \union ({"series"} \X Series)
               \union ({"order", "line"} \X (Sale \union {Null}))

LEMMA OrderLocksList ==
  ASSUME NEW list, Range(list) \in SUBSET Sale
  PROVE  \E m \in Nat : \E ids \in [1..m -> Sale] :
           /\ OrderLocks(list) \in Seq(Statement) /\ Len(OrderLocks(list)) = m
           /\ \A i \in 1..m : OrderLocks(list)[i] = <<"order", ids[i]>>
           /\ \A i, j \in 1..m : i < j => ids[i] < ids[j]
           /\ Range(ids) = Range(list)
<1> DEFINE os == Range(list)
           ids == InIdOrder(os)
           m == Cardinality(os)
<1>1. /\ m \in Nat /\ ids \in [1..m -> os] /\ Range(ids) = os
      /\ \A i, j \in 1..m : i < j => ids[i] < ids[j]
  BY IdOrder
<1>2. OrderLocks(list) = [i \in 1..m |-> <<"order", ids[i]>>]
  BY <1>1 DEF OrderLocks
<1>3. ids \in [1..m -> Sale]
  BY <1>1
<1> HIDE DEF ids, m, os
<1>4. \A i \in 1..m : <<"order", ids[i]>> \in Statement
  BY <1>3 DEF Statement
<1>5. OrderLocks(list) \in Seq(Statement)
  BY <1>1, <1>2, <1>4
<1>6. Len(OrderLocks(list)) = m
  <2>1. DOMAIN OrderLocks(list) = 1..m /\ DOMAIN OrderLocks(list) = 1..Len(OrderLocks(list))
        /\ Len(OrderLocks(list)) \in Nat
    BY <1>2, <1>5, LenProperties
  <2> QED
    BY <1>1, <2>1
<1> QED
  BY <1>1, <1>2, <1>3, <1>5, <1>6 DEF os

LEMMA LineSlotsList ==
  ASSUME NEW list \in Seq(Sale \union {Null})
  PROVE  /\ LineSlots(list) \in Seq(Statement) /\ Len(LineSlots(list)) = Len(list)
         /\ \A i \in 1..Len(list) : LineSlots(list)[i] = <<"line", list[i]>>
<1>1. LineSlots(list) = [i \in 1..Len(list) |-> <<"line", list[i]>>] /\ Len(list) \in Nat
  BY LenProperties DEF LineSlots
<1>2. \A i \in 1..Len(list) : <<"line", list[i]>> \in Statement
  BY DEF Statement
<1>3. LineSlots(list) \in Seq(Statement)
  BY <1>1, <1>2
<1>4. DOMAIN LineSlots(list) = 1..Len(list) /\ DOMAIN LineSlots(list) = 1..Len(LineSlots(list))
      /\ Len(LineSlots(list)) \in Nat
  BY <1>1, <1>3, LenProperties
<1> QED
  BY <1>1, <1>3, <1>4

LEMMA Concat2 ==
  ASSUME NEW S, NEW a \in Seq(S), NEW b \in Seq(S)
  PROVE  /\ a \o b \in Seq(S) /\ Len(a \o b) = Len(a) + Len(b)
         /\ Len(a) \in Nat /\ Len(b) \in Nat
         /\ \A i \in 1..Len(a) : (a \o b)[i] = a[i]
         /\ \A i \in 1..Len(b) : (a \o b)[Len(a) + i] = b[i]
<1>0. Len(a) \in Nat /\ Len(b) \in Nat
  BY LenProperties
<1>1. /\ a \o b \in Seq(S) /\ Len(a \o b) = Len(a) + Len(b)
      /\ \A i \in 1..(Len(a) + Len(b)) : (a \o b)[i] = IF i <= Len(a) THEN a[i] ELSE b[i - Len(a)]
  BY ConcatProperties
<1>2. \A i \in 1..Len(a) : i \in 1..(Len(a) + Len(b)) /\ i <= Len(a)
  BY <1>0
<1>3. \A i \in 1..Len(b) : /\ Len(a) + i \in 1..(Len(a) + Len(b)) /\ ~(Len(a) + i <= Len(a))
                           /\ (Len(a) + i) - Len(a) = i
  BY <1>0
<1> QED
  BY <1>0, <1>1, <1>2, <1>3

LEMMA Concat4 ==
  ASSUME NEW S, NEW a \in Seq(S), NEW b \in Seq(S), NEW c \in Seq(S), NEW d \in Seq(S),
         NEW D, D = a \o b \o c \o d
  PROVE  /\ D \in Seq(S) /\ Len(D) = Len(a) + Len(b) + Len(c) + Len(d)
         /\ \A i \in 1..Len(a) : D[i] = a[i]
         /\ \A i \in 1..Len(b) : D[Len(a) + i] = b[i]
         /\ \A i \in 1..Len(c) : D[Len(a) + Len(b) + i] = c[i]
         /\ \A i \in 1..Len(d) : D[Len(a) + Len(b) + Len(c) + i] = d[i]
<1>0. Len(a) \in Nat /\ Len(b) \in Nat /\ Len(c) \in Nat /\ Len(d) \in Nat
  BY LenProperties
<1>1. PICK x : x = a \o b
  OBVIOUS
<1>2. /\ x \in Seq(S) /\ Len(x) = Len(a) + Len(b)
      /\ \A i \in 1..Len(a) : x[i] = a[i]
      /\ \A i \in 1..Len(b) : x[Len(a) + i] = b[i]
  BY <1>1, Concat2
<1>3. PICK y : y = x \o c
  OBVIOUS
<1>4. /\ y \in Seq(S) /\ Len(y) = Len(x) + Len(c)
      /\ \A i \in 1..Len(x) : y[i] = x[i]
      /\ \A i \in 1..Len(c) : y[Len(x) + i] = c[i]
  <2>1. x \in Seq(S)
    BY <1>2
  <2>2. /\ x \o c \in Seq(S) /\ Len(x \o c) = Len(x) + Len(c)
        /\ \A i \in 1..Len(x) : (x \o c)[i] = x[i]
        /\ \A i \in 1..Len(c) : (x \o c)[Len(x) + i] = c[i]
    BY ONLY <2>1, c \in Seq(S), Concat2
  <2> QED
    BY <1>3, <2>2
<1>5. PICK z : z = y \o d
  OBVIOUS
<1>6. /\ z \in Seq(S) /\ Len(z) = Len(y) + Len(d)
      /\ \A i \in 1..Len(y) : z[i] = y[i]
      /\ \A i \in 1..Len(d) : z[Len(y) + i] = d[i]
  <2>1. y \in Seq(S)
    BY <1>4
  <2>2. /\ y \o d \in Seq(S) /\ Len(y \o d) = Len(y) + Len(d)
        /\ \A i \in 1..Len(y) : (y \o d)[i] = y[i]
        /\ \A i \in 1..Len(d) : (y \o d)[Len(y) + i] = d[i]
    BY ONLY <2>1, d \in Seq(S), Concat2
  <2> QED
    BY <1>5, <2>2
<1>7. /\ \A i \in 1..Len(a) : z[i] = a[i]
      /\ \A i \in 1..Len(b) : z[Len(a) + i] = b[i]
      /\ \A i \in 1..Len(c) : z[Len(a) + Len(b) + i] = c[i]
      /\ \A i \in 1..Len(d) : z[Len(a) + Len(b) + Len(c) + i] = d[i]
  <2>1. Len(x) = Len(a) + Len(b) /\ Len(y) = Len(a) + Len(b) + Len(c)
    BY <1>2, <1>4
  <2>2. \A i \in 1..Len(a) : i \in 1..Len(x) /\ i \in 1..Len(y)
    BY <1>0, <2>1
  <2>3. \A i \in 1..Len(b) : Len(a) + i \in 1..Len(x) /\ Len(a) + i \in 1..Len(y)
    BY <1>0, <2>1
  <2>4. \A i \in 1..Len(c) : Len(x) + i \in 1..Len(y)
    BY <1>0, <2>1
  <2> QED
    BY <1>2, <1>4, <1>6, <2>1, <2>2, <2>3, <2>4
<1>8. z = D
  BY <1>1, <1>3, <1>5
<1>9. Len(z) = Len(a) + Len(b) + Len(c) + Len(d)
  BY <1>2, <1>4, <1>6
<1> QED
  BY ONLY <1>6, <1>7, <1>8, <1>9

\* A request that runs: what it asks about is issued.
Standing(r) ==
  /\ r \in DocRequest
  /\ \A i \in Issued : invoices[i].orders \in SUBSET Sale
  /\ r.op \in {"void_invoice", "issue_rectification"} => r.invoice \in Issued

\* The statements of an invoice of r.orders, whose ids in order are ids.
IssuesBy(r, m, ids, n, D) ==
  /\ D \in Seq(Statement) /\ Len(D) = m + n + 3
  /\ \A i \in 1..m : D[i] = <<"order", ids[i]>>
  /\ D[m + 1] = <<"check">> /\ D[m + 2] = <<"series", "FAC">>
  /\ \A i \in 1..n : D[m + 2 + i] = <<"line", r.orders[i]>>
  /\ D[m + n + 3] = <<"commit">>
  /\ \A i, j \in 1..m : i < j => ids[i] < ids[j]

LEMMA IssuePlan ==
  ASSUME NEW r, Standing(r), r.op = "issue_invoice"
  PROVE  /\ r.orders \in Seq(Sale) /\ Len(r.orders) \in Nat
         /\ \E m \in Nat : \E ids \in [1..m -> Sale] :
              IssuesBy(r, m, ids, Len(r.orders), DocSteps(r))
<1>1. r.orders \in Seq(Sale) /\ Len(r.orders) \in Nat
  <2>1. DocWellFormed(r)
    BY DocRequestAssumption DEF Standing
  <2> QED
    BY <2>1, LenProperties DEF DocWellFormed
<1>2. Range(r.orders) \in SUBSET Sale /\ r.orders \in Seq(Sale \union {Null})
  BY <1>1, LenProperties, SeqMonotonic DEF Range
<1>3. PICK m \in Nat : \E ids \in [1..m -> Sale] :
           /\ OrderLocks(r.orders) \in Seq(Statement) /\ Len(OrderLocks(r.orders)) = m
           /\ \A i \in 1..m : OrderLocks(r.orders)[i] = <<"order", ids[i]>>
           /\ \A i, j \in 1..m : i < j => ids[i] < ids[j]
  BY <1>2, OrderLocksList
<1>4. PICK ids \in [1..m -> Sale] :
           /\ OrderLocks(r.orders) \in Seq(Statement) /\ Len(OrderLocks(r.orders)) = m
           /\ \A i \in 1..m : OrderLocks(r.orders)[i] = <<"order", ids[i]>>
           /\ \A i, j \in 1..m : i < j => ids[i] < ids[j]
  BY <1>3
<1> DEFINE a == OrderLocks(r.orders)
           b == <<<<"check">>, <<"series", "FAC">>>>
           c == LineSlots(r.orders)
           d == <<<<"commit">>>>
<1>5. b \in Seq(Statement) /\ Len(b) = 2 /\ b[1] = <<"check">> /\ b[2] = <<"series", "FAC">>
      /\ d \in Seq(Statement) /\ Len(d) = 1 /\ d[1] = <<"commit">>
  BY DEF Statement, Series
<1>6. c \in Seq(Statement) /\ Len(c) = Len(r.orders)
      /\ \A i \in 1..Len(r.orders) : c[i] = <<"line", r.orders[i]>>
  BY <1>2, LineSlotsList
<1>7. DocSteps(r) = a \o b \o c \o d
  BY DEF DocSteps
<1> HIDE DEF a, b, c, d
<1>8. PICK D : D = a \o b \o c \o d
  OBVIOUS
<1>9. /\ D \in Seq(Statement) /\ Len(D) = Len(a) + Len(b) + Len(c) + Len(d)
      /\ \A i \in 1..Len(a) : D[i] = a[i]
      /\ \A i \in 1..Len(b) : D[Len(a) + i] = b[i]
      /\ \A i \in 1..Len(c) : D[Len(a) + Len(b) + i] = c[i]
      /\ \A i \in 1..Len(d) : D[Len(a) + Len(b) + Len(c) + i] = d[i]
  <2>1. a \in Seq(Statement)
    BY <1>4 DEF a
  <2>2. b \in Seq(Statement) /\ c \in Seq(Statement) /\ d \in Seq(Statement)
    BY <1>5, <1>6
  <2> QED
    BY ONLY <1>8, <2>1, <2>2, Concat4
<1>10. Len(a) = m /\ \A i \in 1..m : a[i] = <<"order", ids[i]>>
  BY <1>4 DEF a
<1>n. PICK n \in Nat : n = Len(r.orders)
  BY <1>1
<1>11. /\ D \in Seq(Statement) /\ Len(D) = m + n + 3
       /\ \A i \in 1..m : D[i] = <<"order", ids[i]>>
       /\ D[m + 1] = <<"check">> /\ D[m + 2] = <<"series", "FAC">>
       /\ \A i \in 1..n : D[m + 2 + i] = <<"line", r.orders[i]>>
       /\ D[m + n + 3] = <<"commit">>
  <2>1. D \in Seq(Statement) /\ Len(D) = m + n + 3
    <3>1. Len(b) = 2 /\ Len(c) = n /\ Len(d) = 1 /\ Len(a) = m
      BY <1>n, <1>5, <1>6, <1>10
    <3>2. D \in Seq(Statement) /\ Len(D) = Len(a) + Len(b) + Len(c) + Len(d)
      BY <1>9
    <3> QED
      BY <3>1, <3>2
  <2>2. \A i \in 1..m : D[i] = <<"order", ids[i]>>
    BY <1>9, <1>10
  <2>3. D[m + 1] = <<"check">> /\ D[m + 2] = <<"series", "FAC">>
    BY <1>5, <1>9, <1>10
  <2>4. \A i \in 1..n : D[m + 2 + i] = <<"line", r.orders[i]>>
    BY <1>5, <1>6, <1>9, <1>10, <1>n
  <2>5. D[m + n + 3] = <<"commit">>
    <3>0. Len(b) = 2 /\ Len(c) = n /\ Len(d) = 1 /\ Len(a) = m
      BY <1>n, <1>5, <1>6, <1>10
    <3>1. Len(a) + Len(b) + Len(c) + 1 = m + n + 3 /\ 1 \in 1..Len(d)
      BY <3>0
    <3> QED
      BY <1>5, <1>9, <3>1
  <2> QED
    BY <2>1, <2>2, <2>3, <2>4, <2>5
<1>12. IssuesBy(r, m, ids, n, D)
  BY <1>4, <1>11 DEF IssuesBy
<1>13. IssuesBy(r, m, ids, Len(r.orders), DocSteps(r))
  <2>1. D = DocSteps(r)
    BY <1>7, <1>8
  <2> QED
    BY ONLY <2>1, <1>12, <1>n
<1> QED
  BY <1>1, <1>13

LEMMA RectificationPlan ==
  ASSUME NEW b \in Seq(Statement), NEW D,
         D = <<<<"read">>, <<"series", "R">>, <<"check">>>> \o b \o <<<<"commit">>>>
  PROVE  /\ D \in Seq(Statement) /\ Len(D) = Len(b) + 4
         /\ D[1] = <<"read">> /\ D[2] = <<"series", "R">> /\ D[3] = <<"check">>
         /\ \A i \in 1..Len(b) : D[3 + i] = b[i]
         /\ D[Len(b) + 4] = <<"commit">>
<1> DEFINE a == <<<<"read">>, <<"series", "R">>, <<"check">>>>
           c == <<<<"commit">>>>
<1>1. a \in Seq(Statement) /\ c \in Seq(Statement)
  BY DEF Statement, Series
<1>2. Len(a) = 3 /\ a[1] = <<"read">> /\ a[2] = <<"series", "R">> /\ a[3] = <<"check">>
      /\ Len(c) = 1 /\ c[1] = <<"commit">>
  OBVIOUS
<1>3. D = a \o b \o c
  OBVIOUS
<1> HIDE DEF a, c
<1>4. PICK x : x = a \o b
  OBVIOUS
<1>5. /\ a \o b \in Seq(Statement) /\ Len(a \o b) = Len(a) + Len(b)
      /\ \A i \in 1..Len(a) : (a \o b)[i] = a[i]
      /\ \A i \in 1..Len(b) : (a \o b)[Len(a) + i] = b[i]
  BY ONLY <1>1, b \in Seq(Statement), Concat2
<1>6. x \in Seq(Statement)
  BY ONLY <1>4, <1>5
<1>7. /\ x \o c \in Seq(Statement) /\ Len(x \o c) = Len(x) + Len(c)
      /\ \A i \in 1..Len(x) : (x \o c)[i] = x[i]
      /\ \A i \in 1..Len(c) : (x \o c)[Len(x) + i] = c[i]
  BY ONLY <1>1, <1>6, Concat2
<1>8. D = x \o c
  BY ONLY <1>3, <1>4
<1>9. Len(x) = Len(b) + 3 /\ Len(b) \in Nat
  BY <1>2, <1>4, <1>5, LenProperties
<1>10. D \in Seq(Statement) /\ Len(D) = Len(b) + 4
  <2>1. D \in Seq(Statement) /\ Len(D) = Len(x) + Len(c)
    BY ONLY <1>7, <1>8
  <2> QED
    BY ONLY <2>1, <1>2, <1>9
<1>11. /\ \A i \in 1..3 : i \in 1..Len(x) /\ i \in 1..Len(a)
       /\ \A i \in 1..Len(b) : 3 + i \in 1..Len(x)
  BY <1>2, <1>9
<1>12. D[1] = <<"read">> /\ D[2] = <<"series", "R">> /\ D[3] = <<"check">>
  <2>1. \A i \in 1..3 : D[i] = a[i]
    BY <1>4, <1>5, <1>7, <1>8, <1>11
  <2> QED
    BY <1>2, <2>1
<1>13. \A i \in 1..Len(b) : D[3 + i] = b[i]
  BY <1>2, <1>4, <1>5, <1>7, <1>8, <1>11
<1>14. D[Len(b) + 4] = <<"commit">>
  <2>1. Len(x) + 1 = Len(b) + 4 /\ 1 \in 1..Len(c)
    BY <1>2, <1>9
  <2> QED
    BY <1>2, <1>7, <1>8, <2>1
<1> QED
  BY <1>10, <1>12, <1>13, <1>14

LEMMA TotalPlan ==
  ASSUME NEW r, Standing(r), r.op = "issue_rectification", r.mode # "partial"
  PROVE  \E m \in Nat : \E ids \in [1..m -> Sale] :
           LET D == DocSteps(r)
           IN  /\ D \in Seq(Statement) /\ Len(D) = m + 4
               /\ D[1] = <<"read">> /\ D[2] = <<"series", "R">> /\ D[3] = <<"check">>
               /\ \A i \in 1..m : D[3 + i] = <<"order", ids[i]>>
               /\ D[m + 4] = <<"commit">>
               /\ \A i, j \in 1..m : i < j => ids[i] < ids[j]
<1> DEFINE os == invoices[r.invoice].orders
           list == InIdOrder(os)
<1>1. os \in SUBSET Sale
  BY DEF Standing
<1>2. Range(list) \in SUBSET Sale
  BY <1>1, IdOrder
<1> HIDE DEF os, list
<1>3. PICK m \in Nat : \E ids \in [1..m -> Sale] :
           /\ OrderLocks(list) \in Seq(Statement) /\ Len(OrderLocks(list)) = m
           /\ \A i \in 1..m : OrderLocks(list)[i] = <<"order", ids[i]>>
           /\ \A i, j \in 1..m : i < j => ids[i] < ids[j]
  BY <1>2, OrderLocksList
<1>4. PICK ids \in [1..m -> Sale] :
           /\ OrderLocks(list) \in Seq(Statement) /\ Len(OrderLocks(list)) = m
           /\ \A i \in 1..m : OrderLocks(list)[i] = <<"order", ids[i]>>
           /\ \A i, j \in 1..m : i < j => ids[i] < ids[j]
  BY <1>3
<1> DEFINE b == OrderLocks(list)
<1>5. b \in Seq(Statement) /\ Len(b) = m /\ \A i \in 1..m : b[i] = <<"order", ids[i]>>
  BY <1>4
<1>6. DocSteps(r) = <<<<"read">>, <<"series", "R">>, <<"check">>>> \o b \o <<<<"commit">>>>
  BY DEF DocSteps, list, os
<1> HIDE DEF b
<1>7. /\ DocSteps(r) \in Seq(Statement) /\ Len(DocSteps(r)) = m + 4
      /\ DocSteps(r)[1] = <<"read">> /\ DocSteps(r)[2] = <<"series", "R">>
      /\ DocSteps(r)[3] = <<"check">> /\ DocSteps(r)[m + 4] = <<"commit">>
      /\ \A i \in 1..m : DocSteps(r)[3 + i] = b[i]
  BY <1>5, <1>6, RectificationPlan
<1>8. \A i \in 1..m : DocSteps(r)[3 + i] = <<"order", ids[i]>>
  BY <1>5, <1>7
<1> QED
  BY <1>4, <1>7, <1>8

LEMMA PartialPlan ==
  ASSUME NEW r, Standing(r), r.op = "issue_rectification", r.mode = "partial"
  PROVE  /\ r.refund \in Sale \union {Null}
         /\ DocSteps(r) \in Seq(Statement) /\ Len(DocSteps(r)) = 5
         /\ DocSteps(r)[1] = <<"read">> /\ DocSteps(r)[2] = <<"series", "R">>
         /\ DocSteps(r)[3] = <<"check">> /\ DocSteps(r)[4] = <<"line", r.refund>>
         /\ DocSteps(r)[5] = <<"commit">>
<1>1. r.refund \in Sale \union {Null}
  <2>1. DocWellFormed(r)
    BY DocRequestAssumption DEF Standing
  <2> QED
    BY <2>1 DEF DocWellFormed
<1> DEFINE b == LineSlots(<<r.refund>>)
<1>2. b \in Seq(Statement) /\ Len(b) = 1 /\ b[1] = <<"line", r.refund>>
  <2>1. <<r.refund>> \in Seq(Sale \union {Null}) /\ Len(<<r.refund>>) = 1
    BY <1>1
  <2>2. 1 \in 1..Len(<<r.refund>>) /\ <<r.refund>>[1] = r.refund
    OBVIOUS
  <2> QED
    BY <2>1, <2>2, LineSlotsList
<1>3. DocSteps(r) = <<<<"read">>, <<"series", "R">>, <<"check">>>> \o b \o <<<<"commit">>>>
  BY DEF DocSteps
<1> HIDE DEF b
<1>4. /\ DocSteps(r) \in Seq(Statement) /\ Len(DocSteps(r)) = 1 + 4
      /\ DocSteps(r)[1] = <<"read">> /\ DocSteps(r)[2] = <<"series", "R">>
      /\ DocSteps(r)[3] = <<"check">> /\ DocSteps(r)[1 + 4] = <<"commit">>
      /\ \A i \in 1..1 : DocSteps(r)[3 + i] = b[i]
  <2>1. PICK D : D = DocSteps(r)
    OBVIOUS
  <2>2. /\ D \in Seq(Statement) /\ Len(D) = Len(b) + 4
        /\ D[1] = <<"read">> /\ D[2] = <<"series", "R">> /\ D[3] = <<"check">>
        /\ \A i \in 1..Len(b) : D[3 + i] = b[i]
        /\ D[Len(b) + 4] = <<"commit">>
    BY ONLY <1>2, <1>3, <2>1, RectificationPlan
  <2> QED
    BY ONLY <1>2, <2>1, <2>2
<1>5. DocSteps(r)[3 + 1] = b[1] /\ 3 + 1 = 4 /\ 1 + 4 = 5
  BY <1>4
<1>6. /\ DocSteps(r) \in Seq(Statement) /\ Len(DocSteps(r)) = 5
      /\ DocSteps(r)[1] = <<"read">> /\ DocSteps(r)[2] = <<"series", "R">>
      /\ DocSteps(r)[3] = <<"check">> /\ DocSteps(r)[5] = <<"commit">>
      /\ DocSteps(r)[4] = b[1]
  BY <1>4, <1>5
<1> QED
  BY <1>1, <1>2, <1>6

LEMMA ShortPlan ==
  ASSUME NEW r, r.op \notin {"issue_invoice", "issue_rectification"}
  PROVE  /\ DocSteps(r) \in Seq(Statement) /\ Len(DocSteps(r)) = 2
         /\ DocSteps(r)[1] = <<"read">> /\ DocSteps(r)[2] = <<"commit">>
<1>1. DocSteps(r) = <<<<"read">>, <<"commit">>>>
  BY DEF DocSteps
<1>2. LET D == <<<<"read">>, <<"commit">>>>
      IN  D \in Seq(Statement) /\ Len(D) = 2 /\ D[1] = <<"read">> /\ D[2] = <<"commit">>
  BY DEF Statement
<1> QED
  BY <1>1, <1>2

-----------------------------------------------------------------------------
(* What all of them have in common. *)

SeriesOf(r) == IF r.op = "issue_invoice" THEN "FAC" ELSE "R"

\* What a request holds when it commits.
Needs(r) ==
  IF r.op = "issue_invoice"
  THEN {<<"check">>, <<"series", "FAC">>} \union {<<"line", o>> : o \in Range(r.orders)}
  ELSE IF r.op = "issue_rectification"
  THEN {<<"check">>, <<"series", "R">>} \union (IF r.mode = "partial" THEN {<<"line", r.refund>>} ELSE {})
  ELSE {}

LockKind == {"order", "series", "line"}

\* The order in which rows are locked: the rectifications' series, the orders
\* by id, the invoices' series, the lines.
Rank(r, row) ==
  IF row[1] = "order" THEN row[2]
  ELSE IF row[1] = "series" THEN (IF row[2] = "R" THEN 0 ELSE NSales + 1)
  ELSE IF r.op = "issue_invoice" THEN NSales + 3 ELSE NSales + 2

Later(r, s, t) ==
  s[1] \in LockKind /\ t[1] \in LockKind =>
    \/ Rank(r, s) < Rank(r, t)
    \/ r.op = "issue_invoice" /\ s[1] = "line" /\ t[1] = "line"

EndsInCommit(D) ==
  /\ D \in Seq(Statement) /\ Len(D) \in Nat \ {0}
  /\ \A i \in 1..Len(D) : D[i][1] = "commit" <=> i = Len(D)

OneSeries(r, D) ==
  \A i \in 1..Len(D) : D[i][1] = "series" =>
    D[i] = <<"series", SeriesOf(r)>> /\ \A j \in 1..Len(D) : D[j][1] = "series" => j = i

WellPlanned(r, D) ==
  /\ EndsInCommit(D)
  /\ OneSeries(r, D)
  /\ Needs(r) \subseteq {D[i] : i \in 1..(Len(D) - 1)}
  /\ \A i, j \in 1..Len(D) : i < j => Later(r, D[i], D[j])
  /\ \A i \in 1..Len(D) : D[i][1] \in LockKind =>
       Rank(r, D[i]) \in 0..(NSales + 3) /\ (D[i][1] = "line" <=> Rank(r, D[i]) > NSales + 1)

LEMMA IssueWellPlanned ==
  ASSUME NEW r, r.op = "issue_invoice", r.orders \in Seq(Sale),
         NEW m \in Nat, NEW ids \in [1..m -> Sale], NEW n \in Nat, n = Len(r.orders), NEW D,
         IssuesBy(r, m, ids, n, D)
  PROVE  WellPlanned(r, D)
<1>0. D \in Seq(Statement) /\ Len(D) = m + n + 3
  BY DEF IssuesBy
<1> DEFINE At(i) == \/ i \in 1..m /\ D[i] = <<"order", ids[i]>>
                    \/ i = m + 1 /\ D[i] = <<"check">>
                    \/ i = m + 2 /\ D[i] = <<"series", "FAC">>
                    \/ i \in (m + 3)..(m + n + 2) /\ D[i] = <<"line", r.orders[i - (m + 2)]>>
                    \/ i = m + n + 3 /\ D[i] = <<"commit">>
<1>1. ASSUME NEW i \in 1..(m + n + 3) PROVE At(i)
  <2>1. CASE i \in 1..m
    BY <2>1 DEF IssuesBy
  <2>2. CASE i = m + 1 \/ i = m + 2 \/ i = m + n + 3
    BY <2>2 DEF IssuesBy
  <2>3. CASE i \in (m + 3)..(m + n + 2)
    <3>1. i - (m + 2) \in 1..n /\ m + 2 + (i - (m + 2)) = i
      BY <2>3
    <3>2. D[m + 2 + (i - (m + 2))] = <<"line", r.orders[i - (m + 2)]>>
      BY <3>1 DEF IssuesBy
    <3> QED
      BY <2>3, <3>1, <3>2
  <2> QED
    BY <2>1, <2>2, <2>3
<1> DEFINE Kind(i) == D[i][1]
<1>2. \A i \in 1..(m + n + 3) :
        /\ Kind(i) = "order" => i \in 1..m /\ D[i] = <<"order", ids[i]>>
        /\ Kind(i) = "series" => i = m + 2 /\ D[i] = <<"series", "FAC">>
        /\ Kind(i) = "line" => i \in (m + 3)..(m + n + 2)
        /\ Kind(i) = "commit" => i = m + n + 3
        /\ i = m + n + 3 => Kind(i) = "commit"
  BY <1>1
<1> HIDE DEF At, Kind
<1>3. EndsInCommit(D)
  <2>1. \A i \in 1..(m + n + 3) : Kind(i) = "commit" <=> i = m + n + 3
    BY <1>2
  <2> QED
    BY <1>0, <2>1 DEF EndsInCommit, Kind
<1>4. OneSeries(r, D)
  <2>1. \A i \in 1..(m + n + 3) : Kind(i) = "series" =>
          D[i] = <<"series", "FAC">> /\ \A j \in 1..(m + n + 3) : Kind(j) = "series" => j = i
    BY <1>2
  <2> QED
    BY <1>0, <2>1 DEF OneSeries, Kind, SeriesOf
<1>5. Needs(r) \subseteq {D[i] : i \in 1..(Len(D) - 1)}
  <2>1. Len(D) - 1 = m + n + 2
    BY <1>0
  <2>2. m + 1 \in 1..(m + n + 2) /\ m + 2 \in 1..(m + n + 2)
        /\ D[m + 1] = <<"check">> /\ D[m + 2] = <<"series", "FAC">>
    BY DEF IssuesBy
  <2>3. ASSUME NEW o \in Range(r.orders) PROVE \E i \in 1..(m + n + 2) : D[i] = <<"line", o>>
    <3>1. PICK j \in 1..n : o = r.orders[j]
      BY LenProperties DEF Range
    <3>2. m + 2 + j \in 1..(m + n + 2) /\ D[m + 2 + j] = <<"line", o>>
      BY <3>1 DEF IssuesBy
    <3> QED
      BY <3>2
  <2> QED
    BY <2>1, <2>2, <2>3 DEF Needs
<1>6. ASSUME NEW i \in 1..(m + n + 3), Kind(i) \in LockKind
      PROVE  \/ i \in 1..m /\ Rank(r, D[i]) = ids[i] /\ Kind(i) = "order"
             \/ i = m + 2 /\ Rank(r, D[i]) = NSales + 1 /\ Kind(i) = "series"
             \/ i \in (m + 3)..(m + n + 2) /\ Rank(r, D[i]) = NSales + 3 /\ Kind(i) = "line"
  <2>1. CASE Kind(i) = "order"
    BY <1>2, <2>1 DEF Rank, Kind
  <2>2. CASE Kind(i) = "series"
    BY <1>2, <2>2 DEF Rank, Kind
  <2>3. CASE Kind(i) = "line"
    BY <1>2, <2>3 DEF Rank, Kind
  <2> QED
    BY <1>6, <2>1, <2>2, <2>3 DEF LockKind
<1>7. ASSUME NEW i \in 1..(m + n + 3), NEW j \in 1..(m + n + 3), i < j,
             Kind(i) \in LockKind, Kind(j) \in LockKind
      PROVE  Rank(r, D[i]) < Rank(r, D[j]) \/ (Kind(i) = "line" /\ Kind(j) = "line")
  <2>1. \A x, y \in 1..m : x < y => ids[x] < ids[y]
    BY DEF IssuesBy
  <2>2. \A x \in 1..m : ids[x] \in 1..NSales
    BY DEF Sale
  <2>3. CASE Kind(i) = "order" /\ Kind(j) = "order"
    <3>1. i \in 1..m /\ Rank(r, D[i]) = ids[i] /\ j \in 1..m /\ Rank(r, D[j]) = ids[j]
      BY <1>6, <1>7, <2>3
    <3> QED
      BY <1>7, <2>1, <3>1
  <2>4. CASE Kind(i) = "order" /\ Kind(j) # "order"
    <3>1. i \in 1..m /\ Rank(r, D[i]) = ids[i] /\ ids[i] \in 1..NSales
      BY <1>6, <1>7, <2>2, <2>4
    <3>2. Rank(r, D[j]) = NSales + 1 \/ Rank(r, D[j]) = NSales + 3
      BY <1>6, <1>7, <2>4
    <3> QED
      BY <3>1, <3>2, SaleAssumption
  <2>5. CASE Kind(i) = "series"
    <3>1. i = m + 2 /\ Rank(r, D[i]) = NSales + 1
      BY <1>6, <1>7, <2>5
    <3>2. Rank(r, D[j]) = NSales + 3
      BY <1>6, <1>7, <3>1
    <3> QED
      BY <3>1, <3>2, SaleAssumption
  <2>6. CASE Kind(i) = "line"
    <3>1. i \in (m + 3)..(m + n + 2)
      BY <1>6, <1>7, <2>6
    <3>2. Kind(j) = "line"
      BY <1>6, <1>7, <3>1
    <3> QED
      BY <2>6, <3>2
  <2> QED
    BY <1>6, <1>7, <2>3, <2>4, <2>5, <2>6
<1>8. \A i \in 1..Len(D) : D[i][1] \in LockKind =>
        Rank(r, D[i]) \in 0..(NSales + 3) /\ (D[i][1] = "line" <=> Rank(r, D[i]) > NSales + 1)
  <2>1. \A x \in 1..m : ids[x] \in 1..NSales
    BY DEF Sale
  <2>2. ASSUME NEW i \in 1..(m + n + 3), Kind(i) \in LockKind
        PROVE  Rank(r, D[i]) \in 0..(NSales + 3) /\ (Kind(i) = "line" <=> Rank(r, D[i]) > NSales + 1)
    BY <1>6, <2>1, <2>2, SaleAssumption
  <2> QED
    BY <1>0, <2>2 DEF Kind
<1>9. \A i, j \in 1..Len(D) : i < j => Later(r, D[i], D[j])
  BY <1>0, <1>7 DEF Later, Kind
<1> QED
  BY <1>3, <1>4, <1>5, <1>8, <1>9 DEF WellPlanned

LEMMA TotalWellPlanned ==
  ASSUME NEW r, r.op = "issue_rectification", r.mode # "partial",
         NEW m \in Nat, NEW ids \in [1..m -> Sale], NEW D,
         D \in Seq(Statement), Len(D) = m + 4,
         D[1] = <<"read">>, D[2] = <<"series", "R">>, D[3] = <<"check">>,
         \A i \in 1..m : D[3 + i] = <<"order", ids[i]>>,
         D[m + 4] = <<"commit">>,
         \A i, j \in 1..m : i < j => ids[i] < ids[j]
  PROVE  WellPlanned(r, D)
<1> DEFINE At(i) == \/ i = 1 /\ D[i] = <<"read">>
                    \/ i = 2 /\ D[i] = <<"series", "R">>
                    \/ i = 3 /\ D[i] = <<"check">>
                    \/ i \in 4..(m + 3) /\ D[i] = <<"order", ids[i - 3]>>
                    \/ i = m + 4 /\ D[i] = <<"commit">>
           Kind(i) == D[i][1]
<1>1. ASSUME NEW i \in 1..(m + 4) PROVE At(i)
  <2>1. CASE i \in 4..(m + 3)
    <3>1. i - 3 \in 1..m /\ 3 + (i - 3) = i
      BY <2>1
    <3>2. D[3 + (i - 3)] = <<"order", ids[i - 3]>>
      BY <3>1
    <3> QED
      BY <2>1, <3>1, <3>2
  <2>2. CASE i \notin 4..(m + 3)
    BY <2>2
  <2> QED
    BY <2>1, <2>2
<1>2. \A i \in 1..(m + 4) :
        /\ Kind(i) = "order" => i \in 4..(m + 3) /\ D[i] = <<"order", ids[i - 3]>>
        /\ Kind(i) = "series" => i = 2 /\ D[i] = <<"series", "R">>
        /\ Kind(i) # "line"
        /\ Kind(i) = "commit" => i = m + 4
        /\ i = m + 4 => Kind(i) = "commit"
  BY <1>1
<1> HIDE DEF At, Kind
<1>3. EndsInCommit(D)
  <2>1. \A i \in 1..(m + 4) : Kind(i) = "commit" <=> i = m + 4
    BY <1>2
  <2> QED
    BY <2>1 DEF EndsInCommit, Kind
<1>4. OneSeries(r, D)
  <2>1. \A i \in 1..(m + 4) : Kind(i) = "series" =>
          D[i] = <<"series", "R">> /\ \A j \in 1..(m + 4) : Kind(j) = "series" => j = i
    BY <1>2
  <2> QED
    BY <2>1 DEF OneSeries, Kind, SeriesOf
<1>5. Needs(r) \subseteq {D[i] : i \in 1..(Len(D) - 1)}
  <2>1. Len(D) - 1 = m + 3 /\ 2 \in 1..(m + 3) /\ 3 \in 1..(m + 3)
    OBVIOUS
  <2>2. Needs(r) = {<<"check">>, <<"series", "R">>}
    BY DEF Needs
  <2>3. D[2] \in {D[i] : i \in 1..(m + 3)} /\ D[3] \in {D[i] : i \in 1..(m + 3)}
    BY <2>1
  <2> QED
    BY <2>1, <2>2, <2>3
<1>6. ASSUME NEW i \in 1..(m + 4), Kind(i) \in LockKind
      PROVE  \/ i \in 4..(m + 3) /\ Rank(r, D[i]) = ids[i - 3] /\ Kind(i) = "order"
             \/ i = 2 /\ Rank(r, D[i]) = 0 /\ Kind(i) = "series"
  <2>1. CASE Kind(i) = "order"
    BY <1>2, <2>1 DEF Rank, Kind
  <2>2. CASE Kind(i) = "series"
    BY <1>2, <2>2 DEF Rank, Kind
  <2> QED
    BY <1>2, <1>6, <2>1, <2>2 DEF LockKind
<1>7. ASSUME NEW i \in 1..(m + 4), NEW j \in 1..(m + 4), i < j,
             Kind(i) \in LockKind, Kind(j) \in LockKind
      PROVE  Rank(r, D[i]) < Rank(r, D[j])
  <2>1. \A x \in 1..m : ids[x] \in 1..NSales
    BY DEF Sale
  <2>2. j \in 4..(m + 3) /\ j - 3 \in 1..m /\ Rank(r, D[j]) = ids[j - 3]
    BY <1>6, <1>7
  <2>3. CASE i = 2
    BY <1>6, <1>7, <2>1, <2>2, <2>3
  <2>4. CASE i # 2
    <3>1. i - 3 \in 1..m /\ Rank(r, D[i]) = ids[i - 3] /\ i - 3 < j - 3
      BY <1>6, <1>7, <2>4, <2>2
    <3> QED
      BY <2>2, <3>1
  <2> QED
    BY <2>3, <2>4
<1>8. \A i \in 1..Len(D) : D[i][1] \in LockKind =>
        Rank(r, D[i]) \in 0..(NSales + 3) /\ (D[i][1] = "line" <=> Rank(r, D[i]) > NSales + 1)
  <2>1. \A x \in 1..m : ids[x] \in 1..NSales
    BY DEF Sale
  <2>2. \A x \in 4..(m + 3) : x - 3 \in 1..m
    OBVIOUS
  <2>3. ASSUME NEW i \in 1..(m + 4), Kind(i) \in LockKind
        PROVE  Rank(r, D[i]) \in 0..(NSales + 3) /\ (Kind(i) = "line" <=> Rank(r, D[i]) > NSales + 1)
    BY <1>6, <2>1, <2>2, <2>3, SaleAssumption
  <2> QED
    BY <2>3 DEF Kind
<1>9. \A i, j \in 1..Len(D) : i < j => Later(r, D[i], D[j])
  BY <1>7 DEF Later, Kind
<1> QED
  BY <1>3, <1>4, <1>5, <1>8, <1>9 DEF WellPlanned

LEMMA PlanIsGood ==
  ASSUME NEW r, Standing(r)
  PROVE  WellPlanned(r, DocSteps(r))
<1>0. NSales \in Nat
  BY SaleAssumption
<1>1. CASE r.op = "issue_invoice"
  BY <1>1, IssuePlan, IssueWellPlanned
<1>2. CASE r.op = "issue_rectification" /\ r.mode # "partial"
  BY <1>2, TotalPlan, TotalWellPlanned
<1>3. CASE r.op = "issue_rectification" /\ r.mode = "partial"
  <2> DEFINE D == DocSteps(r)
  <2>1. /\ D \in Seq(Statement) /\ Len(D) = 5
        /\ D[1] = <<"read">> /\ D[2] = <<"series", "R">> /\ D[3] = <<"check">>
        /\ D[4] = <<"line", r.refund>> /\ D[5] = <<"commit">>
    BY <1>3, PartialPlan
  <2> HIDE DEF D
  <2>2. \A i \in 1..5 : i = 1 \/ i = 2 \/ i = 3 \/ i = 4 \/ i = 5
    OBVIOUS
  <2>3. EndsInCommit(D)
    BY <2>1, <2>2 DEF EndsInCommit
  <2>4. OneSeries(r, D)
    BY <1>3, <2>1, <2>2 DEF OneSeries, SeriesOf
  <2>5. Needs(r) \subseteq {D[i] : i \in 1..(Len(D) - 1)}
    <3>1. Needs(r) = {<<"check">>, <<"series", "R">>, <<"line", r.refund>>}
      BY <1>3 DEF Needs
    <3>2. D[2] \in {D[i] : i \in 1..4} /\ D[3] \in {D[i] : i \in 1..4} /\ D[4] \in {D[i] : i \in 1..4}
      OBVIOUS
    <3> QED
      BY <2>1, <3>1, <3>2
  <2>6. Rank(r, D[2]) = 0 /\ Rank(r, D[4]) = NSales + 2
    BY <1>3, <2>1 DEF Rank
  <2>7. \A i \in 1..5 : D[i][1] \in LockKind => i = 2 \/ i = 4
    BY <2>1, <2>2 DEF LockKind
  <2>8. \A i \in 1..Len(D) : D[i][1] \in LockKind =>
          Rank(r, D[i]) \in 0..(NSales + 3) /\ (D[i][1] = "line" <=> Rank(r, D[i]) > NSales + 1)
    <3> SUFFICES ASSUME NEW i \in 1..5, D[i][1] \in LockKind
                 PROVE  Rank(r, D[i]) \in 0..(NSales + 3) /\ (D[i][1] = "line" <=> Rank(r, D[i]) > NSales + 1)
      BY <2>1
    <3>0. D[2][1] = "series" /\ D[4][1] = "line"
      BY <2>1
    <3>1. CASE i = 2
      <4>1. 0 \in 0..(NSales + 3) /\ ~(0 > NSales + 1)
        BY <1>0
      <4> QED
        BY <2>6, <3>0, <3>1, <4>1
    <3>2. CASE i = 4
      <4>1. NSales + 2 \in 0..(NSales + 3) /\ NSales + 2 > NSales + 1
        BY <1>0
      <4> QED
        BY <2>6, <3>0, <3>2, <4>1
    <3> QED
      BY <2>7, <3>1, <3>2
  <2>9. \A i, j \in 1..Len(D) : i < j => Later(r, D[i], D[j])
    <3> SUFFICES ASSUME NEW i \in 1..5, NEW j \in 1..5, i < j,
                        D[i][1] \in LockKind, D[j][1] \in LockKind
                 PROVE  Rank(r, D[i]) < Rank(r, D[j])
      BY <2>1 DEF Later
    <3>1. i = 2 /\ j = 4
      BY <2>7
    <3> QED
      BY <1>0, <2>6, <3>1
  <2> QED
    BY <2>3, <2>4, <2>5, <2>8, <2>9 DEF WellPlanned, D
<1>4. CASE r.op \notin {"issue_invoice", "issue_rectification"}
  <2> DEFINE D == DocSteps(r)
  <2>1. D \in Seq(Statement) /\ Len(D) = 2 /\ D[1] = <<"read">> /\ D[2] = <<"commit">>
    BY <1>4, ShortPlan
  <2> HIDE DEF D
  <2>2. \A i \in 1..2 : i = 1 \/ i = 2
    OBVIOUS
  <2>3. EndsInCommit(D)
    BY <2>1, <2>2 DEF EndsInCommit
  <2>4. Needs(r) = {}
    BY <1>4 DEF Needs
  <2>5. \A i \in 1..2 : D[i][1] \notin LockKind
    BY <2>1, <2>2 DEF LockKind
  <2> QED
    BY <2>1, <2>3, <2>4, <2>5 DEF WellPlanned, OneSeries, Later, D, LockKind
<1> QED
  BY <1>1, <1>2, <1>3, <1>4

-----------------------------------------------------------------------------
(* The inductive invariant of the invoices. *)

InvoiceRow == [status : {"issued", "voided"}, orders : SUBSET Sale, totals : [Rate -> Int],
               rectifies : Invoice \union {Null}, mode : {Null, "partial", "total"}]

DocTypes ==
  /\ Issued \subseteq Invoice /\ \A i \in Issued : invoices[i] \in InvoiceRow
  /\ series \in [Series -> 0..MaxNumber] /\ number \in [Clerk -> 0..MaxNumber]
  /\ doing \in [Clerk -> DocRequest \union {Null}]
  /\ steps = [c \in Clerk |-> steps[c]] /\ locked = [c \in Clerk |-> locked[c]]

\* A clerk has run the first k - 1 statements of r, and holds what they locked.
AtStep(c, r, k) ==
  /\ k \in 1..Len(DocSteps(r))
  /\ steps[c] = SubSeq(DocSteps(r), k, Len(DocSteps(r)))
  /\ locked[c] = {DocSteps(r)[i] : i \in 1..(k - 1)}

OnItsWay(c) ==
  IF doing[c] = Null THEN locked[c] = {}
  ELSE Standing(doing[c]) /\ \E k \in 1..Len(DocSteps(doing[c])) : AtStep(c, doing[c], k)

Underway == \A c \in Clerk : OnItsWay(c)

\* FOR UPDATE and UNIQUE: no two transactions hold a row or an index entry.
RowsExclusive ==
  \A c, d \in Clerk : \A row \in locked[c] : c # d /\ row[1] \in LockKind => row \notin locked[d]

\* A line that is held was free when it was taken, and is.
LinesFree ==
  \A c \in Clerk, o \in Sale : <<"line", o>> \in locked[c] => o \notin InvoicedOrders

\* A number that is held is the next of its series.
NumbersTaken ==
  \A c \in Clerk, s \in Series : <<"series", s>> \in locked[c] => number[c] = series[s] + 1

\* What a request checked is still so.
Cleared(r) ==
  /\ r.op = "issue_invoice" => \A o \in Range(r.orders) : Amount(Summary[o]) > 0
  /\ (r.op = "issue_rectification" /\ r.mode = "partial") =>
       /\ r.refund \in Sale /\ RefundOf[r.refund] # Null /\ sales[r.refund] # "draft"
       /\ RefundOf[r.refund] \in invoices[r.invoice].orders

Checked == \A c \in Clerk : <<"check">> \in locked[c] => Cleared(doing[c])

\* The numbers of a series are all in use up to its value.
Numbered == \A i \in Invoice : i \in Issued <=> i[2] <= series[i[1]]

\* An invoice bills sales, a partial rectification one refund of them.
Bills(i) ==
  invoices[i].mode = Null => /\ invoices[i].totals = MergeTaxSummaries(invoices[i].orders)
                             /\ \A o \in invoices[i].orders : RefundOf[o] = Null
TakesOff(i) ==
  invoices[i].mode = "partial" =>
    /\ invoices[i].rectifies \in Issued
    /\ \E p \in Sale : /\ invoices[i].orders = {p} /\ invoices[i].totals = Summary[p]
                       /\ RefundOf[p] # Null /\ sales[p] # "draft"
                       /\ RefundOf[p] \in invoices[invoices[i].rectifies].orders

Billed == \A i \in Issued : Bills(i) /\ TakesOff(i)

DocInv ==
  /\ DocTypes /\ Underway /\ RowsExclusive /\ LinesFree /\ NumbersTaken /\ Checked
  /\ Numbered /\ InvoicedOnce /\ Billed

LEMMA RowOrders ==
  ASSUME NEW x \in InvoiceRow
  PROVE  x.orders \in SUBSET Sale /\ \A v \in Rate : x.totals[v] \in Int
BY DEF InvoiceRow

LEMMA InitDocInv == DocInit => DocInv
<1> SUFFICES ASSUME DocInit PROVE DocInv
  OBVIOUS
<1>1. Issued = {}
  BY DEF DocInit, Issued
<1>2. DocTypes
  <2>1. number = [c \in Clerk |-> 0] /\ series = [s \in Series |-> 0]
        /\ doing = [c \in Clerk |-> Null]
        /\ steps = [c \in Clerk |-> <<>>] /\ locked = [c \in Clerk |-> {}]
    BY DEF DocInit
  <2> QED
    BY <1>1, <2>1, SaleAssumption DEF DocTypes
<1>3. \A c \in Clerk : locked[c] = {} /\ doing[c] = Null
  BY DEF DocInit
<1>4. Underway /\ RowsExclusive /\ LinesFree /\ NumbersTaken /\ Checked
  BY <1>3 DEF Underway, OnItsWay, RowsExclusive, LinesFree, NumbersTaken, Checked
<1>5. Numbered
  <2>1. \A i \in Invoice : i[1] \in Series /\ i[2] \in 1..MaxNumber
    BY DEF Invoice
  <2>2. \A s \in Series : series[s] = 0
    BY DEF DocInit
  <2> QED
    BY <1>1, <2>1, <2>2, SaleAssumption DEF Numbered
<1>6. InvoicedOnce /\ Billed
  BY <1>1 DEF InvoicedOnce, Billed
<1> QED
  BY <1>2, <1>4, <1>5, <1>6 DEF DocInv

\* Documents are never unmade, nor are their sales changed.
Preserved ==
  /\ Issued \subseteq Issued'
  /\ \A i \in Issued : invoices'[i].orders = invoices[i].orders
  /\ \A i \in Issued' : invoices'[i].orders \in SUBSET Sale

LEMMA PlanStable ==
  ASSUME Preserved, NEW r, Standing(r)
  PROVE  DocSteps(r)' = DocSteps(r) /\ Standing(r)'
<1>1. r.op = "issue_rectification" => invoices'[r.invoice].orders = invoices[r.invoice].orders
  BY DEF Preserved, Standing
<1>2. DocSteps(r)' = DocSteps(r)
  BY <1>1 DEF DocSteps
<1>3. Standing(r)'
  BY DEF Preserved, Standing
<1> QED
  BY <1>2, <1>3

\* A clerk that does nothing in a step is where it was.
LEMMA WaitingClerk ==
  ASSUME Preserved, NEW c, NEW r, Standing(r), NEW k, AtStep(c, r, k),
         steps'[c] = steps[c], locked'[c] = locked[c]
  PROVE  AtStep(c, r, k)'
<1>1. DocSteps(r)' = DocSteps(r)
  BY PlanStable
<1> DEFINE D == DocSteps(r)
<1>2. k \in 1..Len(D) /\ steps'[c] = SubSeq(D, k, Len(D)) /\ locked'[c] = {D[i] : i \in 1..(k - 1)}
  BY DEF AtStep
<1>3. k \in 1..Len(D)' /\ steps'[c] = SubSeq(D', k, Len(D')) /\ locked'[c] = {D'[i] : i \in 1..(k - 1)}
  BY <1>1, <1>2
<1> QED
  BY <1>3 DEF AtStep

LEMMA StillOnItsWay ==
  ASSUME Preserved, Underway, NEW d \in Clerk,
         doing'[d] = doing[d], steps'[d] = steps[d], locked'[d] = locked[d]
  PROVE  OnItsWay(d)'
<1>1. CASE doing[d] = Null
  BY <1>1 DEF Underway, OnItsWay
<1>2. CASE doing[d] # Null
  <2>1. PICK r : r = doing[d]
    OBVIOUS
  <2>2. Standing(r) /\ \E k \in 1..Len(DocSteps(r)) : AtStep(d, r, k)
    BY <1>2, <2>1 DEF Underway, OnItsWay
  <2>3. PICK k \in 1..Len(DocSteps(r)) : AtStep(d, r, k)
    BY <2>2
  <2>4. AtStep(d, r, k)' /\ Standing(r)' /\ DocSteps(r)' = DocSteps(r)
    BY <2>2, <2>3, WaitingClerk, PlanStable
  <2>5. doing'[d] = r
    BY <2>1
  <2>6. AtStep(d, doing[d], k)' /\ Standing(doing[d])' /\ k \in 1..Len(DocSteps(doing[d])')
    BY <2>3, <2>4, <2>5
  <2> QED
    BY <1>2, <2>1, <2>5, <2>6 DEF OnItsWay
<1> QED
  BY <1>1, <1>2

\* What a clerk runs next.
LEMMA RowAt ==
  ASSUME NEW c, NEW r, Standing(r), NEW k, AtStep(c, r, k)
  PROVE  LET D == DocSteps(r)
         IN  /\ D \in Seq(Statement) /\ Len(D) \in Nat \ {0} /\ k \in 1..Len(D)
             /\ WellPlanned(r, D)
             /\ DocRow(c) = D[k] /\ (D[k][1] = "commit" <=> k = Len(D))
             /\ k # Len(D) => Tail(steps[c]) = SubSeq(D, k + 1, Len(D))
             /\ k = Len(D) => Needs(r) \subseteq locked[c]
<1> DEFINE D == DocSteps(r)
<1>1. WellPlanned(r, D)
  BY PlanIsGood
<1> HIDE DEF D
<1>2. D \in Seq(Statement) /\ Len(D) \in Nat \ {0}
      /\ \A i \in 1..Len(D) : D[i][1] = "commit" <=> i = Len(D)
  BY <1>1 DEF WellPlanned, EndsInCommit
<1>3. k \in 1..Len(D) /\ steps[c] = SubSeq(D, k, Len(D)) /\ locked[c] = {D[i] : i \in 1..(k - 1)}
  BY DEF AtStep, D
<1>4. Head(SubSeq(D, k, Len(D))) = D[k] /\ Tail(SubSeq(D, k, Len(D))) = SubSeq(D, k + 1, Len(D))
  <2>1. Len(D) \in k..Len(D)
    BY <1>2, <1>3
  <2> QED
    BY <1>2, <1>3, <2>1, HeadTailOfSubSeq
<1>5. k = Len(D) => Needs(r) \subseteq locked[c]
  BY <1>1, <1>3 DEF WellPlanned
<1> QED
  BY <1>1, <1>2, <1>3, <1>4, <1>5 DEF DocRow, D

-----------------------------------------------------------------------------
(* Each step keeps it. *)

LEMMA DocBeginInv ==
  ASSUME DocInv, NEW c \in Clerk, NEW r \in DocRequest, DocBegin(c, r)
  PROVE  DocInv'
<1>0. DocTypes /\ Underway
  BY DEF DocInv
<1>1. UNCHANGED <<sales, invoices, series, locked, number>>
  BY DEF DocBegin, docRows
<1>2. doing[c] = Null /\ r # Null
  BY DocRequestAssumption DEF DocBegin
<1>3. /\ doing'[c] = r /\ steps'[c] = DocSteps(r)
      /\ \A d \in Clerk \ {c} : doing'[d] = doing[d] /\ steps'[d] = steps[d]
  BY <1>0 DEF DocBegin, DocTypes
<1>4. Preserved
  BY <1>0, <1>1, RowOrders DEF Preserved, DocTypes, Issued
<1>5. Standing(r)
  BY <1>0, RowOrders DEF Standing, DocBegin, DocTypes
<1>6. DocTypes'
  BY <1>0, <1>1 DEF DocTypes, DocBegin, Issued
<1>7. locked[c] = {}
  BY <1>0, <1>2 DEF Underway, OnItsWay
<1>8. Underway'
  <2>1. OnItsWay(c)'
    <3>1. Standing(r)' /\ DocSteps(r)' = DocSteps(r)
      BY <1>4, <1>5, PlanStable
    <3>2. WellPlanned(r, DocSteps(r))
      BY <1>5, PlanIsGood
    <3>3. PICK D : D = DocSteps(r)
      OBVIOUS
    <3>4. D \in Seq(Statement) /\ Len(D) \in Nat \ {0}
      BY <3>2, <3>3 DEF WellPlanned, EndsInCommit
    <3>5. 1 \in 1..Len(D) /\ steps'[c] = SubSeq(D, 1, Len(D)) /\ locked'[c] = {D[i] : i \in 1..(1 - 1)}
      BY <1>1, <1>3, <1>7, <3>3, <3>4, SubSeqFull
    <3>6. AtStep(c, r, 1)' /\ 1 \in 1..Len(DocSteps(r)')
      BY <3>1, <3>3, <3>5 DEF AtStep
    <3>7. AtStep(c, doing[c], 1)' /\ Standing(doing[c])' /\ 1 \in 1..Len(DocSteps(doing[c])')
      BY <1>3, <3>1, <3>6
    <3> QED
      BY <1>2, <1>3, <3>7 DEF OnItsWay
  <2>2. \A d \in Clerk \ {c} : OnItsWay(d)'
    BY <1>0, <1>1, <1>3, <1>4, StillOnItsWay
  <2> QED
    BY <2>1, <2>2 DEF Underway
<1>9. RowsExclusive' /\ LinesFree' /\ NumbersTaken'
  BY <1>1 DEF DocInv, RowsExclusive, LinesFree, NumbersTaken, InvoicedOrders, Issued
<1>10. Checked'
  <2>1. \A d \in Clerk \ {c} : <<"check">> \in locked[d] => Cleared(doing[d])
    BY DEF DocInv, Checked
  <2>2. ASSUME NEW d \in Clerk \ {c}, <<"check">> \in locked[d] PROVE Cleared(doing[d])'
    BY <1>1, <1>3, <2>1, <2>2 DEF Cleared
  <2> QED
    BY <1>1, <1>7, <2>2 DEF Checked
<1>11. Numbered' /\ InvoicedOnce' /\ Billed'
  BY <1>1 DEF DocInv, Numbered, InvoicedOnce, Billed, Bills, TakesOff, Issued
<1> QED
  BY <1>6, <1>8, <1>9, <1>10, <1>11 DEF DocInv

\* What a statement checks.
LEMMA Checks ==
  ASSUME NEW c, DocCheck(c), NEW r, r = doing[c], NEW row, row = DocRow(c)
  PROVE  /\ row[1] = "series" => series[row[2]] < MaxNumber
         /\ row[1] = "line" => row[2] \notin InvoicedOrders
         /\ row[1] = "check" => IF r.op = "issue_invoice" THEN Invoiceable(Range(r.orders))
                                                          ELSE Rectifiable(r)
BY DEF DocCheck, LineFree

LEMMA DocAdvanceInv ==
  ASSUME DocInv, NEW c \in Clerk, DocAdvance(c)
  PROVE  DocInv'
<1>0. DocTypes /\ Underway /\ RowsExclusive /\ LinesFree /\ NumbersTaken /\ Checked
  BY DEF DocInv
<1>1. UNCHANGED <<sales, invoices, series, doing>>
  BY DEF DocAdvance, docRows
<1>2. PICK r : r = doing[c]
  OBVIOUS
<1>3. r # Null /\ DocCheck(c) /\ DocGranted(c) /\ DocRow(c)[1] # "commit"
  BY <1>2 DEF DocAdvance
<1>4. Standing(r) /\ \E k \in 1..Len(DocSteps(r)) : AtStep(c, r, k)
  BY <1>0, <1>2, <1>3 DEF Underway, OnItsWay
<1>5. PICK k \in 1..Len(DocSteps(r)) : AtStep(c, r, k)
  BY <1>4
<1>6. PICK D : D = DocSteps(r)
  OBVIOUS
<1>7. /\ D \in Seq(Statement) /\ Len(D) \in Nat \ {0} /\ k \in 1..Len(D)
      /\ WellPlanned(r, D)
      /\ DocRow(c) = D[k] /\ (D[k][1] = "commit" <=> k = Len(D))
      /\ k # Len(D) => Tail(steps[c]) = SubSeq(D, k + 1, Len(D))
  BY <1>4, <1>5, <1>6, RowAt
<1>8. k + 1 \in 1..Len(D) /\ Tail(steps[c]) = SubSeq(D, k + 1, Len(D))
  BY <1>3, <1>7
<1>9. locked[c] = {D[i] : i \in 1..(k - 1)}
  BY <1>5, <1>6 DEF AtStep
<1>10. PICK row : row = DocRow(c)
  OBVIOUS
<1>11. /\ steps'[c] = SubSeq(D, k + 1, Len(D)) /\ locked'[c] = locked[c] \union {row}
       /\ \A d \in Clerk \ {c} : steps'[d] = steps[d] /\ locked'[d] = locked[d] /\ number'[d] = number[d]
       /\ number'[c] = IF row[1] = "series" THEN series[row[2]] + 1 ELSE number[c]
       /\ steps' = [d \in Clerk |-> steps'[d]] /\ locked' = [d \in Clerk |-> locked'[d]]
  <2>1. /\ steps' = [steps EXCEPT ![c] = Tail(steps[c])]
        /\ locked' = [locked EXCEPT ![c] = locked[c] \union {row}]
        /\ number' = [number EXCEPT ![c] = IF DocAt(c, "series") THEN series[row[2]] + 1 ELSE number[c]]
    BY <1>10 DEF DocAdvance
  <2>2. DocAt(c, "series") <=> row[1] = "series"
    BY <1>2, <1>3, <1>10 DEF DocAt, DocRow
  <2> QED
    BY <1>0, <1>8, <2>1, <2>2 DEF DocTypes
<1>12. row = D[k]
  BY <1>7, <1>10
<1>13. /\ row[1] = "series" => series[row[2]] < MaxNumber
       /\ row[1] = "line" => row[2] \notin InvoicedOrders
       /\ row[1] = "check" => IF r.op = "issue_invoice" THEN Invoiceable(Range(r.orders))
                                                        ELSE Rectifiable(r)
  BY <1>2, <1>3, <1>10, Checks
<1>14. row[1] = "series" => /\ row = <<"series", SeriesOf(r)>>
                            /\ \A s : <<"series", s>> \notin locked[c]
  <2>1. ASSUME row[1] = "series", NEW s, <<"series", s>> \in locked[c] PROVE FALSE
    <3>1. PICK i \in 1..(k - 1) : D[i] = <<"series", s>>
      BY <1>9, <2>1
    <3>2. i \in 1..Len(D) /\ D[i][1] = "series" /\ i # k
      BY <1>7, <3>1
    <3> QED
      BY <1>7, <1>12, <2>1, <3>2 DEF WellPlanned, OneSeries
  <2> QED
    BY <1>7, <1>12, <2>1 DEF WellPlanned, OneSeries
<1>15. row[1] = "series" => series[row[2]] + 1 \in 0..MaxNumber /\ row[2] \in Series
  <2> HAVE row[1] = "series"
  <2>1. row = <<"series", SeriesOf(r)>>
    BY <1>14
  <2>2. row[2] \in Series
    BY <2>1 DEF Series, SeriesOf
  <2>3. series[row[2]] \in 0..MaxNumber /\ series[row[2]] < MaxNumber
    BY <1>0, <1>13, <2>2 DEF DocTypes
  <2> QED
    BY <2>2, <2>3, SaleAssumption
<1>16. Preserved
  BY <1>0, <1>1, RowOrders DEF Preserved, DocTypes, Issued
<1>17. DocTypes'
  <2>1. number' \in [Clerk -> 0..MaxNumber]
    <3>1. number' = [number EXCEPT ![c] = number'[c]]
      BY <1>0 DEF DocAdvance, DocTypes
    <3>2. number'[c] \in 0..MaxNumber
      BY <1>0, <1>11, <1>15 DEF DocTypes
    <3> QED
      BY <1>0, <3>1, <3>2 DEF DocTypes
  <2> QED
    BY <1>0, <1>1, <1>11, <2>1 DEF DocTypes, Issued
<1>18. Underway'
  <2>1. OnItsWay(c)'
    <3>1. Standing(r)' /\ DocSteps(r)' = D
      BY <1>4, <1>6, <1>16, PlanStable
    <3>2. locked'[c] = {D[i] : i \in 1..((k + 1) - 1)}
      BY <1>7, <1>9, <1>11, <1>12
    <3>3. AtStep(c, r, k + 1)'
      BY <1>8, <1>11, <3>1, <3>2 DEF AtStep
    <3>4. doing'[c] = r
      BY <1>1, <1>2
    <3>5. AtStep(c, doing[c], k + 1)' /\ Standing(doing[c])' /\ k + 1 \in 1..Len(DocSteps(doing[c])')
      BY <1>8, <3>1, <3>3, <3>4
    <3> QED
      BY <1>3, <3>4, <3>5 DEF OnItsWay
  <2>2. \A d \in Clerk \ {c} : OnItsWay(d)'
    BY <1>0, <1>1, <1>11, <1>16, StillOnItsWay
  <2> QED
    BY <2>1, <2>2 DEF Underway
<1>19. RowsExclusive'
  <2>1. row[1] \in LockKind => \A d \in Clerk \ {c} : row \notin locked[d]
    BY <1>3, <1>10 DEF DocGranted, LockKind
  <2> SUFFICES ASSUME NEW x \in Clerk, NEW y \in Clerk, x # y, NEW s, s \in locked'[x],
                      s[1] \in LockKind, s \in locked'[y]
               PROVE  FALSE
    BY DEF RowsExclusive
  <2>2. CASE s = row
    BY <1>11, <2>1, <2>2
  <2>3. CASE s # row
    <3>1. s \in locked[x] /\ s \in locked[y]
      BY <1>11, <2>3
    <3> QED
      BY <1>0, <3>1 DEF RowsExclusive
  <2> QED
    BY <2>2, <2>3
<1>20. LinesFree'
  <2> SUFFICES ASSUME NEW d \in Clerk, NEW o \in Sale, <<"line", o>> \in locked'[d]
               PROVE  o \notin InvoicedOrders
    BY <1>1 DEF LinesFree, InvoicedOrders, Issued
  <2>1. CASE <<"line", o>> \in locked[d]
    BY <1>0, <2>1 DEF LinesFree
  <2>2. CASE <<"line", o>> \notin locked[d]
    <3>1. row = <<"line", o>>
      BY <1>11, <2>2
    <3> QED
      BY <1>13, <3>1
  <2> QED
    BY <2>1, <2>2
<1>21. NumbersTaken'
  <2> SUFFICES ASSUME NEW d \in Clerk, NEW s \in Series, <<"series", s>> \in locked'[d]
               PROVE  number'[d] = series[s] + 1
    BY <1>1 DEF NumbersTaken
  <2>1. CASE <<"series", s>> \in locked[d]
    <3>1. number[d] = series[s] + 1
      BY <1>0, <2>1 DEF NumbersTaken
    <3>2. number'[d] = number[d]
      BY <1>11, <1>14, <2>1
    <3> QED
      BY <3>1, <3>2
  <2>2. CASE <<"series", s>> \notin locked[d]
    <3>1. d = c /\ row = <<"series", s>>
      BY <1>11, <2>2
    <3> QED
      BY <1>11, <3>1
  <2> QED
    BY <2>1, <2>2
<1>22. Checked'
  <2> SUFFICES ASSUME NEW d \in Clerk, <<"check">> \in locked'[d] PROVE Cleared(doing[d])
    BY <1>1 DEF Checked, Cleared
  <2>1. CASE <<"check">> \in locked[d]
    BY <1>0, <2>1 DEF Checked
  <2>2. CASE <<"check">> \notin locked[d]
    <3>1. d = c /\ row = <<"check">>
      BY <1>11, <2>2
    <3>2. IF r.op = "issue_invoice" THEN Invoiceable(Range(r.orders)) ELSE Rectifiable(r)
      BY <1>13, <3>1
    <3>3. r.op = "issue_invoice" => \A o \in Range(r.orders) : Amount(Summary[o]) > 0
      BY <3>2 DEF Invoiceable
    <3>4. ASSUME r.op = "issue_rectification", r.mode = "partial"
          PROVE  /\ r.refund \in Sale /\ RefundOf[r.refund] # Null /\ sales[r.refund] # "draft"
                 /\ RefundOf[r.refund] \in invoices[r.invoice].orders
      <4>1. Rectifiable(r) /\ r.refund \in Sale \union {Null}
        BY <1>4, <3>2, <3>4, PartialPlan
      <4> QED
        BY <3>4, <4>1 DEF Rectifiable
    <3>5. Cleared(r)
      BY <3>3, <3>4 DEF Cleared
    <3> QED
      BY <1>2, <3>1, <3>5
  <2> QED
    BY <2>1, <2>2
<1>23. Numbered' /\ InvoicedOnce' /\ Billed'
  BY <1>1 DEF DocInv, Numbered, InvoicedOnce, Billed, Bills, TakesOff, Issued
<1> QED
  BY <1>17, <1>18, <1>19, <1>20, <1>21, <1>22, <1>23 DEF DocInv

\* What a clerk that leaves lets go.
LEMMA Leaving ==
  ASSUME DocTypes, NEW c \in Clerk, DocLeave(c)
  PROVE  /\ doing'[c] = Null /\ locked'[c] = {}
         /\ \A d \in Clerk \ {c} : /\ doing'[d] = doing[d] /\ steps'[d] = steps[d]
                                   /\ locked'[d] = locked[d] /\ number'[d] = number[d]
         /\ doing' \in [Clerk -> DocRequest \union {Null}]
         /\ number' \in [Clerk -> 0..MaxNumber]
         /\ steps' = [d \in Clerk |-> steps'[d]] /\ locked' = [d \in Clerk |-> locked'[d]]
<1>1. 0 \in 0..MaxNumber
  BY SaleAssumption
<1> QED
  BY <1>1 DEF DocTypes, DocLeave

\* Nor do the others hold more.
LEMMA LeavingWork ==
  ASSUME DocTypes, Underway, RowsExclusive, Preserved, NEW c \in Clerk, DocLeave(c)
  PROVE  Underway' /\ RowsExclusive'
<1>1. /\ doing'[c] = Null /\ locked'[c] = {}
      /\ \A d \in Clerk \ {c} : /\ doing'[d] = doing[d] /\ steps'[d] = steps[d]
                                /\ locked'[d] = locked[d]
  BY Leaving
<1>2. OnItsWay(c)'
  BY <1>1 DEF OnItsWay
<1>3. \A d \in Clerk \ {c} : OnItsWay(d)'
  BY <1>1, StillOnItsWay
<1>4. RowsExclusive'
  BY <1>1 DEF RowsExclusive
<1> QED
  BY <1>2, <1>3, <1>4 DEF Underway

\* The documents are what they were but for the status of one.
Alike ==
  /\ Issued' = Issued
  /\ \A i \in Issued : /\ invoices'[i] \in InvoiceRow
                       /\ invoices'[i].orders = invoices[i].orders
                       /\ invoices'[i].totals = invoices[i].totals
                       /\ invoices'[i].rectifies = invoices[i].rectifies
                       /\ invoices'[i].mode = invoices[i].mode

\* The documents as they are alike, whoever leaves.
LEMMA LeaveInv ==
  ASSUME DocInv, NEW c \in Clerk, DocLeave(c), Alike, UNCHANGED <<sales, series>>
  PROVE  DocInv'
<1>0. DocTypes /\ Underway /\ RowsExclusive /\ LinesFree /\ NumbersTaken /\ Checked
  BY DEF DocInv
<1>1. /\ doing'[c] = Null /\ locked'[c] = {}
      /\ \A d \in Clerk \ {c} : /\ doing'[d] = doing[d] /\ steps'[d] = steps[d]
                                /\ locked'[d] = locked[d] /\ number'[d] = number[d]
      /\ doing' \in [Clerk -> DocRequest \union {Null}]
      /\ number' \in [Clerk -> 0..MaxNumber]
      /\ steps' = [d \in Clerk |-> steps'[d]] /\ locked' = [d \in Clerk |-> locked'[d]]
  BY <1>0, Leaving
<1>2. DocTypes'
  BY <1>0, <1>1 DEF DocTypes, Alike
<1>3. Preserved
  BY <1>0, RowOrders DEF Preserved, Alike, DocTypes
<1>4. Underway' /\ RowsExclusive'
  BY <1>0, <1>3, LeavingWork
<1>5. InvoicedOrders' = InvoicedOrders
  BY DEF InvoicedOrders, Alike
<1>6. LinesFree'
  BY <1>0, <1>1, <1>5 DEF LinesFree
<1>7. NumbersTaken'
  BY <1>0, <1>1 DEF NumbersTaken
<1>8. Checked'
  <2> SUFFICES ASSUME NEW d \in Clerk \ {c}, <<"check">> \in locked[d] PROVE Cleared(doing[d])'
    BY <1>1 DEF Checked
  <2>1. PICK r : r = doing[d]
    OBVIOUS
  <2>2. r # Null /\ Cleared(r)
    BY <1>0, <2>1 DEF Underway, OnItsWay, Checked
  <2>3. r.op = "issue_rectification" => r.invoice \in Issued
    BY <1>0, <2>1, <2>2 DEF Underway, OnItsWay, Standing
  <2>4. Cleared(r)'
    BY <2>2, <2>3 DEF Cleared, Alike
  <2> QED
    BY <1>1, <2>1, <2>4
<1>9. Numbered'
  BY DEF DocInv, Numbered, Alike
<1>10. InvoicedOnce'
  BY DEF DocInv, InvoicedOnce, Alike
<1>11. Billed'
  BY DEF DocInv, Billed, Bills, TakesOff, Alike
<1> QED
  BY <1>2, <1>4, <1>6, <1>7, <1>8, <1>9, <1>10, <1>11 DEF DocInv

LEMMA EndInv ==
  ASSUME DocInv, NEW c \in Clerk, DocRefuse(c) \/ DocAbort(c) \/ ReprintTicket(c)
  PROVE  DocInv'
<1>1. DocLeave(c) /\ UNCHANGED <<sales, invoices, series>>
  BY DEF DocRefuse, DocAbort, ReprintTicket, DocCommitting, docRows
<1>2. Alike
  BY <1>1 DEF DocInv, DocTypes, Alike, Issued
<1> QED
  BY <1>1, <1>2, LeaveInv

\* What is known when a request commits.
LEMMA AtCommit ==
  ASSUME DocInv, NEW c \in Clerk, NEW op, DocCommitting(c, op), NEW r, r = doing[c]
  PROVE  Standing(r) /\ r.op = op /\ DocWellFormed(r) /\ DocLeave(c) /\ Needs(r) \subseteq locked[c]
         /\ (<<"check">> \in Needs(r) => Cleared(r))
<1>1. r # Null /\ r.op = op /\ DocRow(c)[1] = "commit" /\ DocLeave(c)
  BY DEF DocCommitting, DocAt, DocRow
<1>2. Standing(r) /\ \E k \in 1..Len(DocSteps(r)) : AtStep(c, r, k)
  BY <1>1 DEF DocInv, Underway, OnItsWay
<1>3. PICK k \in 1..Len(DocSteps(r)) : AtStep(c, r, k)
  BY <1>2
<1>4. Needs(r) \subseteq locked[c]
  BY <1>1, <1>2, <1>3, RowAt
<1>5. DocWellFormed(r)
  BY <1>2, DocRequestAssumption DEF Standing
<1> QED
  BY <1>1, <1>2, <1>4, <1>5 DEF DocInv, Checked

LEMMA VoidInvoiceInv ==
  ASSUME DocInv, NEW c \in Clerk, VoidInvoice(c)
  PROVE  DocInv'
<1>1. PICK r : r = doing[c]
  OBVIOUS
<1>2. DocCommitting(c, "void_invoice")
  BY DEF VoidInvoice
<1>3. r.invoice \in Issued /\ DocLeave(c)
  BY <1>1, <1>2, AtCommit DEF Standing
<1>4. PICK k \in Issued : k = r.invoice
  BY <1>3
<1>5. /\ invoices' = [invoices EXCEPT ![k] = [invoices[k] EXCEPT !.status = "voided"]]
      /\ UNCHANGED <<sales, series>>
  BY <1>1, <1>4 DEF VoidInvoice
<1>6. \A i \in Issued : invoices[i] \in InvoiceRow
  BY DEF DocInv, DocTypes
<1>7. Alike
  <2>1. Issued' = Issued
    BY <1>5 DEF Issued
  <2>2. /\ invoices'[k] = [invoices[k] EXCEPT !.status = "voided"]
        /\ \A i \in Issued \ {k} : invoices'[i] = invoices[i]
    BY <1>5 DEF Issued
  <2>3. ASSUME NEW x \in InvoiceRow, NEW y, y = [x EXCEPT !.status = "voided"]
        PROVE  /\ y \in InvoiceRow /\ y.orders = x.orders /\ y.totals = x.totals
               /\ y.rectifies = x.rectifies /\ y.mode = x.mode
    BY <2>3 DEF InvoiceRow
  <2>4. /\ invoices'[k] \in InvoiceRow /\ invoices'[k].orders = invoices[k].orders
        /\ invoices'[k].totals = invoices[k].totals
        /\ invoices'[k].rectifies = invoices[k].rectifies
        /\ invoices'[k].mode = invoices[k].mode
    BY <1>6, <2>2, <2>3
  <2> QED
    BY <1>6, <2>1, <2>2, <2>4 DEF Alike
<1> QED
  BY <1>3, <1>5, <1>7, LeaveInv

\* A new document: its number is the one it took, its sales were held.
LEMMA CommitInv ==
  ASSUME DocInv, NEW c \in Clerk, DocLeave(c), NEW s \in Series,
         <<"series", s>> \in locked[c],
         NEW os, NEW sum, NEW original, NEW mode,
         invoices' = Created(s, number[c], os, sum, original, mode),
         series' = [series EXCEPT ![s] = number[c]], UNCHANGED sales,
         [status |-> "issued", orders |-> os, totals |-> sum,
          rectifies |-> original, mode |-> mode] \in InvoiceRow,
         \A o \in os : <<"line", o>> \in locked[c],
         mode = Null => sum = MergeTaxSummaries(os) /\ \A o \in os : RefundOf[o] = Null,
         mode = "partial" =>
           /\ original \in Issued
           /\ \E p \in Sale : /\ os = {p} /\ sum = Summary[p]
                              /\ RefundOf[p] # Null /\ sales[p] # "draft"
                              /\ RefundOf[p] \in invoices[original].orders
  PROVE  DocInv'
<1>0. DocTypes /\ Underway /\ RowsExclusive /\ LinesFree /\ NumbersTaken /\ Checked
      /\ Numbered /\ InvoicedOnce /\ Billed
  BY DEF DocInv
<1>1. /\ doing'[c] = Null /\ locked'[c] = {}
      /\ \A d \in Clerk \ {c} : /\ doing'[d] = doing[d] /\ steps'[d] = steps[d]
                                /\ locked'[d] = locked[d] /\ number'[d] = number[d]
      /\ doing' \in [Clerk -> DocRequest \union {Null}]
      /\ number' \in [Clerk -> 0..MaxNumber]
      /\ steps' = [d \in Clerk |-> steps'[d]] /\ locked' = [d \in Clerk |-> locked'[d]]
  BY <1>0, Leaving
<1>2. PICK n : n = number[c]
  OBVIOUS
<1>3. n = series[s] + 1 /\ n \in 1..MaxNumber /\ series[s] \in 0..MaxNumber
  <2>1. n \in 0..MaxNumber /\ series[s] \in 0..MaxNumber /\ n = series[s] + 1
    BY <1>0, <1>2 DEF DocTypes, NumbersTaken
  <2> QED
    BY <2>1, SaleAssumption
<1>4. PICK k : k = <<s, n>>
  OBVIOUS
<1>5. k \in Invoice /\ k[1] = s /\ k[2] = n
  BY <1>3, <1>4 DEF Invoice
<1>6. k \notin Issued
  BY <1>0, <1>3, <1>5, SaleAssumption DEF Numbered
<1>7. PICK row \in InvoiceRow : row = [status |-> "issued", orders |-> os, totals |-> sum,
                                       rectifies |-> original, mode |-> mode]
  OBVIOUS
<1>8. /\ row.orders = os /\ row.totals = sum /\ row.rectifies = original /\ row.mode = mode
      /\ os \in SUBSET Sale
  BY <1>7, RowOrders
<1>9. /\ invoices' = [i \in Issued \union {k} |-> IF i # k THEN invoices[i] ELSE row]
      /\ series' = [series EXCEPT ![s] = n]
  BY <1>2, <1>4, <1>7 DEF Created
<1>10. /\ Issued' = Issued \union {k} /\ invoices'[k] = row
       /\ \A i \in Issued : invoices'[i] = invoices[i]
  BY <1>6, <1>9 DEF Issued
<1>11. /\ series' \in [Series -> 0..MaxNumber] /\ series'[s] = n
       /\ \A t \in Series \ {s} : series'[t] = series[t]
  BY <1>0, <1>3, <1>9, SaleAssumption DEF DocTypes
<1>12. DocTypes'
  BY <1>0, <1>1, <1>5, <1>10, <1>11 DEF DocTypes
<1>13. Preserved
  BY <1>0, <1>8, <1>10, RowOrders DEF Preserved, DocTypes
<1>14. Underway' /\ RowsExclusive'
  BY <1>0, <1>13, LeavingWork
<1>15. InvoicedOrders' = InvoicedOrders \union os
  BY <1>8, <1>10 DEF InvoicedOrders
<1>16. os \intersect InvoicedOrders = {}
  BY <1>0, <1>8 DEF LinesFree
<1>17. LinesFree'
  <2> SUFFICES ASSUME NEW d \in Clerk \ {c}, NEW o \in Sale, <<"line", o>> \in locked[d]
               PROVE  o \notin InvoicedOrders \union os
    BY <1>1, <1>15 DEF LinesFree
  <2>1. o \notin InvoicedOrders
    BY <1>0 DEF LinesFree
  <2>2. <<"line", o>> \notin locked[c]
    BY <1>0 DEF RowsExclusive, LockKind
  <2> QED
    BY <2>1, <2>2
<1>18. NumbersTaken'
  <2> SUFFICES ASSUME NEW d \in Clerk \ {c}, NEW t \in Series, <<"series", t>> \in locked[d]
               PROVE  number[d] = series'[t] + 1
    BY <1>1 DEF NumbersTaken
  <2>1. <<"series", t>> \notin locked[c]
    BY <1>0 DEF RowsExclusive, LockKind
  <2>2. t # s
    BY <2>1
  <2> QED
    BY <1>0, <1>11, <2>2 DEF NumbersTaken
<1>19. Checked'
  <2> SUFFICES ASSUME NEW d \in Clerk \ {c}, <<"check">> \in locked[d] PROVE Cleared(doing[d])'
    BY <1>1 DEF Checked
  <2>1. PICK r : r = doing[d]
    OBVIOUS
  <2>2. r # Null /\ Cleared(r)
    BY <1>0, <2>1 DEF Underway, OnItsWay, Checked
  <2>3. r.op = "issue_rectification" => r.invoice \in Issued
    BY <1>0, <2>1, <2>2 DEF Underway, OnItsWay, Standing
  <2>4. Cleared(r)'
    BY <1>10, <2>2, <2>3 DEF Cleared
  <2> QED
    BY <1>1, <2>1, <2>4
<1>20. Numbered'
  <2> SUFFICES ASSUME NEW i \in Invoice PROVE i \in Issued' <=> i[2] <= series'[i[1]]
    BY DEF Numbered
  <2>0. i[1] \in Series /\ i[2] \in 1..MaxNumber /\ i = <<i[1], i[2]>>
    BY DEF Invoice
  <2>1. i \in Issued <=> i[2] <= series[i[1]]
    BY <1>0 DEF Numbered
  <2>2. CASE i[1] = s
    <3>1. i = k <=> i[2] = n
      BY <1>4, <1>5, <2>0, <2>2
    <3>2. i \in Issued' <=> i \in Issued \/ i = k
      BY <1>10
    <3>3. series'[i[1]] = n /\ series[i[1]] = n - 1
      BY <1>3, <1>11, <2>2
    <3>4. i[2] <= n <=> i[2] <= n - 1 \/ i[2] = n
      <4>1. \A x, y \in Int : x <= y <=> (x <= y - 1 \/ x = y)
        OBVIOUS
      <4>2. i[2] \in Int /\ n \in Int
        BY <1>3, <2>0, SaleAssumption
      <4> QED
        BY ONLY <4>1, <4>2
    <3> QED
      BY <2>1, <3>1, <3>2, <3>3, <3>4
  <2>3. CASE i[1] # s
    BY <1>5, <1>10, <1>11, <2>0, <2>1, <2>3
  <2> QED
    BY <2>2, <2>3
<1>21. InvoicedOnce'
  <2>1. \A i \in Issued : invoices[i].orders \intersect os = {}
    BY <1>16 DEF InvoicedOrders
  <2> QED
    BY <1>0, <1>8, <1>10, <2>1 DEF InvoicedOnce
<1>22. Billed'
  <2>1. ASSUME NEW i \in Issued PROVE Bills(i)' /\ TakesOff(i)'
    <3>1. Bills(i) /\ TakesOff(i)
      BY <1>0 DEF Billed
    <3>2. invoices'[i] = invoices[i]
      BY <1>10
    <3>3. Bills(i)'
      BY <3>1, <3>2 DEF Bills
    <3>4. TakesOff(i)'
      BY <1>10, <3>1, <3>2 DEF TakesOff
    <3> QED
      BY <3>3, <3>4
  <2>2. Bills(k)' /\ TakesOff(k)'
    <3>1. Bills(k)'
      BY <1>8, <1>10 DEF Bills
    <3>2. TakesOff(k)'
      BY <1>8, <1>10 DEF TakesOff
    <3> QED
      BY <3>1, <3>2
  <2> QED
    BY <1>10, <2>1, <2>2 DEF Billed
<1> QED
  BY <1>12, <1>14, <1>17, <1>18, <1>19, <1>20, <1>21, <1>22 DEF DocInv

\* What is invoiced is a sale: the amount of a refund is not positive.
LEMMA PositiveIsSale ==
  ASSUME NEW o \in Sale, Amount(Summary[o]) > 0
  PROVE  RefundOf[o] = Null
<1> SUFFICES ASSUME RefundOf[o] # Null PROVE FALSE
  OBVIOUS
<1>1. \A v \in Rate : Summary[o][v] \in Int /\ Summary[o][v] <= 0
  BY SaleAssumption, RefundsAssumption
<1>2. SumFunctionOnSet(Summary[o], Rate) <= 0
  BY <1>1, SumNotPositive, SaleAssumption
<1>3. SumFunctionOnSet(Summary[o], Rate) \in Int
  BY <1>1, SumInt, SaleAssumption
<1> QED
  BY <1>2, <1>3 DEF Amount

LEMMA MergedSummaries ==
  ASSUME NEW os \in SUBSET Sale
  PROVE  MergeTaxSummaries(os) \in [Rate -> Int]
<1>1. IsFiniteSet(os)
  BY IdOrderExists
<1>2. ASSUME NEW v \in Rate
      PROVE  SumFunctionOnSet([o \in os |-> Summary[o][v]], os) \in Int
  <2> DEFINE f == [o \in os |-> Summary[o][v]]
  <2>1. \A o \in os : f[o] \in Int
    BY SaleAssumption
  <2> HIDE DEF f
  <2>2. SumFunctionOnSet(f, os) \in Int
    BY <1>1, <2>1, SumInt
  <2> QED
    BY <2>2 DEF f
<1> QED
  BY <1>2 DEF MergeTaxSummaries

LEMMA IssueInvoiceInv ==
  ASSUME DocInv, NEW c \in Clerk, IssueInvoice(c)
  PROVE  DocInv'
<1>1. PICK r : r = doing[c]
  OBVIOUS
<1>2. DocCommitting(c, "issue_invoice")
  BY DEF IssueInvoice
<1>3. Standing(r) /\ r.op = "issue_invoice" /\ DocWellFormed(r) /\ DocLeave(c)
      /\ Needs(r) \subseteq locked[c] /\ (<<"check">> \in Needs(r) => Cleared(r))
  BY <1>1, <1>2, AtCommit
<1>4. PICK os : os = Range(r.orders)
  OBVIOUS
<1>5. os \in SUBSET Sale
  BY <1>3, <1>4, LenProperties DEF DocWellFormed, Range
<1>6. PICK sum \in [Rate -> Int] : sum = MergeTaxSummaries(os)
  BY <1>5, MergedSummaries
<1>7. /\ invoices' = Created("FAC", number[c], os, sum, Null, Null)
      /\ series' = [series EXCEPT !["FAC"] = number[c]] /\ UNCHANGED sales
  BY <1>1, <1>4, <1>6 DEF IssueInvoice
<1>8. /\ <<"series", "FAC">> \in locked[c] /\ \A o \in os : <<"line", o>> \in locked[c]
      /\ Cleared(r)
  BY <1>3, <1>4 DEF Needs
<1>9. \A o \in os : RefundOf[o] = Null
  BY <1>3, <1>4, <1>5, <1>8, PositiveIsSale DEF Cleared
<1>10. [status |-> "issued", orders |-> os, totals |-> sum,
        rectifies |-> Null, mode |-> Null] \in InvoiceRow
  BY <1>5, <1>6 DEF InvoiceRow
<1>11. "FAC" \in Series /\ Null # "partial"
  BY SaleAssumption DEF Series
<1> QED
  BY <1>3, <1>6, <1>7, <1>8, <1>9, <1>10, <1>11, CommitInv

LEMMA IssueRectificationInv ==
  ASSUME DocInv, NEW c \in Clerk, IssueRectification(c)
  PROVE  DocInv'
<1>1. PICK r : r = doing[c]
  OBVIOUS
<1>2. DocCommitting(c, "issue_rectification")
  BY DEF IssueRectification
<1>3. Standing(r) /\ r.op = "issue_rectification" /\ DocWellFormed(r) /\ DocLeave(c)
      /\ Needs(r) \subseteq locked[c] /\ (<<"check">> \in Needs(r) => Cleared(r))
  BY <1>1, <1>2, AtCommit
<1>4. r.mode \in {"total", "partial"} /\ r.invoice \in Issued
  BY <1>3 DEF DocWellFormed, Standing
<1>5. r.invoice \in Invoice /\ invoices[r.invoice] \in InvoiceRow
  BY <1>4 DEF DocInv, DocTypes
<1>6. <<"series", "R">> \in locked[c] /\ Cleared(r) /\ UNCHANGED sales
      /\ series' = [series EXCEPT !["R"] = number[c]]
  BY <1>3 DEF Needs, IssueRectification
<1>7. "R" \in Series /\ Null # "partial" /\ Null # "total"
  BY SaleAssumption DEF Series
<1>8. CASE r.mode = "partial"
  <2>1. /\ r.refund \in Sale /\ RefundOf[r.refund] # Null /\ sales[r.refund] # "draft"
        /\ RefundOf[r.refund] \in invoices[r.invoice].orders
    BY <1>3, <1>6, <1>8 DEF Cleared
  <2>2. PICK p \in Sale : p = r.refund
    BY <2>1
  <2>3. Summary[p] \in [Rate -> Int]
    BY SaleAssumption
  <2>4. invoices' = Created("R", number[c], {p}, Summary[p], r.invoice, "partial")
    BY <1>1, <1>8, <2>2 DEF IssueRectification
  <2>5. <<"line", p>> \in locked[c]
    BY <1>3, <1>8, <2>2 DEF Needs
  <2>6. [status |-> "issued", orders |-> {p}, totals |-> Summary[p],
         rectifies |-> r.invoice, mode |-> "partial"] \in InvoiceRow
    BY <1>5, <2>3 DEF InvoiceRow
  <2>7. \E q \in Sale : /\ {p} = {q} /\ Summary[p] = Summary[q]
                        /\ RefundOf[q] # Null /\ sales[q] # "draft"
                        /\ RefundOf[q] \in invoices[r.invoice].orders
    BY <2>1, <2>2
  <2> QED
    BY <1>3, <1>4, <1>6, <1>7, <2>4, <2>5, <2>6, <2>7, CommitInv
<1>9. CASE r.mode = "total"
  <2>1. PICK sum : sum = NegateTaxSummary(invoices[r.invoice].totals)
    OBVIOUS
  <2>2. sum \in [Rate -> Int]
    BY <1>5, <2>1, RowOrders DEF NegateTaxSummary
  <2>n. PICK os : os = {}
    OBVIOUS
  <2>3. invoices' = Created("R", number[c], os, sum, r.invoice, r.mode)
    BY <1>1, <1>9, <2>1, <2>n DEF IssueRectification
  <2>4. [status |-> "issued", orders |-> os, totals |-> sum,
         rectifies |-> r.invoice, mode |-> r.mode] \in InvoiceRow
    BY <1>5, <1>9, <2>2, <2>n DEF InvoiceRow
  <2>5. \A o \in os : <<"line", o>> \in locked[c]
    BY <2>n
  <2>6. r.mode # Null /\ r.mode # "partial"
    BY <1>7, <1>9
  <2> QED
    BY <1>3, <1>6, <1>7, <2>3, <2>4, <2>5, <2>6, CommitInv
<1> QED
  BY <1>4, <1>8, <1>9

\* A sale that is charged, refunded or voided: a draft is never again one, and
\* no second refund is made.
LEMMA SaleMoveInv ==
  ASSUME DocInv, SaleTypes, NEW o \in Sale, SaleEventLeft(o)
  PROVE  DocInv'
<1>1. /\ UNCHANGED <<invoices, series, docWork>>
      /\ sales' \in [Sale -> {"draft", "paid", "voided"}] /\ sales'[o] # "draft"
      /\ \A p \in Sale \ {o} : sales'[p] = sales[p]
  BY SaleMoves
<1>2. UNCHANGED <<doing, steps, locked, number>>
  BY <1>1 DEF docWork
<1>3. DocTypes'
  BY <1>1, <1>2 DEF DocInv, DocTypes, Issued
<1>4. Preserved
  BY <1>1, RowOrders DEF DocInv, DocTypes, Preserved, Issued
<1>5. Underway'
  BY <1>2, <1>4, StillOnItsWay DEF DocInv, Underway
<1>6. RowsExclusive' /\ LinesFree' /\ NumbersTaken' /\ Numbered' /\ InvoicedOnce'
  BY <1>1, <1>2 DEF DocInv, RowsExclusive, LinesFree, NumbersTaken, Numbered, InvoicedOnce,
                    InvoicedOrders, Issued
<1>7. \A p \in Sale : sales[p] # "draft" => sales'[p] # "draft"
  BY <1>1
<1>8. Checked'
  BY <1>1, <1>2, <1>7 DEF DocInv, Checked, Cleared
<1>9. Billed'
  BY <1>1, <1>7 DEF DocInv, Billed, Bills, TakesOff, Issued
<1> QED
  BY <1>3, <1>5, <1>6, <1>8, <1>9 DEF DocInv

LEMMA QuietInv == DocInv /\ UNCHANGED docVars => DocInv'
<1> SUFFICES ASSUME DocInv, UNCHANGED docVars PROVE DocInv'
  OBVIOUS
<1>1. UNCHANGED <<sales, invoices, series, doing, steps, locked, number>>
  BY DEF docVars, docRows, docWork
<1>2. DocTypes'
  BY <1>1 DEF DocInv, DocTypes, Issued
<1>3. Preserved
  BY <1>1, RowOrders DEF DocInv, DocTypes, Preserved, Issued
<1>4. Underway'
  BY <1>1, <1>3, StillOnItsWay DEF DocInv, Underway
<1>5. RowsExclusive' /\ LinesFree' /\ NumbersTaken' /\ Numbered' /\ InvoicedOnce'
  BY <1>1 DEF DocInv, RowsExclusive, LinesFree, NumbersTaken, Numbered, InvoicedOnce,
              InvoicedOrders, Issued
<1>6. Checked' /\ Billed'
  BY <1>1 DEF DocInv, Checked, Cleared, Billed, Bills, TakesOff, Issued
<1> QED
  BY <1>2, <1>4, <1>5, <1>6 DEF DocInv

LEMMA NextDocInv == SalesInv /\ DocInv /\ [PaperNext]_paperVars => DocInv'
<1> SUFFICES ASSUME SalesInv, DocInv, [PaperNext]_paperVars PROVE DocInv'
  OBVIOUS
<1>1. ASSUME NEW o \in Sale, SaleEventLeft(o) PROVE DocInv'
  BY <1>1, SaleMoveInv DEF SalesInv
<1>2. ASSUME NEW c \in Clerk, NEW r \in DocRequest, DocBegin(c, r) PROVE DocInv'
  BY <1>2, DocBeginInv
<1>3. ASSUME NEW c \in Clerk, DocAdvance(c) PROVE DocInv'
  BY <1>3, DocAdvanceInv
<1>4. ASSUME NEW c \in Clerk, DocRefuse(c) \/ DocAbort(c) \/ ReprintTicket(c) PROVE DocInv'
  BY <1>4, EndInv
<1>5. ASSUME NEW c \in Clerk, IssueInvoice(c) PROVE DocInv'
  BY <1>5, IssueInvoiceInv
<1>6. ASSUME NEW c \in Clerk, VoidInvoice(c) PROVE DocInv'
  BY <1>6, VoidInvoiceInv
<1>7. ASSUME NEW c \in Clerk, IssueRectification(c) PROVE DocInv'
  BY <1>7, IssueRectificationInv
<1>8. ASSUME OfPasses PROVE DocInv'
  BY <1>8, QuietInv DEF OfPasses
<1>9. CASE UNCHANGED paperVars
  BY <1>9, QuietInv DEF paperVars
<1> QED
  BY <1>1, <1>2, <1>3, <1>4, <1>5, <1>6, <1>7, <1>8, <1>9 DEF PaperNext

LEMMA DocInvariance == PaperSpec => []DocInv
<1>1. PaperInit => DocInv
  BY InitDocInv DEF PaperInit
<1>2. SalesInv /\ DocInv /\ [PaperNext]_paperVars => DocInv'
  BY NextDocInv
<1>3. PaperSpec => []SalesInv
  BY PassInvariance, PTL
<1> QED
  BY <1>1, <1>2, <1>3, PTL DEF PaperSpec

-----------------------------------------------------------------------------
(* What follows from it. *)

\* However many invoice and rectify the same sales at once, and whoever dies
\* half way, no sale and no refund is ever on two documents.
THEOREM InvoicedOnceHolds == PaperSpec => []InvoicedOnce
<1>1. DocInv => InvoicedOnce
  BY DEF DocInv
<1> QED
  BY <1>1, DocInvariance, PTL

\* The numbers of the invoices and of the rectifications have no gaps: a number
\* taken by a transaction that is rolled back is given to the next.
THEOREM InvoiceNumbersGaplessHolds == PaperSpec => []InvoiceNumbersGapless
<1>1. ASSUME DocInv PROVE InvoiceNumbersGapless
  <2> SUFFICES ASSUME NEW s \in Series
               PROVE  {i[2] : i \in {j \in Issued : j[1] = s}} = 1..series[s]
    BY DEF InvoiceNumbersGapless
  <2>0. Issued \subseteq Invoice /\ series[s] \in 0..MaxNumber /\ Numbered
    BY <1>1 DEF DocInv, DocTypes
  <2>1. ASSUME NEW j \in Issued, j[1] = s PROVE j[2] \in 1..series[s]
    <3>1. j \in Invoice /\ j[2] \in 1..MaxNumber
      BY <2>0 DEF Invoice
    <3>2. j[2] <= series[s]
      BY <2>0, <2>1, <3>1 DEF Numbered
    <3> QED
      BY <2>0, <3>1, <3>2, SaleAssumption
  <2>2. ASSUME NEW n \in 1..series[s] PROVE \E j \in Issued : j[1] = s /\ j[2] = n
    <3>1. <<s, n>> \in Invoice
      BY <2>0, SaleAssumption DEF Invoice
    <3>2. <<s, n>> \in Issued
      BY <2>0, <3>1 DEF Numbered
    <3> QED
      BY <3>2
  <2> QED
    BY <2>1, <2>2
<1> QED
  BY <1>1, DocInvariance, PTL

\* A clerk that is about to take a row.
Wanting(c) == doing[c] # Null /\ DocRow(c)[1] \in LockKind
RankOf(c) == Rank(doing[c], DocRow(c))

LEMMA Wants ==
  ASSUME DocInv, NEW c \in Clerk, Wanting(c), NEW r, r = doing[c], NEW row, row = DocRow(c)
  PROVE  /\ r # Null /\ row[1] \in LockKind /\ Rank(r, row) \in 0..(NSales + 3)
         /\ (row[1] = "line" <=> Rank(r, row) > NSales + 1)
         /\ \A s \in locked[c] : Later(r, s, row)
         /\ r.op = "issue_invoice" /\ row[1] = "line" => <<"series", "FAC">> \in locked[c]
<1>1. r # Null /\ row[1] \in LockKind
  BY DEF Wanting
<1>2. Standing(r) /\ \E k \in 1..Len(DocSteps(r)) : AtStep(c, r, k)
  BY <1>1 DEF DocInv, Underway, OnItsWay
<1>3. PICK k \in 1..Len(DocSteps(r)) : AtStep(c, r, k)
  BY <1>2
<1>4. PICK D : D = DocSteps(r)
  OBVIOUS
<1>5. D \in Seq(Statement) /\ Len(D) \in Nat \ {0} /\ k \in 1..Len(D) /\ WellPlanned(r, D) /\ row = D[k]
  BY <1>2, <1>3, <1>4, RowAt
<1>6. locked[c] = {D[i] : i \in 1..(k - 1)}
  BY <1>3, <1>4 DEF AtStep
<1>7. Rank(r, row) \in 0..(NSales + 3) /\ (row[1] = "line" <=> Rank(r, row) > NSales + 1)
  BY <1>1, <1>5 DEF WellPlanned
<1>8. ASSUME NEW s \in locked[c] PROVE Later(r, s, row)
  <2>1. PICK i \in 1..(k - 1) : s = D[i]
    BY <1>6
  <2>2. i \in 1..Len(D) /\ i < k
    BY <1>5
  <2> QED
    BY <1>5, <2>1, <2>2 DEF WellPlanned
<1>9. ASSUME r.op = "issue_invoice", row[1] = "line" PROVE <<"series", "FAC">> \in locked[c]
  <2>1. <<"series", "FAC">> \in Needs(r)
    BY <1>9 DEF Needs
  <2>2. PICK i \in 1..(Len(D) - 1) : D[i] = <<"series", "FAC">>
    BY <1>5, <2>1 DEF WellPlanned
  <2>3. i \in 1..Len(D) /\ D[i][1] = "series" /\ Rank(r, D[i]) = NSales + 1
    BY <1>5, <2>2 DEF Rank
  <2>4. i # k
    BY <1>5, <1>9, <2>3
  <2>5. CASE k < i
    <3>1. Later(r, row, D[i])
      BY <1>5, <2>3, <2>5 DEF WellPlanned
    <3>2. Rank(r, row) < Rank(r, D[i])
      BY <1>1, <1>9, <2>3, <3>1 DEF Later, LockKind
    <3> QED
      BY <1>7, <1>9, <2>3, <3>2, SaleAssumption
  <2>6. CASE i < k
    BY <1>5, <1>6, <2>2, <2>6
  <2> QED
    BY <1>5, <2>4, <2>5, <2>6
<1> QED
  BY <1>1, <1>7, <1>8, <1>9

\* Who waits wants a row before the one that the holder of it wants.
LEMMA WaitsUp ==
  ASSUME DocInv, NEW c \in Clerk, NEW d \in Clerk, c # d, DocWaits(c, d), Wanting(d)
  PROVE  RankOf(c) < RankOf(d)
<1>0. NSales \in Nat
  BY SaleAssumption
<1>1. PICK rc : rc = doing[c]
  OBVIOUS
<1>2. PICK rd : rd = doing[d]
  OBVIOUS
<1>3. PICK row : row = DocRow(c)
  OBVIOUS
<1>4. PICK next : next = DocRow(d)
  OBVIOUS
<1>5. Wanting(c) /\ row \in locked[d]
  BY <1>3 DEF DocWaits, Wanting, LockKind
<1>6. /\ row[1] \in LockKind /\ Rank(rc, row) \in 0..(NSales + 3)
      /\ rc.op = "issue_invoice" /\ row[1] = "line" => <<"series", "FAC">> \in locked[c]
  BY <1>1, <1>3, <1>5, Wants
<1>7. /\ next[1] \in LockKind /\ Rank(rd, next) \in 0..(NSales + 3)
      /\ (next[1] = "line" <=> Rank(rd, next) > NSales + 1)
      /\ Later(rd, row, next)
      /\ rd.op = "issue_invoice" /\ next[1] = "line" => <<"series", "FAC">> \in locked[d]
  BY <1>2, <1>4, <1>5, Wants
<1>8. CASE row[1] # "line"
  <2>1. Rank(rc, row) = Rank(rd, row)
    BY <1>6, <1>8 DEF Rank, LockKind
  <2>2. Rank(rd, row) < Rank(rd, next)
    BY <1>6, <1>7, <1>8 DEF Later
  <2> QED
    BY <1>1, <1>2, <1>3, <1>4, <2>1, <2>2 DEF RankOf
<1>9. CASE row[1] = "line"
  <2>1. Rank(rc, row) = (IF rc.op = "issue_invoice" THEN NSales + 3 ELSE NSales + 2)
        /\ Rank(rd, row) = (IF rd.op = "issue_invoice" THEN NSales + 3 ELSE NSales + 2)
    BY <1>9 DEF Rank
  <2>2. CASE rd.op # "issue_invoice"
    <3>1. NSales + 2 < Rank(rd, next)
      BY <1>6, <1>7, <2>1, <2>2 DEF Later
    <3>2. Rank(rc, row) \in {NSales + 2, NSales + 3}
      BY <2>1
    <3>3. next[1] = "line" => Rank(rd, next) = NSales + 2
      BY <2>2 DEF Rank
    <3> QED
      BY <1>0, <1>7, <3>1, <3>3
  <2>3. CASE rd.op = "issue_invoice"
    <3>1. next[1] = "line"
      <4>1. ~(NSales + 3 < Rank(rd, next))
        BY <1>0, <1>7
      <4> QED
        BY <1>6, <1>7, <2>1, <2>3, <4>1 DEF Later
    <3>2. <<"series", "FAC">> \in locked[d] /\ Rank(rd, next) = NSales + 3
      BY <1>7, <2>3, <3>1 DEF Rank
    <3>3. rc.op # "issue_invoice"
      BY <1>6, <1>9, <3>2 DEF DocInv, RowsExclusive, LockKind
    <3>4. Rank(rc, row) = NSales + 2
      BY <2>1, <3>3
    <3>5. NSales + 2 < NSales + 3
      BY <1>0
    <3> QED
      BY <1>1, <1>2, <1>3, <1>4, <3>2, <3>4, <3>5 DEF RankOf
  <2> QED
    BY <2>2, <2>3
<1> QED
  BY <1>8, <1>9

\* Invoices and rectifications never wait on each other in a ring, whatever they
\* ask for and in whichever order they list their sales: among any clerks there
\* is one that waits for none of the others.
THEOREM InvoicesNeverDeadlockHolds == PaperSpec => []InvoicesNeverDeadlock
<1>1. ASSUME DocInv, NEW S \in SUBSET Clerk, S # {},
             \A c \in S : \E d \in S \ {c} : DocWaits(c, d)
      PROVE  FALSE
  <2>1. ASSUME NEW c \in S PROVE Wanting(c) /\ RankOf(c) \in 0..(NSales + 3)
    <3>1. Wanting(c)
      BY <1>1 DEF DocWaits, Wanting, LockKind
    <3> QED
      BY <1>1, <3>1, Wants DEF RankOf
  <2>2. \A c \in S : \E d \in S : RankOf(c) < RankOf(d)
    BY <1>1, <2>1, WaitsUp
  <2> DEFINE T == {n \in Nat : \E c \in S : RankOf(c) >= n}
  <2> HIDE DEF RankOf, Wanting
  <2>3. 0 \in T
    BY <1>1, <2>1, SaleAssumption
  <2>4. ASSUME NEW n \in T PROVE n + 1 \in T
    <3>1. PICK c \in S : RankOf(c) >= n
      OBVIOUS
    <3>2. PICK d \in S : RankOf(c) < RankOf(d)
      BY <2>2
    <3>3. RankOf(d) >= n + 1
      BY <2>1, <3>1, <3>2, SaleAssumption
    <3> QED
      BY <3>3
  <2>5. Nat \subseteq T
    BY ONLY <2>3, <2>4, T \subseteq Nat, NatSetInduction
  <2>6. PICK c \in S : RankOf(c) >= NSales + 4
    BY <2>5, SaleAssumption
  <2> QED
    BY <2>1, <2>6, SaleAssumption
<1>2. DocInv => InvoicesNeverDeadlock
  BY <1>1 DEF InvoicesNeverDeadlock
<1> QED
  BY <1>2, DocInvariance, PTL

\* Partial rectifications take off an invoice no more than the refunds of its
\* own sales gave back, at any rate, whoever rectifies at the same time: each is
\* of a refund of its own.  A refund may exceed its sale.
THEOREM PartialsCoveredHolds == PaperSpec => []PartialsCovered
<1>1. ASSUME DocInv, NEW i \in Issued, invoices[i].mode = Null, NEW v \in Rate
      PROVE  GivenBack(i, v)
               + SumFunctionOnSet([j \in Partials(i) |-> invoices[j].totals[v]], Partials(i)) >= 0
  <2> DEFINE os == invoices[i].orders
             P == Partials(i)
             R == Refunds(i)
             g == [p \in R |-> -Summary[p][v]]
             f == [j \in P |-> invoices[j].totals[v]]
             Of(j, p) == /\ invoices[j].orders = {p} /\ invoices[j].totals = Summary[p]
                         /\ RefundOf[p] # Null /\ sales[p] # "draft" /\ RefundOf[p] \in os
             given == [j \in P |-> CHOOSE p \in Sale : Of(j, p)]
  <2>1. os \in SUBSET Sale
    <3>1. invoices[i] \in InvoiceRow
      BY <1>1 DEF DocInv, DocTypes
    <3> QED
      BY <3>1, RowOrders
  <2>2. R \subseteq Sale /\ IsFiniteSet(R) /\ \A p \in R : RefundOf[p] # Null
    <3>1. R \in SUBSET Sale
      BY DEF Refunds
    <3>2. \A p \in R : RefundOf[p] \in os
      BY DEF Refunds
    <3> QED
      BY <2>1, <3>1, <3>2, IdOrderExists, SaleAssumption
  <2>3. P \subseteq Issued /\ IsFiniteSet(P)
    <3>1. IsFiniteSet({"FAC", "R"}) /\ IsFiniteSet(1..MaxNumber)
      <4>1. IsFiniteSet({"FAC"})
        BY FS_Singleton
      <4>2. IsFiniteSet({"FAC"} \union {"R"})
        BY <4>1, FS_AddElement
      <4>3. {"FAC", "R"} = {"FAC"} \union {"R"}
        OBVIOUS
      <4> QED
        BY <4>2, <4>3, SaleAssumption, FS_Interval
    <3>2. IsFiniteSet(Invoice)
      BY <3>1, FS_Product DEF Invoice, Series
    <3>3. P \subseteq Issued /\ Issued \subseteq Invoice
      BY <1>1 DEF DocInv, DocTypes, Partials
    <3> QED
      BY <3>2, <3>3, FS_Subset
  <2>4. ASSUME NEW j \in P PROVE \E p \in Sale : Of(j, p)
    <3>1. j \in Issued /\ invoices[j].rectifies = i /\ invoices[j].mode = "partial"
      BY DEF Partials
    <3>2. TakesOff(j)
      BY <1>1, <3>1 DEF DocInv, Billed
    <3> QED
      BY <3>1, <3>2 DEF TakesOff
  <2> HIDE DEF P
  <2>5. \A j \in P : given[j] \in Sale /\ Of(j, given[j])
    <3> HIDE DEF Of
    <3> QED
      BY <2>4
  <2> HIDE DEF given
  <2>6. \A j \in P : given[j] \in R
    BY <2>5 DEF Refunds
  <2> DEFINE m == [j \in P |-> given[j]]
  <2> HIDE DEF R, os
  <2>7. m \in [P -> R]
    BY <2>6
  <2>8. ASSUME NEW j \in P, NEW k \in P, m[j] = m[k] PROVE j = k
    <3>1. given[j] \in invoices[j].orders \intersect invoices[k].orders
      BY <2>5, <2>8
    <3> QED
      BY <1>1, <2>3, <3>1 DEF DocInv, InvoicedOnce
  <2>9. \A p \in R : g[p] = -Summary[p][v] /\ g[p] \in Nat
    <3>1. \A p \in R : Summary[p][v] \in Int /\ Summary[p][v] <= 0
      BY <2>2, SaleAssumption, RefundsAssumption
    <3> QED
      BY <3>1
  <2>10. \A j \in P : f[j] \in Int /\ g[m[j]] + f[j] >= 0
    <3> SUFFICES ASSUME NEW j \in P PROVE f[j] \in Int /\ g[m[j]] + f[j] >= 0
      OBVIOUS
    <3>1. PICK p \in R : p = given[j]
      BY <2>6
    <3>2. f[j] = Summary[p][v] /\ m[j] = p
      BY <2>5, <3>1
    <3>3. Summary[p][v] \in Int
      BY <2>2, SaleAssumption
    <3> QED
      BY <2>9, <3>2, <3>3
  <2> HIDE DEF g, f, m
  <2>11. SumFunctionOnSet(g, R) + SumFunctionOnSet(f, P) >= 0
    BY <2>2, <2>3, <2>7, <2>8, <2>9, <2>10, SumCovers
  <2> QED
    BY <2>11 DEF g, f, P, R, GivenBack
<1>2. DocInv => PartialsCovered
  BY <1>1 DEF PartialsCovered
<1> QED
  BY <1>2, DocInvariance, PTL

-----------------------------------------------------------------------------
(* Tables. *)

IsTable(s) == \E S : s \in Seq(S)

LEMMA TableAppend ==
  ASSUME NEW s, IsTable(s), NEW x
  PROVE  /\ IsTable(Append(s, x)) /\ Len(s) \in Nat /\ DOMAIN s = 1 .. Len(s)
         /\ DOMAIN Append(s, x) = 1 .. Len(s) + 1 /\ Len(s) + 1 \notin DOMAIN s
         /\ \A i \in DOMAIN s : i \in DOMAIN Append(s, x) /\ Append(s, x)[i] = s[i]
         /\ Append(s, x)[Len(s) + 1] = x
<1>1. PICK S : s \in Seq(S)
  BY DEF IsTable
<1>2. s \in Seq(S \union {x})
  BY <1>1
<1>3. Append(s, x) \in Seq(S \union {x})
  BY <1>2
<1>4. IsTable(Append(s, x))
  BY <1>3 DEF IsTable
<1> QED
  BY <1>2, <1>4

\* A table whose rows are rewritten is a table.
LEMMA TableMapped ==
  ASSUME NEW s, IsTable(s), NEW t, t = [i \in DOMAIN s |-> t[i]]
  PROVE  IsTable(t) /\ DOMAIN t = DOMAIN s
<1>1. PICK S : s \in Seq(S)
  BY DEF IsTable
<1>2. PICK n : n = Len(s)
  OBVIOUS
<1>3. n \in Nat /\ DOMAIN s = 1 .. n
  BY <1>1, <1>2
<1>4. DOMAIN t = 1 .. n
  BY <1>3
<1> DEFINE T == {t[i] : i \in 1 .. n}
<1>5. t \in [1 .. n -> T]
  BY <1>3
<1>6. t \in Seq(T)
  BY <1>3, <1>5, SeqDef
<1> QED
  BY <1>3, <1>4, <1>6 DEF IsTable

\* The tables of the properties.
Kept4 == Form \union {"logins", "prices", "taxes"}

Tables == DOMAIN rows = Table /\ \A t \in Kept4 : IsTable(rows[t])

Handlers ==
  /\ asks \in DeskScene
  /\ req \in [Handler -> Request \union {None}]
  /\ DOMAIN seen = Handler
  /\ \A h \in Handler : seen[h] = [row |-> seen[h].row, old |-> seen[h].old]

LEMMA KeptAreTables == Kept4 \subseteq Table
BY AccessAssumption, CatalogAssumption DEF Kept4, Form

LEMMA InitTables == DeskInit => Tables /\ Handlers
<1> SUFFICES ASSUME DeskInit PROVE Tables /\ Handlers
  OBVIOUS
<1>1. \A t \in Table : IsTable(First[t])
  BY DeskAssumption DEF IsTable
<1>2. Tables
  BY <1>1, KeptAreTables DEF DeskInit, Tables, Table
<1>3. Unread = [row |-> Unread.row, old |-> Unread.old]
  BY DEF Unread
<1>4. seen = [h \in Handler |-> Unread] /\ req = [h \in Handler |-> None] /\ asks \in DeskScene
  BY DEF DeskInit
<1>5. Handlers
  BY <1>3, <1>4 DEF Handlers
<1> QED
  BY <1>2, <1>5

-----------------------------------------------------------------------------
(* What the steps of a handler do. *)

\* The tables other than those of T are as they were.
Leaves(T) == DOMAIN rows' = Table /\ \A t \in Table \ T : rows'[t] = rows[t]

\* A table keeps its rows, some of them rewritten.
Rewritten(t) == rows'[t] = [i \in DOMAIN rows[t] |-> rows'[t][i]]

\* The row a request names is patched.
PatchedRow(h, t, fields) ==
  \A i \in DOMAIN rows[t] :
    rows'[t][i] = IF i = req[h].id THEN Patched(rows[t][i], seen[h].row, fields) ELSE rows[t][i]

LEMMA CommitIs ==
  ASSUME NEW h, NEW tables, Commit(h, tables)
  PROVE  /\ rows' = tables /\ Leave(h)
         /\ \A t \in Table : tables[t] # rows[t] => NoClash(tables[t], t)
BY DEF Commit

LEMMA InsertIs ==
  ASSUME Tables, NEW h, NEW t \in Table, NEW row, Insert(h, t, row)
  PROVE  Leaves({t}) /\ rows'[t] = Append(rows[t], row) /\ Leave(h)
<1>1. rows' = [rows EXCEPT ![t] = Append(rows[t], row)] /\ Leave(h)
  BY DEF Insert, Commit
<1> QED
  BY <1>1 DEF Leaves, Tables

LEMMA UpdateIs ==
  ASSUME Tables, NEW h, NEW t \in Table, NEW fields, Update(h, t, fields)
  PROVE  /\ Leaves({t}) /\ Leave(h)
         /\ Rewritten(t) /\ PatchedRow(h, t, fields)
<1>1. PICK n : n = req[h].id
  OBVIOUS
<1>2. PICK p : p = Patched(rows[t][n], seen[h].row, fields)
  OBVIOUS
<1>3. rows' = [rows EXCEPT ![t] = [rows[t] EXCEPT ![n] = p]] /\ Leave(h)
  BY <1>1, <1>2 DEF Update, Commit
<1>4. rows'[t] = [rows[t] EXCEPT ![n] = p]
  BY <1>3 DEF Tables
<1>5. /\ rows'[t] = [i \in DOMAIN rows[t] |-> rows'[t][i]]
      /\ \A i \in DOMAIN rows[t] :
           rows'[t][i] = IF i = n THEN Patched(rows[t][i], seen[h].row, fields) ELSE rows[t][i]
  BY <1>2, <1>4
<1>6. Rewritten(t) /\ PatchedRow(h, t, fields)
  BY <1>1, <1>5 DEF Rewritten, PatchedRow
<1> QED
  BY <1>3, <1>6 DEF Leaves, Tables

-----------------------------------------------------------------------------
(* No lost update. *)

\* What OnlyAskedFields says of a step.
AskedOnly ==
  \A t \in Form : \A i \in DOMAIN rows[t] : \A k \in DOMAIN rows[t][i] :
    rows'[t][i][k] # rows[t][i][k] => \E h \in Handler : req[h] # None /\ Asked(h, t, i, k)

LEMMA FormTables ==
  /\ \A op \in {"update_user", "set_password", "set_pin"} : FormTable(op) = "users"
  /\ FormTable("update_role") = "roles"
  /\ \A op \in {"update_terminal", "deactivate_terminal"} : FormTable(op) = "terminals"
  /\ \A op \in {"update_device", "deactivate_device", "rotate_device_token"} : FormTable(op) = "devices"
  /\ \A op \in {"update_payment_method", "deactivate_payment_method"} : FormTable(op) = "methods"
  /\ \A op \in {"update_department", "delete_department"} : FormTable(op) = "departments"
  /\ \A op \in {"update_category", "delete_category"} : FormTable(op) = "categories"
  /\ FormTable("update_price_tier") = "tiers"
  /\ \A op \in {"update_product", "delete_product"} : FormTable(op) = "products"
  /\ \A op \in {"update_panel", "delete_panel"} : FormTable(op) = "panels"
  /\ \A op \in {"update_subpanel", "delete_subpanel"} : FormTable(op) = "subpanels"
BY DEF FormTable, AccessTable, CatalogTable

LEMMA AskedForms ==
  ASSUME NEW r
  PROVE  /\ r.op \in Deactivates => AskedFields(r) = {"active"}
         /\ r.op \in {"update_user", "set_password", "set_pin", "update_role", "update_terminal",
                      "update_device", "update_payment_method", "update_department",
                      "update_category", "update_price_tier", "update_panel", "update_subpanel"} =>
              AskedFields(r) = DOMAIN r.fields
         /\ r.op = "rotate_device_token" => AskedFields(r) = {"token"}
         /\ r.op = "update_product" =>
              AskedFields(r) = DOMAIN r.fields \union {k \in {"price"} : r.price # None}
<1>1. r.op \in Deactivates => AskedFields(r) = {"active"}
  BY DEF AskedFields, Deactivates
<1>2. r.op = "rotate_device_token" => AskedFields(r) = {"token"}
  BY DEF AskedFields, Deactivates
<1>3. r.op = "update_product" =>
              AskedFields(r) = DOMAIN r.fields \union {k \in {"price"} : r.price # None}
  BY DEF AskedFields, Deactivates
<1>4. r.op \in {"update_user", "set_password", "set_pin", "update_role", "update_terminal",
                "update_device", "update_payment_method", "update_department",
                "update_category", "update_price_tier", "update_panel", "update_subpanel"} =>
              AskedFields(r) = DOMAIN r.fields
  BY DEF AskedFields, Deactivates
<1> QED
  BY <1>1, <1>2, <1>3, <1>4

\* A step that writes tables which no form shows.
LEMMA LeavesAsks ==
  ASSUME NEW T, T \intersect Form = {}, Leaves(T)
  PROVE  AskedOnly
BY KeptAreTables DEF Leaves, AskedOnly, Kept4

LEMMA InsertAsks ==
  ASSUME Tables, NEW h, NEW t \in Form, NEW row, Insert(h, t, row)
  PROVE  AskedOnly /\ Tables' /\ Leaves({t})
<1>1. Form \subseteq Table /\ Kept4 \subseteq Table /\ Form \subseteq Kept4
  BY KeptAreTables DEF Kept4
<1>2. Leaves({t}) /\ rows'[t] = Append(rows[t], row)
  BY <1>1, InsertIs
<1>3. IsTable(rows[t])
  BY <1>1 DEF Tables
<1>4. IsTable(rows'[t]) /\ \A i \in DOMAIN rows[t] : rows'[t][i] = rows[t][i]
  BY <1>2, <1>3, TableAppend
<1>5. Tables'
  BY <1>1, <1>2, <1>4 DEF Tables, Leaves
<1>6. AskedOnly
  BY <1>1, <1>2, <1>4 DEF AskedOnly, Leaves
<1> QED
  BY <1>2, <1>5, <1>6

\* A step that rewrites rows of one form and keeps its tables.
LEMMA RewriteAsks ==
  ASSUME Tables, NEW t \in Form, Leaves({t}), Rewritten(t),
         \A i \in DOMAIN rows[t] : \A k \in DOMAIN rows[t][i] :
           rows'[t][i][k] # rows[t][i][k] => \E h \in Handler : req[h] # None /\ Asked(h, t, i, k)
  PROVE  AskedOnly /\ Tables'
<1>1. Form \subseteq Table /\ Kept4 \subseteq Table /\ Form \subseteq Kept4
  BY KeptAreTables DEF Kept4
<1>2. IsTable(rows'[t])
  BY <1>1, TableMapped DEF Tables, Rewritten
<1>3. Tables'
  BY <1>1, <1>2 DEF Tables, Leaves
<1>4. AskedOnly
  BY <1>1 DEF AskedOnly, Leaves
<1> QED
  BY <1>3, <1>4

LEMMA UpdateAsks ==
  ASSUME Tables, NEW h \in Handler, NEW t \in Form, NEW fields, Update(h, t, fields),
         req[h] # None, FormTable(req[h].op) = t, DOMAIN fields \subseteq AskedFields(req[h])
  PROVE  AskedOnly /\ Tables' /\ Leaves({t})
<1>1. t \in Table
  BY KeptAreTables DEF Kept4
<1>2. Leaves({t}) /\ Rewritten(t) /\ PatchedRow(h, t, fields)
  BY <1>1, UpdateIs
<1>3. \A i \in DOMAIN rows[t] : \A k \in DOMAIN rows[t][i] :
        rows'[t][i][k] # rows[t][i][k] => i = req[h].id /\ k \in DOMAIN fields
  <2> SUFFICES ASSUME NEW i \in DOMAIN rows[t], NEW k \in DOMAIN rows[t][i],
                      rows'[t][i][k] # rows[t][i][k]
               PROVE  i = req[h].id /\ k \in DOMAIN fields
    OBVIOUS
  <2>1. i = req[h].id /\ rows'[t][i] = Patched(rows[t][i], seen[h].row, fields)
    BY <1>2 DEF PatchedRow
  <2>2. rows'[t][i][k] = IF k \in DOMAIN fields /\ fields[k] # seen[h].row[k] THEN fields[k] ELSE rows[t][i][k]
    BY <2>1 DEF Patched
  <2> QED
    BY <2>1, <2>2
<1>4. \A i \in DOMAIN rows[t] : \A k \in DOMAIN rows[t][i] :
        rows'[t][i][k] # rows[t][i][k] => req[h] # None /\ Asked(h, t, i, k)
  BY <1>3 DEF Asked
<1> QED
  BY <1>2, <1>4, RewriteAsks

\* The actions that insert or update one row of a form.
Inserts(h) ==
  \/ CreateUser(h) \/ CreateRole(h) \/ CreateTerminal(h) \/ EnrollDevice(h) \/ CreatePaymentMethod(h)
  \/ CreateDepartment(h) \/ CreateCategory(h) \/ CreatePriceTier(h) \/ CreatePanel(h) \/ CreateSubpanel(h)

Deletes(h) ==
  \/ DeactivateTerminal(h) \/ DeactivateDevice(h) \/ DeactivatePaymentMethod(h)
  \/ DeleteDepartment(h) \/ DeleteCategory(h) \/ DeletePanel(h) \/ DeleteSubpanel(h)

Updates(h) ==
  \/ UpdateUser(h) \/ UpdateRole(h) \/ UpdateTerminal(h) \/ UpdateDevice(h) \/ UpdatePaymentMethod(h)
  \/ UpdateDepartment(h) \/ UpdateCategory(h) \/ UpdatePriceTier(h) \/ UpdatePanel(h) \/ UpdateSubpanel(h)

LEMMA InsertStep ==
  ASSUME Tables, NEW h \in Handler, Inserts(h)
  PROVE  \E t \in Form \ {"products"} : AskedOnly /\ Tables' /\ Leaves({t}) /\ Leave(h)
<1>1. \E t \in Form \ {"products"} : \E row : Insert(h, t, row)
  <2>1. "users" \in Form /\ "roles" \in Form /\ "terminals" \in Form /\ "devices" \in Form
        /\ "methods" \in Form /\ "departments" \in Form /\ "categories" \in Form /\ "tiers" \in Form
        /\ "panels" \in Form /\ "subpanels" \in Form
    BY DEF Form
  <2>2. CASE CreateUser(h)
    BY <2>1, <2>2 DEF CreateUser
  <2>3. CASE CreateRole(h)
    BY <2>1, <2>3 DEF CreateRole
  <2>4. CASE CreateTerminal(h)
    BY <2>1, <2>4 DEF CreateTerminal
  <2>5. CASE EnrollDevice(h)
    BY <2>1, <2>5 DEF EnrollDevice
  <2>6. CASE CreatePaymentMethod(h)
    BY <2>1, <2>6 DEF CreatePaymentMethod
  <2>7. CASE CreateDepartment(h)
    BY <2>1, <2>7 DEF CreateDepartment
  <2>8. CASE CreateCategory(h)
    BY <2>1, <2>8 DEF CreateCategory
  <2>9. CASE CreatePriceTier(h)
    BY <2>1, <2>9 DEF CreatePriceTier
  <2>10. CASE CreatePanel(h)
    BY <2>1, <2>10 DEF CreatePanel
  <2>11. CASE CreateSubpanel(h)
    BY <2>1, <2>11 DEF CreateSubpanel
  <2> QED
    BY <2>2, <2>3, <2>4, <2>5, <2>6, <2>7, <2>8, <2>9, <2>10, <2>11 DEF Inserts
<1>2. PICK t \in Form \ {"products"} : \E row : Insert(h, t, row)
  BY <1>1
<1>3. PICK row : Insert(h, t, row)
  BY <1>2
<1>4. Leave(h)
  BY <1>3 DEF Insert, Commit
<1> QED
  BY <1>2, <1>3, <1>4, InsertAsks

LEMMA UpdateStep ==
  ASSUME Tables, NEW h \in Handler, Updates(h) \/ Deletes(h)
  PROVE  \E t \in Form \ {"products"} : AskedOnly /\ Tables' /\ Leaves({t}) /\ Leave(h)
<1>1. \E t \in Form \ {"products"} : \E fields :
        /\ Update(h, t, fields) /\ req[h] # None
        /\ FormTable(req[h].op) = t /\ DOMAIN fields \subseteq AskedFields(req[h])
  <2>1. "users" \in Form /\ "roles" \in Form /\ "terminals" \in Form /\ "devices" \in Form
        /\ "methods" \in Form /\ "departments" \in Form /\ "categories" \in Form /\ "tiers" \in Form
        /\ "panels" \in Form /\ "subpanels" \in Form
    BY DEF Form
  <2>0. DOMAIN [active |-> FALSE] = {"active"}
    OBVIOUS
  <2>19. req[h].op \in Deactivates => AskedFields(req[h]) = {"active"}
    BY AskedForms
  <2>20. req[h].op \in {"update_user", "set_password", "set_pin", "update_role", "update_terminal",
                      "update_device", "update_payment_method", "update_department",
                      "update_category", "update_price_tier", "update_panel", "update_subpanel"} =>
              AskedFields(req[h]) = DOMAIN req[h].fields
    BY AskedForms
  <2>2. CASE UpdateUser(h)
    BY <2>1, <2>2, <2>20, FormTables DEF UpdateUser, Running
  <2>3. CASE UpdateRole(h)
    BY <2>1, <2>3, <2>20, FormTables DEF UpdateRole, Running
  <2>4. CASE UpdateTerminal(h)
    BY <2>1, <2>4, <2>20, FormTables DEF UpdateTerminal, Running
  <2>5. CASE UpdateDevice(h)
    BY <2>1, <2>5, <2>20, FormTables DEF UpdateDevice, Running
  <2>6. CASE UpdatePaymentMethod(h)
    BY <2>1, <2>6, <2>20, FormTables DEF UpdatePaymentMethod, Running
  <2>7. CASE UpdateDepartment(h)
    BY <2>1, <2>7, <2>20, FormTables DEF UpdateDepartment, Running
  <2>8. CASE UpdateCategory(h)
    BY <2>1, <2>8, <2>20, FormTables DEF UpdateCategory, Running
  <2>9. CASE UpdatePriceTier(h)
    BY <2>1, <2>9, <2>20, FormTables DEF UpdatePriceTier, Running
  <2>10. CASE UpdatePanel(h)
    BY <2>1, <2>10, <2>20, FormTables DEF UpdatePanel, Running
  <2>11. CASE UpdateSubpanel(h)
    BY <2>1, <2>11, <2>20, FormTables DEF UpdateSubpanel, Running
  <2>12. CASE DeactivateTerminal(h)
    BY <2>0, <2>1, <2>12, <2>19, FormTables DEF DeactivateTerminal, Running, Deactivates
  <2>13. CASE DeactivateDevice(h)
    BY <2>0, <2>1, <2>13, <2>19, FormTables DEF DeactivateDevice, Running, Deactivates
  <2>14. CASE DeactivatePaymentMethod(h)
    BY <2>0, <2>1, <2>14, <2>19, FormTables DEF DeactivatePaymentMethod, Running, Deactivates
  <2>15. CASE DeleteDepartment(h)
    BY <2>0, <2>1, <2>15, <2>19, FormTables DEF DeleteDepartment, Running, Deactivates
  <2>16. CASE DeleteCategory(h)
    BY <2>0, <2>1, <2>16, <2>19, FormTables DEF DeleteCategory, Running, Deactivates
  <2>17. CASE DeletePanel(h)
    BY <2>0, <2>1, <2>17, <2>19, FormTables DEF DeletePanel, Running, Deactivates
  <2>18. CASE DeleteSubpanel(h)
    BY <2>0, <2>1, <2>18, <2>19, FormTables DEF DeleteSubpanel, Running, Deactivates
  <2> QED
    BY <2>2, <2>3, <2>4, <2>5, <2>6, <2>7, <2>8, <2>9, <2>10, <2>11, <2>12, <2>13, <2>14, <2>15,
       <2>16, <2>17, <2>18 DEF Updates, Deletes
<1>2. PICK t \in Form \ {"products"} : \E fields :
        /\ Update(h, t, fields) /\ req[h] # None
        /\ FormTable(req[h].op) = t /\ DOMAIN fields \subseteq AskedFields(req[h])
  BY <1>1
<1>3. PICK fields :
        /\ Update(h, t, fields) /\ req[h] # None
        /\ FormTable(req[h].op) = t /\ DOMAIN fields \subseteq AskedFields(req[h])
  BY <1>2
<1>4. Leave(h)
  BY <1>3 DEF Update, Commit
<1> QED
  BY <1>2, <1>3, <1>4, UpdateAsks

\* The prices the products have stay.
ProductsKept ==
  /\ DOMAIN rows'["products"] = DOMAIN rows["products"]
  /\ \A p \in DOMAIN rows["products"] :
       "price" \in DOMAIN rows["products"][p] =>
         /\ "price" \in DOMAIN rows'["products"][p]
         /\ rows'["products"][p]["price"] = rows["products"][p]["price"]

LEMMA Requests ==
  ASSUME Handlers, NEW h \in Handler, req[h] # None
  PROVE  req[h] \in Request /\ WellFormed(req[h])
BY CatalogAssumption DEF Handlers

LEMMA DeleteProductStep ==
  ASSUME Tables, NEW h \in Handler, DeleteProduct(h)
  PROVE  AskedOnly /\ Tables' /\ Leaves({"products"}) /\ Leave(h) /\ ProductsKept
<1>1. PICK f : f = [active |-> FALSE]
  OBVIOUS
<1>2. DOMAIN f = {"active"} /\ Update(h, "products", f) /\ req[h] # None /\ req[h].op = "delete_product"
  BY <1>1 DEF DeleteProduct, Running
<1>3. "products" \in Form /\ "products" \in Table
  BY KeptAreTables DEF Form, Kept4
<1>4. FormTable(req[h].op) = "products" /\ AskedFields(req[h]) = {"active"}
  BY <1>2, FormTables, AskedForms DEF Deactivates
<1>5. AskedOnly /\ Tables' /\ Leaves({"products"})
  BY <1>2, <1>3, <1>4, UpdateAsks
<1>6. Rewritten("products") /\ PatchedRow(h, "products", f) /\ Leave(h)
  BY <1>2, <1>3, UpdateIs
<1>7. ASSUME NEW p \in DOMAIN rows["products"], "price" \in DOMAIN rows["products"][p]
      PROVE  /\ "price" \in DOMAIN rows'["products"][p]
             /\ rows'["products"][p]["price"] = rows["products"][p]["price"]
  <2>1. CASE p = req[h].id
    <3>1. rows'["products"][p] = Patched(rows["products"][p], seen[h].row, f)
      BY <1>6, <2>1 DEF PatchedRow
    <3> QED
      BY <1>2, <1>7, <3>1 DEF Patched
  <2>2. CASE p # req[h].id
    BY <1>6, <1>7, <2>2 DEF PatchedRow
  <2> QED
    BY <2>1, <2>2
<1>8. DOMAIN rows'["products"] = DOMAIN rows["products"]
  BY <1>6 DEF Rewritten
<1> QED
  BY <1>5, <1>6, <1>7, <1>8 DEF ProductsKept

LEMMA ReorderStep ==
  ASSUME Tables, Handlers, NEW h \in Handler, Reorder(h)
  PROVE  \E t \in Form : AskedOnly /\ Tables' /\ Leaves({t}) /\ Leave(h) /\ ProductsKept
<1>1. PICK t : t = req[h].table
  OBVIOUS
<1>2. req[h] # None /\ req[h].op = "reorder"
  BY DEF Reorder, Running
<1>3. t \in {"departments", "categories", "products", "panels", "subpanels"}
  BY <1>1, <1>2, Requests DEF WellFormed
<1>4. t \in Form /\ t \in Table /\ "products" \in Table
  BY <1>3, KeptAreTables DEF Form, Kept4
<1>5. PICK o : o = req[h].order
  OBVIOUS
<1>6. /\ rows' = [rows EXCEPT ![t] = [i \in DOMAIN rows[t] |->
                    IF i \in DOMAIN o THEN [rows[t][i] EXCEPT !.sort = o[i]] ELSE rows[t][i]]]
      /\ Leave(h)
  BY <1>1, <1>5 DEF Reorder, Commit
<1>7. Leaves({t}) /\ rows'[t] = [i \in DOMAIN rows[t] |->
                    IF i \in DOMAIN o THEN [rows[t][i] EXCEPT !.sort = o[i]] ELSE rows[t][i]]
  BY <1>4, <1>6 DEF Leaves, Tables
<1>8. Rewritten(t)
  BY <1>7 DEF Rewritten
<1>9. \A i \in DOMAIN rows[t] : \A k \in DOMAIN rows[t][i] :
        k \in DOMAIN rows'[t][i] /\ (rows'[t][i][k] # rows[t][i][k] => i \in DOMAIN o /\ k = "sort")
  BY <1>7
<1>10. \A i \in DOMAIN rows[t] : \A k \in DOMAIN rows[t][i] :
         rows'[t][i][k] # rows[t][i][k] => req[h] # None /\ Asked(h, t, i, k)
  BY <1>1, <1>2, <1>5, <1>9 DEF Asked
<1>11. AskedOnly /\ Tables'
  BY <1>4, <1>7, <1>8, <1>10, RewriteAsks
<1>12. ProductsKept
  <2>1. CASE t = "products"
    BY <1>8, <1>9, <2>1 DEF ProductsKept, Rewritten
  <2>2. CASE t # "products"
    BY <1>4, <1>7, <2>2 DEF ProductsKept, Leaves
  <2> QED
    BY <2>1, <2>2
<1> QED
  BY <1>4, <1>6, <1>7, <1>11, <1>12

LEMMA RotateStep ==
  ASSUME Tables, NEW h \in Handler, RotateDeviceToken(h)
  PROVE  AskedOnly /\ Tables' /\ Leaves({"devices"}) /\ Leave(h)
<1>1. PICK n : n = req[h].id
  OBVIOUS
<1>2. req[h] # None /\ req[h].op = "rotate_device_token"
  BY DEF RotateDeviceToken, Running
<1>3. "devices" \in Form /\ "devices" \in Table
  BY KeptAreTables DEF Form, Kept4
<1>4. rows' = [rows EXCEPT !["devices"] = [rows["devices"] EXCEPT ![n] =
                [rows["devices"][n] EXCEPT !.token = rows["devices"][n]["token"] + 1]]] /\ Leave(h)
  BY <1>1 DEF RotateDeviceToken, Commit
<1>5. Leaves({"devices"}) /\ rows'["devices"] = [rows["devices"] EXCEPT ![n] =
                [rows["devices"][n] EXCEPT !.token = rows["devices"][n]["token"] + 1]]
  BY <1>3, <1>4 DEF Leaves, Tables
<1>6. Rewritten("devices")
  BY <1>5 DEF Rewritten
<1>7. \A i \in DOMAIN rows["devices"] : \A k \in DOMAIN rows["devices"][i] :
        rows'["devices"][i][k] # rows["devices"][i][k] => i = n /\ k = "token"
  BY <1>5
<1>8. FormTable(req[h].op) = "devices" /\ AskedFields(req[h]) = {"token"}
  BY <1>2, FormTables, AskedForms
<1>9. \A i \in DOMAIN rows["devices"] : \A k \in DOMAIN rows["devices"][i] :
        rows'["devices"][i][k] # rows["devices"][i][k] => req[h] # None /\ Asked(h, "devices", i, k)
  BY <1>1, <1>2, <1>7, <1>8 DEF Asked
<1>10. AskedOnly /\ Tables'
  BY <1>3, <1>5, <1>6, <1>9, RewriteAsks
<1> QED
  BY <1>4, <1>5, <1>10

-----------------------------------------------------------------------------
(* What a handler keeps. *)

Others(h) == \A g \in Handler \ {h} : req'[g] = req[g] /\ seen'[g] = seen[g]

LEMMA BeginIs ==
  ASSUME Handlers, NEW h \in Handler, NEW r \in Request, NEW row, Begin(h, r, row)
  PROVE  /\ Handlers' /\ rows' = rows /\ r # None /\ req'[h] = r /\ Others(h)
         /\ seen'[h].row = row /\ seen'[h].old = None
<1>1. PICK s : s = [row |-> row, old |-> None]
  OBVIOUS
<1>2. req' = [req EXCEPT ![h] = r] /\ seen' = [seen EXCEPT ![h] = s] /\ rows' = rows /\ asks' = asks
  BY <1>1 DEF Begin
<1>3. req \in [Handler -> Request \union {None}] /\ DOMAIN seen = Handler /\ asks \in DeskScene
      /\ \A g \in Handler : seen[g] = [row |-> seen[g].row, old |-> seen[g].old]
  BY DEF Handlers
<1>4. req'[h] = r /\ seen'[h] = s /\ Others(h) /\ DOMAIN seen' = Handler
  BY <1>2, <1>3 DEF Others
<1>5. s = [row |-> s.row, old |-> s.old] /\ s.row = row /\ s.old = None
  BY <1>1
<1>6. \A g \in Handler : seen'[g] = [row |-> seen'[g].row, old |-> seen'[g].old]
  BY <1>3, <1>4, <1>5 DEF Others
<1>7. Handlers'
  BY <1>2, <1>3, <1>4, <1>6 DEF Handlers
<1> QED
  BY <1>2, <1>4, <1>5, <1>7, DeskAssumption

LEMMA GatherIs ==
  ASSUME Handlers, NEW h \in Handler, NEW old, Gather(h, old)
  PROVE  /\ Handlers' /\ rows' = rows /\ req' = req /\ Others(h)
         /\ seen'[h].row = seen[h].row /\ seen'[h].old = old /\ seen[h].old = None
<1>1. PICK s : s = [seen[h] EXCEPT !.old = old]
  OBVIOUS
<1>2. /\ seen[h].old = None /\ seen' = [seen EXCEPT ![h] = s]
      /\ rows' = rows /\ asks' = asks /\ req' = req
  BY <1>1 DEF Gather
<1>3. req \in [Handler -> Request \union {None}] /\ DOMAIN seen = Handler /\ asks \in DeskScene
      /\ \A g \in Handler : seen[g] = [row |-> seen[g].row, old |-> seen[g].old]
  BY DEF Handlers
<1>4. seen'[h] = s /\ Others(h) /\ DOMAIN seen' = Handler
  BY <1>2, <1>3 DEF Others
<1>5. s = [row |-> s.row, old |-> s.old] /\ s.row = seen[h].row /\ s.old = old
  BY <1>1, <1>3
<1>6. \A g \in Handler : seen'[g] = [row |-> seen'[g].row, old |-> seen'[g].old]
  BY <1>3, <1>4, <1>5 DEF Others
<1>7. Handlers'
  BY <1>2, <1>3, <1>4, <1>6 DEF Handlers
<1> QED
  BY <1>2, <1>4, <1>5, <1>7

LEMMA LeaveIs ==
  ASSUME Handlers, NEW h \in Handler, Leave(h)
  PROVE  Handlers' /\ req'[h] = None /\ Others(h)
<1>1. req' = [req EXCEPT ![h] = None] /\ seen' = [seen EXCEPT ![h] = Unread] /\ asks' = asks
  BY DEF Leave
<1>2. Unread = [row |-> Unread.row, old |-> Unread.old]
  BY DEF Unread
<1>3. req'[h] = None /\ Others(h)
  BY <1>1 DEF Handlers, Others
<1>4. \A g \in Handler : seen'[g] = [row |-> seen'[g].row, old |-> seen'[g].old]
  BY <1>1, <1>2 DEF Handlers
<1>5. Handlers'
  BY <1>1, <1>4 DEF Handlers
<1> QED
  BY <1>3, <1>5

\* Which request a handler starts, and the row it starts from.
LEMMA AuthStart ==
  ASSUME NEW h, NEW r, BeginAuth(h, r)
  PROVE  \E row :
           /\ Begin(h, r, row) /\ r.op \in AuthOp
           /\ r.op \in LoginOp => row.user \in Ids("users")
           /\ r.op = "refresh" => Live(r.id) /\ row = rows["logins"][r.id]
<1>1. CASE r.op \in LoginOp
  <2>1. PICK u \in Where("users", "name", r.name) : Begin(h, r, [user |-> u])
    BY <1>1 DEF BeginAuth, LoginOp
  <2>2. u \in Ids("users") /\ [user |-> u].user = u
    BY DEF Where
  <2> QED
    BY <1>1, <2>1, <2>2 DEF AuthOp, LoginOp
<1>2. CASE r.op = "refresh"
  BY <1>2 DEF BeginAuth, AuthOp, LoginOp
<1>3. CASE r.op = "logout"
  BY <1>3 DEF BeginAuth, AuthOp, LoginOp
<1> QED
  BY <1>1, <1>2, <1>3 DEF BeginAuth

LEMMA AdminStart ==
  ASSUME NEW h, NEW r, BeginAdmin(h, r)
  PROVE  /\ \E row : Begin(h, r, row)
         /\ r.op \notin AuthOp /\ r.op \notin CatalogOp
<1>1. r.op \in DOMAIN PermissionOf /\ \E row : Begin(h, r, row)
  BY DEF BeginAdmin
<1>2. DOMAIN PermissionOf =
        {"create_user", "update_user", "set_password", "set_pin"} \union
        {"create_role", "update_role", "set_role_permissions"} \union
        {"create_terminal", "update_terminal", "deactivate_terminal", "enroll_device",
         "update_device", "deactivate_device", "rotate_device_token"} \union
        {"create_payment_method", "update_payment_method", "deactivate_payment_method"}
  BY DEF PermissionOf
<1>3. DOMAIN CatalogTable =
        {"update_department", "delete_department", "update_category", "delete_category",
         "update_product", "delete_product", "update_price_tier", "update_panel", "delete_panel",
         "replace_panel_items", "update_subpanel", "delete_subpanel", "delete_panel_item"}
  BY DEF CatalogTable
<1> QED
  BY <1>1, <1>2, <1>3 DEF CatalogOp, AuthOp, LoginOp

LEMMA EditStart ==
  ASSUME NEW h, NEW r, BeginEdit(h, r)
  PROVE  /\ \E row : Begin(h, r, row)
         /\ r.op \notin AuthOp
         /\ r.op = "update_product" => r.id \in Ids("products")
<1>1. r.op \in CatalogOp /\ BeginCatalog(h, r)
  BY DEF BeginEdit
<1>2. DOMAIN CatalogTable =
        {"update_department", "delete_department", "update_category", "delete_category",
         "update_product", "delete_product", "update_price_tier", "update_panel", "delete_panel",
         "replace_panel_items", "update_subpanel", "delete_subpanel", "delete_panel_item"}
      /\ CatalogTable["update_product"] = "products"
  BY DEF CatalogTable
<1>3. r.op \notin AuthOp
  BY <1>1, <1>2 DEF CatalogOp, AuthOp, LoginOp
<1>4. \E row : Begin(h, r, row)
  BY <1>1 DEF BeginCatalog
<1>5. r.op = "update_product" => r.id \in Ids("products")
  BY <1>1, <1>2 DEF BeginCatalog, Exists
<1> QED
  BY <1>3, <1>4, <1>5

-----------------------------------------------------------------------------
(* Sessions. *)

LoginRow == [user : Nat, revoked : BOOLEAN, expired : BOOLEAN, from : Nat \union {None}]

\* A session that a refresh made has the one it rotated behind it, revoked.
LoginRows ==
  /\ rows["logins"] \in Seq(LoginRow)
  /\ \A s \in DOMAIN rows["logins"] : rows["logins"][s].from # None =>
       /\ rows["logins"][s].from \in DOMAIN rows["logins"]
       /\ rows["logins"][rows["logins"][s].from].revoked

\* A refresh on its way has its session, and a new session its user.
LoginAt(h) ==
  /\ req[h].op = "refresh" => req[h].id \in DOMAIN rows["logins"]
  /\ req[h].op \in {"refresh"} \union LoginOp => seen[h].row.user \in Nat

LoginsInv == LoginRows /\ \A h \in Handler : req[h] # None => LoginAt(h)

\* A session may be revoked or expire, and is never anything else again.
Lives(s) ==
  \/ rows'["logins"][s] = rows["logins"][s]
  \/ rows'["logins"][s] = [rows["logins"][s] EXCEPT !.revoked = TRUE]
  \/ rows'["logins"][s] = [rows["logins"][s] EXCEPT !.expired = TRUE]

LoginsGo ==
  /\ DOMAIN rows'["logins"] = DOMAIN rows["logins"] /\ Rewritten("logins")
  /\ \A s \in DOMAIN rows["logins"] : Lives(s)

LoginsGrow(f) ==
  \E n \in Nat, u \in Nat :
    /\ f \in DOMAIN rows["logins"] \union {None}
    /\ DOMAIN rows["logins"] = 1 .. n
    /\ DOMAIN rows'["logins"] = 1 .. n + 1
    /\ rows'["logins"] = [s \in 1 .. n + 1 |-> rows'["logins"][s]]
    /\ \A s \in 1 .. n : Lives(s)
    /\ rows'["logins"][n + 1] = NewLogin(u, f)
    /\ f # None => rows'["logins"][f].revoked

LEMMA LivesKeeps ==
  ASSUME LoginRows, NEW s \in DOMAIN rows["logins"], Lives(s)
  PROVE  /\ rows'["logins"][s] \in LoginRow
         /\ rows'["logins"][s].from = rows["logins"][s].from
         /\ rows["logins"][s].revoked => rows'["logins"][s].revoked
<1>1. rows["logins"][s] \in LoginRow
  BY DEF LoginRows
<1>2. PICK r \in LoginRow : r = rows["logins"][s]
  BY <1>1
<1>3. rows'["logins"][s] = r \/ rows'["logins"][s] = [r EXCEPT !.revoked = TRUE]
      \/ rows'["logins"][s] = [r EXCEPT !.expired = TRUE]
  BY <1>2 DEF Lives
<1>4. PICK q : q = rows'["logins"][s]
  OBVIOUS
<1>5. q \in LoginRow /\ q.from = r.from /\ (r.revoked => q.revoked)
  BY <1>2, <1>3, <1>4 DEF LoginRow
<1> QED
  BY <1>2, <1>4, <1>5

LEMMA GoneLogins ==
  ASSUME LoginRows, LoginsGo
  PROVE  LoginRows' /\ DOMAIN rows["logins"] \subseteq DOMAIN rows'["logins"]
<1>1. PICK n \in Nat : DOMAIN rows["logins"] = 1 .. n
  BY DEF LoginRows
<1>2. \A s \in 1 .. n : /\ rows'["logins"][s] \in LoginRow
                        /\ rows'["logins"][s].from = rows["logins"][s].from
                        /\ rows["logins"][s].revoked => rows'["logins"][s].revoked
  BY <1>1, LivesKeeps DEF LoginsGo
<1>3. rows'["logins"] = [s \in 1 .. n |-> rows'["logins"][s]] /\ DOMAIN rows'["logins"] = 1 .. n
  BY <1>1 DEF LoginsGo, Rewritten
<1>4. rows'["logins"] \in [1 .. n -> LoginRow]
  BY <1>2, <1>3
<1>5. rows'["logins"] \in Seq(LoginRow)
  BY <1>4, SeqDef
<1>6. \A s \in 1 .. n : rows'["logins"][s].from # None =>
        /\ rows'["logins"][s].from \in 1 .. n
        /\ rows'["logins"][rows'["logins"][s].from].revoked
  BY <1>1, <1>2 DEF LoginRows
<1> QED
  BY <1>1, <1>3, <1>5, <1>6 DEF LoginRows

LEMMA GrownLogins ==
  ASSUME LoginRows, NEW f, LoginsGrow(f)
  PROVE  LoginRows' /\ DOMAIN rows["logins"] \subseteq DOMAIN rows'["logins"]
<1>1. PICK n \in Nat, u \in Nat :
        /\ f \in DOMAIN rows["logins"] \union {None}
        /\ DOMAIN rows["logins"] = 1 .. n
        /\ DOMAIN rows'["logins"] = 1 .. n + 1
        /\ rows'["logins"] = [s \in 1 .. n + 1 |-> rows'["logins"][s]]
        /\ \A s \in 1 .. n : Lives(s)
        /\ rows'["logins"][n + 1] = NewLogin(u, f)
        /\ f # None => rows'["logins"][f].revoked
  BY DEF LoginsGrow
<1>2. \A s \in 1 .. n : /\ rows'["logins"][s] \in LoginRow
                        /\ rows'["logins"][s].from = rows["logins"][s].from
                        /\ rows["logins"][s].revoked => rows'["logins"][s].revoked
  BY <1>1, LivesKeeps
<1>3. NewLogin(u, f) \in LoginRow /\ NewLogin(u, f).from = f
  BY <1>1 DEF NewLogin, LoginRow
<1>4. \A s \in 1 .. n + 1 : rows'["logins"][s] \in LoginRow
  BY <1>1, <1>2, <1>3
<1>5. rows'["logins"] \in [1 .. n + 1 -> LoginRow]
  BY <1>1, <1>4
<1>6. rows'["logins"] \in Seq(LoginRow)
  BY <1>5, SeqDef
<1>7. ASSUME NEW s \in 1 .. n + 1, rows'["logins"][s].from # None
      PROVE  /\ rows'["logins"][s].from \in 1 .. n
             /\ rows'["logins"][rows'["logins"][s].from].revoked
  <2>1. CASE s = n + 1
    BY <1>1, <1>3, <1>7, <2>1
  <2>2. CASE s # n + 1
    <3>1. s \in 1 .. n
      BY <2>2
    <3> QED
      BY <1>1, <1>2, <1>7, <3>1 DEF LoginRows
  <2> QED
    BY <2>1, <2>2
<1> QED
  BY <1>1, <1>6, <1>7 DEF LoginRows

LEMMA LogoutStep ==
  ASSUME Tables, NEW h \in Handler, Logout(h)
  PROVE  AskedOnly /\ Tables' /\ Leaves({"logins"}) /\ Leave(h) /\ LoginsGo
<1>1. PICK n : n = req[h].id
  OBVIOUS
<1>2. "logins" \in Table /\ Kept4 \subseteq Table /\ "logins" \notin Form /\ "logins" \in Kept4
  BY KeptAreTables DEF Kept4, Form
<1>3. rows' = [rows EXCEPT !["logins"] = [rows["logins"] EXCEPT ![n] = [rows["logins"][n] EXCEPT !.revoked = TRUE]]]
      /\ Leave(h)
  BY <1>1 DEF Logout, Commit, Revoked
<1>4. Leaves({"logins"})
      /\ rows'["logins"] = [rows["logins"] EXCEPT ![n] = [rows["logins"][n] EXCEPT !.revoked = TRUE]]
  BY <1>2, <1>3 DEF Leaves, Tables
<1>5. LoginsGo
  BY <1>4 DEF LoginsGo, Lives, Rewritten
<1>6. IsTable(rows'["logins"])
  BY <1>2, <1>5, TableMapped DEF Tables, LoginsGo, Rewritten
<1>7. Tables'
  BY <1>2, <1>4, <1>6 DEF Tables, Leaves
<1>8. AskedOnly
  BY <1>2, <1>4, LeavesAsks
<1> QED
  BY <1>3, <1>4, <1>5, <1>7, <1>8

LEMMA ExpireStep ==
  ASSUME Tables, NEW s, Expire(s)
  PROVE  AskedOnly /\ Tables' /\ Leaves({"logins"}) /\ LoginsGo
<1>2. "logins" \in Table /\ Kept4 \subseteq Table /\ "logins" \notin Form /\ "logins" \in Kept4
  BY KeptAreTables DEF Kept4, Form
<1>3. rows' = [rows EXCEPT !["logins"] = [rows["logins"] EXCEPT ![s] = [rows["logins"][s] EXCEPT !.expired = TRUE]]]
  BY DEF Expire
<1>4. Leaves({"logins"})
      /\ rows'["logins"] = [rows["logins"] EXCEPT ![s] = [rows["logins"][s] EXCEPT !.expired = TRUE]]
  BY <1>2, <1>3 DEF Leaves, Tables
<1>5. LoginsGo
  BY <1>4 DEF LoginsGo, Lives, Rewritten
<1>6. IsTable(rows'["logins"])
  BY <1>2, <1>5, TableMapped DEF Tables, LoginsGo, Rewritten
<1>7. Tables'
  BY <1>2, <1>4, <1>6 DEF Tables, Leaves
<1>8. AskedOnly
  BY <1>2, <1>4, LeavesAsks
<1> QED
  BY <1>4, <1>5, <1>7, <1>8

LEMMA CredentialStep ==
  ASSUME Tables, NEW h \in Handler, SetPassword(h) \/ SetPin(h)
  PROVE  AskedOnly /\ Tables' /\ Leaves({"users", "logins"}) /\ Leave(h) /\ LoginsGo
<1>1. PICK n : n = req[h].id
  OBVIOUS
<1>2. /\ "logins" \in Table /\ Kept4 \subseteq Table /\ "logins" \notin Form /\ "logins" \in Kept4
      /\ "users" \in Table /\ "users" \in Form /\ Form \subseteq Kept4
  BY KeptAreTables DEF Kept4, Form
<1>3. req[h] # None /\ req[h].op \in {"set_password", "set_pin"} /\ SetCredential(h)
  BY DEF SetPassword, SetPin, Running
<1>4. PICK u : u = [k \in DOMAIN rows["users"][n] |->
                     IF HasField(req[h], k) THEN req[h].fields[k] ELSE rows["users"][n][k]]
  OBVIOUS
<1>5. PICK o : o = seen[h].old
  OBVIOUS
<1>6. /\ rows' = [rows EXCEPT !["users"] = [rows["users"] EXCEPT ![n] = u],
                    !["logins"] = [s \in DOMAIN rows["logins"] |->
                       IF <<"logins", s>> \in o THEN [rows["logins"][s] EXCEPT !.revoked = TRUE]
                       ELSE rows["logins"][s]]]
      /\ Leave(h)
  BY <1>1, <1>3, <1>4, <1>5 DEF SetCredential, Commit
<1>7. /\ DOMAIN rows' = Table
      /\ \A t \in Table \ {"users", "logins"} : rows'[t] = rows[t]
      /\ rows'["users"] = [rows["users"] EXCEPT ![n] = u]
      /\ rows'["logins"] = [s \in DOMAIN rows["logins"] |->
                       IF <<"logins", s>> \in o THEN [rows["logins"][s] EXCEPT !.revoked = TRUE]
                       ELSE rows["logins"][s]]
  BY <1>2, <1>6 DEF Tables
<1>8. LoginsGo
  BY <1>7 DEF LoginsGo, Lives, Rewritten
<1>9. IsTable(rows'["logins"]) /\ IsTable(rows'["users"])
  <2>1. Rewritten("users")
    BY <1>7 DEF Rewritten
  <2> QED
    BY <1>2, <1>8, <2>1, TableMapped DEF Tables, LoginsGo, Rewritten
<1>10. Tables'
  BY <1>2, <1>7, <1>9 DEF Tables
<1>11. \A i \in DOMAIN rows["users"] : \A k \in DOMAIN rows["users"][i] :
         rows'["users"][i][k] # rows["users"][i][k] => i = n /\ HasField(req[h], k)
  BY <1>4, <1>7
<1>12. FormTable(req[h].op) = "users" /\ AskedFields(req[h]) = DOMAIN req[h].fields
  BY <1>3, FormTables, AskedForms
<1>13. \A i \in DOMAIN rows["users"] : \A k \in DOMAIN rows["users"][i] :
         rows'["users"][i][k] # rows["users"][i][k] => req[h] # None /\ Asked(h, "users", i, k)
  BY <1>1, <1>3, <1>11, <1>12 DEF Asked, HasField
<1>14. AskedOnly
  BY <1>2, <1>7, <1>13 DEF AskedOnly
<1> QED
  BY <1>6, <1>7, <1>8, <1>10, <1>14 DEF Leaves

LEMMA IssueStep ==
  ASSUME Tables, LoginsInv, NEW h \in Handler, IssueSession(h)
  PROVE  AskedOnly /\ Tables' /\ Leaves({"logins"}) /\ Leave(h) /\ LoginsGrow(None)
<1>1. PICK u : u = seen[h].row.user
  OBVIOUS
<1>2. "logins" \in Table /\ Kept4 \subseteq Table /\ "logins" \notin Form /\ "logins" \in Kept4
  BY KeptAreTables DEF Kept4, Form
<1>3. req[h] # None /\ req[h].op \in LoginOp /\ Insert(h, "logins", NewLogin(u, None))
  BY <1>1 DEF IssueSession
<1>4. u \in Nat
  BY <1>1, <1>3 DEF LoginsInv, LoginAt
<1>5. Leaves({"logins"}) /\ rows'["logins"] = Append(rows["logins"], NewLogin(u, None)) /\ Leave(h)
  BY <1>2, <1>3, InsertIs
<1>6. PICK n \in Nat : n = Len(rows["logins"])
  BY DEF LoginsInv, LoginRows
<1>7. IsTable(rows["logins"])
  BY <1>2 DEF Tables
<1>8. /\ DOMAIN rows["logins"] = 1 .. n /\ DOMAIN rows'["logins"] = 1 .. n + 1 /\ IsTable(rows'["logins"])
      /\ \A s \in 1 .. n : rows'["logins"][s] = rows["logins"][s]
      /\ rows'["logins"][n + 1] = NewLogin(u, None)
  BY <1>5, <1>6, <1>7, TableAppend
<1>9. rows'["logins"] = [s \in 1 .. n + 1 |-> rows'["logins"][s]]
  BY <1>8 DEF IsTable
<1>10. LoginsGrow(None)
  BY <1>4, <1>8, <1>9 DEF LoginsGrow, Lives
<1>11. Tables'
  BY <1>2, <1>5, <1>8 DEF Tables, Leaves
<1>12. AskedOnly
  BY <1>2, <1>5, LeavesAsks
<1> QED
  BY <1>5, <1>10, <1>11, <1>12

LEMMA RefreshStep ==
  ASSUME Tables, LoginsInv, NEW h \in Handler, Refresh(h)
  PROVE  AskedOnly /\ Tables' /\ Leaves({"logins"}) /\ Leave(h) /\ (LoginsGo \/ LoginsGrow(req[h].id))
<1>1. PICK u : u = seen[h].row.user
  OBVIOUS
<1>2. "logins" \in Table /\ Kept4 \subseteq Table /\ "logins" \notin Form /\ "logins" \in Kept4
  BY KeptAreTables DEF Kept4, Form
<1>3. PICK f : f = req[h].id
  OBVIOUS
<1>4. PICK c : c = [rows["logins"] EXCEPT ![f] = [rows["logins"][f] EXCEPT !.revoked = TRUE]]
  OBVIOUS
<1>5. /\ req[h] # None /\ req[h].op = "refresh" /\ Leave(h)
      /\ \/ rows' = [rows EXCEPT !["logins"] = c]
         \/ rows' = [rows EXCEPT !["logins"] = Append(c, NewLogin(u, f))]
  BY <1>1, <1>3, <1>4 DEF Refresh, Commit, Running, Revoked
<1>6. u \in Nat /\ f \in DOMAIN rows["logins"]
  BY <1>1, <1>3, <1>5 DEF LoginsInv, LoginAt
<1>7. Leaves({"logins"}) /\ (rows'["logins"] = c \/ rows'["logins"] = Append(c, NewLogin(u, f)))
  BY <1>2, <1>5 DEF Leaves, Tables
<1>8. PICK n \in Nat : n = Len(rows["logins"]) /\ DOMAIN rows["logins"] = 1 .. n
  BY DEF LoginsInv, LoginRows
<1>9. rows["logins"][f] \in LoginRow
  BY <1>6 DEF LoginsInv, LoginRows
<1>10. [rows["logins"][f] EXCEPT !.revoked = TRUE].revoked
  <2>1. PICK r \in LoginRow : r = rows["logins"][f]
    BY <1>9
  <2>2. [r EXCEPT !.revoked = TRUE].revoked
    BY DEF LoginRow
  <2> QED
    BY <2>1, <2>2
<1>11. /\ c = [s \in 1 .. n |-> c[s]] /\ DOMAIN c = 1 .. n /\ c[f].revoked
       /\ \A s \in 1 .. n : c[s] = rows["logins"][s] \/ c[s] = [rows["logins"][s] EXCEPT !.revoked = TRUE]
  BY <1>4, <1>6, <1>8, <1>10
<1>12. IsTable(c)
  BY <1>2, <1>8, <1>11, TableMapped DEF Tables
<1>13. CASE rows'["logins"] = c
  <2>1. LoginsGo
    BY <1>8, <1>11, <1>13 DEF LoginsGo, Lives, Rewritten
  <2>2. Tables'
    BY <1>2, <1>7, <1>12, <1>13 DEF Tables, Leaves
  <2> QED
    BY <1>2, <1>5, <1>7, <2>1, <2>2, LeavesAsks
<1>14. CASE rows'["logins"] = Append(c, NewLogin(u, f))
  <2>1. Len(c) = n
    <3>1. PICK S : c \in Seq(S)
      BY <1>12 DEF IsTable
    <3>2. Len(c) \in Nat /\ DOMAIN c = 1 .. Len(c)
      BY <3>1
    <3> QED
      BY <1>8, <1>11, <3>2
  <2>2. /\ DOMAIN rows'["logins"] = 1 .. n + 1 /\ IsTable(rows'["logins"])
        /\ \A s \in 1 .. n : rows'["logins"][s] = c[s]
        /\ rows'["logins"][n + 1] = NewLogin(u, f)
    BY <1>11, <1>12, <1>14, <2>1, TableAppend
  <2>3. rows'["logins"] = [s \in 1 .. n + 1 |-> rows'["logins"][s]]
    BY <2>2 DEF IsTable
  <2>4. f \in DOMAIN rows["logins"] \union {None} /\ rows'["logins"][f].revoked
    BY <1>6, <1>8, <1>11, <2>2
  <2>5. \A s \in 1 .. n : Lives(s)
    BY <1>11, <2>2 DEF Lives
  <2>6. LoginsGrow(f)
    BY <1>6, <1>8, <2>2, <2>3, <2>4, <2>5 DEF LoginsGrow
  <2>7. Tables'
    BY <1>2, <1>7, <2>2 DEF Tables, Leaves
  <2> QED
    BY <1>2, <1>3, <1>5, <1>7, <2>6, <2>7, LeavesAsks
<1> QED
  BY <1>7, <1>13, <1>14

-----------------------------------------------------------------------------
(* Prices. *)

\* Each product has the price of the one row of its history with no end.
InForce(p) ==
  \E i \in DOMAIN rows["prices"] :
    /\ rows["prices"][i].price = rows["products"][p]["price"]
    /\ \A j \in DOMAIN rows["prices"] :
         rows["prices"][j].product = p /\ rows["prices"][j].to = None <=> j = i

PriceRows ==
  /\ rows["prices"] \in Seq(PriceRow)
  /\ \A i \in DOMAIN rows["prices"] : rows["prices"][i].product \in DOMAIN rows["products"]
  /\ \A p \in DOMAIN rows["products"] : "price" \in DOMAIN rows["products"][p] /\ InForce(p)

\* An edit on its way has its product, and closes one price of it at most.
PriceAt(h) ==
  req[h].op = "update_product" =>
    /\ req[h].id \in DOMAIN rows["products"]
    /\ seen[h].old # None =>
         \A x, y \in seen[h].old : x[1] = "prices" /\ y[1] = "prices" =>
           /\ x = y /\ x[2] \in DOMAIN rows["prices"]
           /\ rows["prices"][x[2]].product = req[h].id

PricesInv == PriceRows /\ \A h \in Handler : req[h] # None => PriceAt(h)

\* Rows are added, and a row of the history is only ever given its end.
PricesGo ==
  /\ DOMAIN rows["products"] \subseteq DOMAIN rows'["products"]
  /\ DOMAIN rows["prices"] \subseteq DOMAIN rows'["prices"]
  /\ \A i \in DOMAIN rows["prices"] :
       /\ rows'["prices"][i].product = rows["prices"][i].product
       /\ rows'["prices"][i].price = rows["prices"][i].price
       /\ rows["prices"][i].to # None => rows'["prices"][i].to = rows["prices"][i].to

LEMMA KeptPrices ==
  ASSUME PriceRows, rows'["prices"] = rows["prices"], ProductsKept
  PROVE  PriceRows' /\ PricesGo
<1>1. DOMAIN rows'["products"] = DOMAIN rows["products"]
  BY DEF ProductsKept
<1>2. ASSUME NEW p \in DOMAIN rows["products"]
      PROVE  "price" \in DOMAIN rows'["products"][p] /\ InForce(p)'
  <2>1. rows'["products"][p]["price"] = rows["products"][p]["price"] /\ "price" \in DOMAIN rows'["products"][p]
    BY DEF ProductsKept, PriceRows
  <2>2. InForce(p)
    BY DEF PriceRows
  <2> QED
    BY <2>1, <2>2 DEF InForce
<1>3. PriceRows'
  BY <1>1, <1>2 DEF PriceRows
<1> QED
  BY <1>1, <1>3 DEF PricesGo

LEMMA PriceFields ==
  ASSUME NEW p \in Nat, NEW x \in Nat
  PROVE  /\ OpenPrice(p, x) \in PriceRow /\ OpenPrice(p, x).product = p
         /\ OpenPrice(p, x).price = x /\ OpenPrice(p, x).to = None
BY DEF OpenPrice, PriceRow

LEMMA ClosedPrice ==
  ASSUME NEW row \in PriceRow, NEW n \in Nat
  PROVE  /\ [row EXCEPT !.to = n] \in PriceRow /\ [row EXCEPT !.to = n].product = row.product
         /\ [row EXCEPT !.to = n].price = row.price /\ [row EXCEPT !.to = n].to = n /\ n # None
BY DeskAssumption DEF PriceRow

LEMMA CreateProductStep ==
  ASSUME Tables, Handlers, PriceRows, NEW h \in Handler, CreateProduct(h)
  PROVE  /\ AskedOnly /\ Tables' /\ Leave(h)
         /\ Leaves({"products", "prices", "barcodes", "tierPrices"})
         /\ PriceRows' /\ PricesGo
<1>1. req[h] # None /\ req[h].op = "create_product"
  BY DEF CreateProduct, Running
<1>2. PICK x \in Nat : x = req[h].price
  BY <1>1, Requests DEF WellFormed
<1>3. /\ "products" \in Table /\ "prices" \in Table /\ Kept4 \subseteq Table /\ Form \subseteq Kept4
      /\ "products" \in Form /\ {"prices", "barcodes", "tierPrices"} \intersect Form = {}
      /\ "prices" \in Kept4 /\ "products" \in Kept4 /\ {"barcodes", "tierPrices"} \intersect Kept4 = {}
  BY KeptAreTables DEF Kept4, Form
<1>4. PICK n \in Nat : n = Len(rows["products"]) /\ DOMAIN rows["products"] = 1 .. n
  BY <1>3, TableAppend DEF Tables
<1>5. PICK m \in Nat : m = Len(rows["prices"]) /\ DOMAIN rows["prices"] = 1 .. m
  BY DEF PriceRows
<1>6. PICK a : a = Priced(req[h].fields, x)
  OBVIOUS
<1>7. PICK b : b = rows["barcodes"] \o BarcodeRows(n + 1, req[h].barcodes)
  OBVIOUS
<1>8. PICK t : t = rows["tierPrices"] \o TierRows(n + 1, req[h].tiers)
  OBVIOUS
<1>9. PICK y : y = OpenPrice(n + 1, x)
  OBVIOUS
<1>10. /\ rows' = [rows EXCEPT !["products"] = Append(rows["products"], a),
                     !["prices"] = Append(rows["prices"], y),
                     !["barcodes"] = b, !["tierPrices"] = t]
       /\ Leave(h)
  BY <1>2, <1>4, <1>6, <1>7, <1>8, <1>9 DEF CreateProduct, Commit
<1>11. /\ Leaves({"products", "prices", "barcodes", "tierPrices"})
       /\ rows'["products"] = Append(rows["products"], a)
       /\ rows'["prices"] = Append(rows["prices"], y)
  BY <1>3, <1>10 DEF Leaves, Tables
<1>12. /\ IsTable(rows'["products"]) /\ DOMAIN rows'["products"] = 1 .. n + 1
       /\ \A i \in 1 .. n : rows'["products"][i] = rows["products"][i]
       /\ rows'["products"][n + 1] = a
  BY <1>3, <1>4, <1>11, TableAppend DEF Tables
<1>13. /\ IsTable(rows'["prices"]) /\ DOMAIN rows'["prices"] = 1 .. m + 1
       /\ \A i \in 1 .. m : rows'["prices"][i] = rows["prices"][i]
       /\ rows'["prices"][m + 1] = y
  BY <1>3, <1>5, <1>11, TableAppend DEF Tables
<1>14. Tables'
  BY <1>3, <1>11, <1>12, <1>13 DEF Tables, Leaves
<1>15. AskedOnly
  BY <1>3, <1>4, <1>11, <1>12 DEF AskedOnly, Leaves
<1>16. y \in PriceRow /\ y.product = n + 1 /\ y.price = x /\ y.to = None
  BY <1>9, PriceFields
<1>17. rows'["prices"] \in Seq(PriceRow)
  BY <1>11, <1>16 DEF PriceRows
<1>18. "price" \in DOMAIN a /\ a["price"] = x
  BY <1>6 DEF Priced
<1>19. \A i \in 1 .. m : rows["prices"][i].product \in 1 .. n
  BY <1>4, <1>5 DEF PriceRows
<1>20. \A i \in 1 .. m + 1 : rows'["prices"][i].product \in 1 .. n + 1
  BY <1>13, <1>16, <1>19
<1>21. ASSUME NEW p \in 1 .. n
       PROVE  "price" \in DOMAIN rows'["products"][p] /\ InForce(p)'
  <2>1. "price" \in DOMAIN rows["products"][p] /\ InForce(p)
    BY <1>4 DEF PriceRows
  <2>2. PICK i \in 1 .. m : /\ rows["prices"][i].price = rows["products"][p]["price"]
                            /\ \A j \in 1 .. m : rows["prices"][j].product = p /\ rows["prices"][j].to = None <=> j = i
    BY <1>5, <2>1 DEF InForce
  <2>3. \A j \in 1 .. m + 1 : rows'["prices"][j].product = p /\ rows'["prices"][j].to = None <=> j = i
    BY <1>13, <1>16, <2>2
  <2>4. rows'["products"][p] = rows["products"][p] /\ rows'["prices"][i] = rows["prices"][i]
    BY <1>12, <1>13
  <2>5. i \in 1 .. m + 1 /\ rows'["prices"][i].price = rows'["products"][p]["price"]
    BY <2>2, <2>4
  <2>6. InForce(p)'
    BY <1>13, <2>3, <2>5 DEF InForce
  <2> QED
    BY <2>1, <2>4, <2>6
<1>22. InForce(n + 1)'
  <2>1. \A j \in 1 .. m + 1 : rows'["prices"][j].product = n + 1 /\ rows'["prices"][j].to = None <=> j = m + 1
    BY <1>13, <1>16, <1>19
  <2> QED
    BY <1>12, <1>13, <1>16, <1>18, <2>1 DEF InForce
<1>23. PriceRows'
  BY <1>12, <1>13, <1>17, <1>18, <1>20, <1>21, <1>22 DEF PriceRows
<1>24. PricesGo
  BY <1>4, <1>5, <1>12, <1>13 DEF PricesGo
<1> QED
  BY <1>10, <1>11, <1>14, <1>15, <1>23, <1>24

\* The index on the price in force.
LEMMA OnePriceOpen ==
  ASSUME NEW table, NoClash(table, "prices"), NEW i \in DOMAIN table, NEW j \in DOMAIN table,
         table[i] \in PriceRow, table[j] \in PriceRow, table[i].to = None, table[j].to = None,
         table[i].product = table[j].product
  PROVE  i = j
<1>1. "prices" \in DOMAIN Key /\ Key["prices"] = {"product", "to"}
  BY DEF Key, CatalogKey, SecurityKey
<1>2. Indexed("prices", table[i]) /\ Indexed("prices", table[j])
  BY <1>1, CatalogAssumption DEF Indexed
<1>3. Entry("prices", table[i]) = Entry("prices", table[j])
  BY <1>1 DEF Entry, PriceRow
<1> QED
  BY <1>2, <1>3 DEF NoClash

LEMMA UpdateProductIs ==
  ASSUME Tables, Handlers, PricesInv, NEW h \in Handler, UpdateProduct(h)
  PROVE  /\ AskedOnly /\ Leave(h) /\ Leaves({"products", "prices", "barcodes", "tierPrices"})
         /\ IsTable(rows'["products"]) /\ DOMAIN rows'["products"] = DOMAIN rows["products"]
         /\ req[h] # None /\ req[h].op = "update_product" /\ seen[h].old # None
         /\ req[h].id \in DOMAIN rows["products"]
         /\ \A q \in DOMAIN rows["products"] :
              /\ q # req[h].id => rows'["products"][q] = rows["products"][q]
              /\ "price" \in DOMAIN rows'["products"][q]
         /\ rows'["products"][req[h].id]["price"] =
              (IF PriceChanged(h) THEN req[h].price ELSE rows["products"][req[h].id]["price"])
         /\ rows'["prices"] = History(h)
         /\ rows'["prices"] # rows["prices"] => NoClash(rows'["prices"], "prices")
<1>1. req[h] # None /\ req[h].op = "update_product" /\ seen[h].old # None
  BY DEF UpdateProduct, Running
<1>2. PICK p \in DOMAIN rows["products"] : p = req[h].id
  BY <1>1 DEF PricesInv, PriceAt
<1>3. /\ "products" \in Table /\ "prices" \in Table /\ Kept4 \subseteq Table /\ Form \subseteq Kept4
      /\ "products" \in Form /\ {"prices", "barcodes", "tierPrices"} \intersect Form = {}
  BY KeptAreTables DEF Kept4, Form
<1>4. PICK a : a = Patched(rows["products"][p], seen[h].row, NewFields(h))
  OBVIOUS
<1>5. PICK b : b = Kept(h, "barcodes") \o BarcodeRows(p, req[h].barcodes)
  OBVIOUS
<1>6. PICK t : t = Kept(h, "tierPrices") \o TierRows(p, req[h].tiers)
  OBVIOUS
<1>7. PICK y : y = History(h)
  OBVIOUS
<1>8. PICK tables : /\ tables = [rows EXCEPT !["products"] = [rows["products"] EXCEPT ![p] = a],
                                  !["prices"] = y, !["barcodes"] = b, !["tierPrices"] = t]
                    /\ Commit(h, tables)
  BY <1>2, <1>4, <1>5, <1>6, <1>7 DEF UpdateProduct
<1>9. rows' = tables /\ Leave(h) /\ \A z \in Table : tables[z] # rows[z] => NoClash(tables[z], z)
  BY <1>8 DEF Commit
<1>10. /\ Leaves({"products", "prices", "barcodes", "tierPrices"})
       /\ rows'["products"] = [rows["products"] EXCEPT ![p] = a] /\ rows'["prices"] = y
  BY <1>3, <1>8, <1>9 DEF Leaves, Tables
<1>11. Rewritten("products") /\ DOMAIN rows'["products"] = DOMAIN rows["products"]
       /\ rows'["products"][p] = a
       /\ \A q \in DOMAIN rows["products"] : q # p => rows'["products"][q] = rows["products"][q]
  BY <1>10 DEF Rewritten
<1>12. IsTable(rows'["products"])
  BY <1>3, <1>11, TableMapped DEF Tables, Rewritten
<1>0. PICK fs : fs = DOMAIN req[h].fields \union {k \in {"price"} : req[h].price # None}
  OBVIOUS
<1>13. DOMAIN NewFields(h) \subseteq fs
  BY <1>0 DEF NewFields, Priced, PriceChanged
<1>14. \A k \in DOMAIN rows["products"][p] : a[k] # rows["products"][p][k] => k \in fs
  BY <1>4, <1>13 DEF Patched
<1>15. FormTable(req[h].op) = "products" /\ AskedFields(req[h]) = fs
  BY <1>0, <1>1, FormTables, AskedForms
<1>16. \A i \in DOMAIN rows["products"] : \A k \in DOMAIN rows["products"][i] :
         rows'["products"][i][k] # rows["products"][i][k] => req[h] # None /\ Asked(h, "products", i, k)
  BY <1>1, <1>2, <1>11, <1>14, <1>15 DEF Asked
<1>17. AskedOnly
  BY <1>3, <1>10, <1>16 DEF AskedOnly, Leaves
<1>18. "price" \in DOMAIN rows["products"][p] /\ \A q \in DOMAIN rows["products"] : "price" \in DOMAIN rows["products"][q]
  BY DEF PricesInv, PriceRows
<1>19. DOMAIN a = DOMAIN rows["products"][p]
  BY <1>4 DEF Patched
<1>20. a["price"] = IF PriceChanged(h) THEN req[h].price ELSE rows["products"][p]["price"]
  <2>1. CASE PriceChanged(h)
    <3>1. NewFields(h) = Priced(req[h].fields, req[h].price)
      BY <2>1 DEF NewFields
    <3>2. "price" \in DOMAIN NewFields(h) /\ NewFields(h)["price"] = req[h].price
      BY <3>1 DEF Priced
    <3>3. req[h].price # seen[h].row["price"]
      BY <2>1 DEF PriceChanged
    <3> QED
      BY <1>4, <1>18, <2>1, <3>2, <3>3 DEF Patched
  <2>2. CASE ~PriceChanged(h)
    <3>1. "price" \notin DOMAIN NewFields(h)
      BY <1>1, <2>2, Requests DEF NewFields, WellFormed
    <3> QED
      BY <1>4, <1>18, <2>2, <3>1 DEF Patched
  <2> QED
    BY <2>1, <2>2
<1> QED
  BY <1>1, <1>2, <1>3, <1>7, <1>9, <1>10, <1>11, <1>12, <1>17, <1>18, <1>19, <1>20

\* The history after an edit: the rows it found to close, and the new price.
ClosedRows(h, n) ==
  [i \in DOMAIN rows["prices"] |->
    IF <<"prices", i>> \in seen[h].old THEN [rows["prices"][i] EXCEPT !.to = n] ELSE rows["prices"][i]]

LEMMA NewHistory ==
  ASSUME PricesInv, NEW h \in Handler, req[h] # None, req[h].op = "update_product",
         seen[h].old # None, PriceChanged(h), req[h].price \in Nat
  PROVE  \E m \in Nat :
           /\ DOMAIN rows["prices"] = 1 .. m
           /\ History(h) \in Seq(PriceRow) /\ DOMAIN History(h) = 1 .. m + 1
           /\ History(h)[m + 1] = OpenPrice(req[h].id, req[h].price)
           /\ \A i \in 1 .. m :
                /\ History(h)[i].product = rows["prices"][i].product
                /\ History(h)[i].price = rows["prices"][i].price
                /\ <<"prices", i>> \notin seen[h].old => History(h)[i] = rows["prices"][i]
                /\ <<"prices", i>> \in seen[h].old => History(h)[i].to # None
<1>1. PICK m \in Nat : m = Len(rows["prices"]) /\ DOMAIN rows["prices"] = 1 .. m
  BY DEF PricesInv, PriceRows
<1>2. PICK c : c = ClosedRows(h, m + 1)
  OBVIOUS
<1>3. \A i \in 1 .. m : rows["prices"][i] \in PriceRow
  BY <1>1 DEF PricesInv, PriceRows
<1>4. c = [i \in 1 .. m |-> c[i]]
  BY <1>1, <1>2 DEF ClosedRows
<1>5. ASSUME NEW i \in 1 .. m
      PROVE  /\ c[i] \in PriceRow /\ c[i].product = rows["prices"][i].product
             /\ c[i].price = rows["prices"][i].price
             /\ <<"prices", i>> \notin seen[h].old => c[i] = rows["prices"][i]
             /\ <<"prices", i>> \in seen[h].old => c[i].to # None
  <2>1. c[i] = IF <<"prices", i>> \in seen[h].old THEN [rows["prices"][i] EXCEPT !.to = m + 1] ELSE rows["prices"][i]
    BY <1>1, <1>2 DEF ClosedRows
  <2>2. PICK row \in PriceRow : row = rows["prices"][i]
    BY <1>3
  <2>3. /\ [row EXCEPT !.to = m + 1] \in PriceRow /\ [row EXCEPT !.to = m + 1].product = row.product
        /\ [row EXCEPT !.to = m + 1].price = row.price /\ [row EXCEPT !.to = m + 1].to # None
    BY <2>2, ClosedPrice, m + 1 \in Nat
  <2> QED
    BY <2>1, <2>2, <2>3
<1>6. c \in [1 .. m -> PriceRow]
  BY <1>4, <1>5
<1>7. c \in Seq(PriceRow) /\ Len(c) = m
  <2>1. c \in Seq(PriceRow)
    BY <1>6, SeqDef
  <2>2. Len(c) \in Nat /\ DOMAIN c = 1 .. Len(c)
    BY <2>1
  <2> QED
    BY <1>4, <2>1, <2>2
<1>8. req[h].id \in Nat
  <2>1. \E i \in 1 .. m : rows["prices"][i].product = req[h].id
    BY <1>1 DEF PricesInv, PriceRows, PriceAt, InForce
  <2> QED
    BY <1>3, <2>1 DEF PriceRow
<1>9. PICK y : y = OpenPrice(req[h].id, req[h].price)
  OBVIOUS
<1>10. y \in PriceRow
  BY <1>8, <1>9, PriceFields
<1>11. History(h) = Append(c, y)
  BY <1>1, <1>2, <1>9 DEF History, ClosedRows
<1>12. /\ Append(c, y) \in Seq(PriceRow) /\ DOMAIN Append(c, y) = 1 .. m + 1
       /\ Append(c, y)[m + 1] = y /\ \A i \in 1 .. m : Append(c, y)[i] = c[i]
  BY <1>7, <1>10
<1> QED
  BY <1>1, <1>5, <1>9, <1>11, <1>12

LEMMA UpdateProductStep ==
  ASSUME Tables, Handlers, PricesInv, NEW h \in Handler, UpdateProduct(h)
  PROVE  /\ AskedOnly /\ Tables' /\ Leave(h)
         /\ Leaves({"products", "prices", "barcodes", "tierPrices"})
         /\ PriceRows' /\ PricesGo
<1>1. /\ AskedOnly /\ Leave(h) /\ Leaves({"products", "prices", "barcodes", "tierPrices"})
      /\ IsTable(rows'["products"]) /\ DOMAIN rows'["products"] = DOMAIN rows["products"]
      /\ req[h] # None /\ req[h].op = "update_product" /\ seen[h].old # None
      /\ req[h].id \in DOMAIN rows["products"]
      /\ \A q \in DOMAIN rows["products"] :
           /\ q # req[h].id => rows'["products"][q] = rows["products"][q]
           /\ "price" \in DOMAIN rows'["products"][q]
      /\ rows'["products"][req[h].id]["price"] =
           (IF PriceChanged(h) THEN req[h].price ELSE rows["products"][req[h].id]["price"])
      /\ rows'["prices"] = History(h)
      /\ rows'["prices"] # rows["prices"] => NoClash(rows'["prices"], "prices")
  BY UpdateProductIs
<1>2. PICK p \in DOMAIN rows["products"] : p = req[h].id
  BY <1>1
<1>3. PriceRows
  BY DEF PricesInv
<1>6. Kept4 \subseteq Table /\ {"barcodes", "tierPrices"} \intersect Kept4 = {}
  BY KeptAreTables DEF Kept4, Form
<1>7. IsTable(rows'["prices"]) => Tables'
  BY <1>1, <1>6 DEF Tables, Leaves
<1>4. CASE ~PriceChanged(h)
  <2>1. rows'["prices"] = rows["prices"]
    BY <1>1, <1>4 DEF History
  <2>2. ProductsKept
    BY <1>1, <1>4 DEF ProductsKept
  <2>3. IsTable(rows'["prices"])
    BY <1>3, <2>1 DEF PriceRows, IsTable
  <2>4. PriceRows' /\ PricesGo
    BY <1>3, <2>1, <2>2, KeptPrices
  <2> QED
    BY <1>1, <1>7, <2>3, <2>4
<1>5. CASE PriceChanged(h)
  <2>1. PICK x \in Nat : x = req[h].price
    BY <1>1, <1>5, Requests DEF PriceChanged, WellFormed
  <2>2. PICK m \in Nat :
           /\ DOMAIN rows["prices"] = 1 .. m
           /\ History(h) \in Seq(PriceRow) /\ DOMAIN History(h) = 1 .. m + 1
           /\ History(h)[m + 1] = OpenPrice(req[h].id, req[h].price)
           /\ \A i \in 1 .. m :
                /\ History(h)[i].product = rows["prices"][i].product
                /\ History(h)[i].price = rows["prices"][i].price
                /\ <<"prices", i>> \notin seen[h].old => History(h)[i] = rows["prices"][i]
                /\ <<"prices", i>> \in seen[h].old => History(h)[i].to # None
    BY <1>1, <1>5, <2>1, NewHistory
  <2>3. PICK z : z = rows'["prices"]
    OBVIOUS
  <2>4. PICK o : o = seen[h].old
    OBVIOUS
  <2>5. /\ z \in Seq(PriceRow) /\ DOMAIN z = 1 .. m + 1 /\ z[m + 1] = OpenPrice(p, x)
        /\ \A i \in 1 .. m : /\ z[i].product = rows["prices"][i].product
                             /\ z[i].price = rows["prices"][i].price
                             /\ <<"prices", i>> \notin o => z[i] = rows["prices"][i]
                             /\ <<"prices", i>> \in o => z[i].to # None
    BY <1>1, <1>2, <2>1, <2>2, <2>3, <2>4
  <2>6. z # rows["prices"]
    BY <2>2, <2>5
  <2>7. NoClash(z, "prices")
    BY <1>1, <2>3, <2>6
  <2>8. \A i \in 1 .. m : rows["prices"][i].product \in DOMAIN rows["products"]
    BY <1>3, <2>2 DEF PriceRows
  <2>9. p \in Nat
    <3>1. \E i \in 1 .. m : rows["prices"][i] \in PriceRow /\ rows["prices"][i].product = p
      BY <1>3, <2>2 DEF PriceRows, InForce
    <3> QED
      BY <3>1 DEF PriceRow
  <2>10. z[m + 1].product = p /\ z[m + 1].price = x /\ z[m + 1].to = None
    BY <2>5, <2>9, PriceFields
  <2>11. \A i \in 1 .. m + 1 : z[i] \in PriceRow
    BY <2>5
  <2>12. \A j \in 1 .. m + 1 : z[j].product = p /\ z[j].to = None <=> j = m + 1
    BY <2>5, <2>7, <2>10, <2>11, OnePriceOpen
  <2>13. \A i \in 1 .. m : <<"prices", i>> \in o => rows["prices"][i].product = p
    <3>1. \A a, b \in o : a[1] = "prices" /\ b[1] = "prices" => rows["prices"][a[2]].product = p
      BY <1>1, <1>2, <2>4 DEF PricesInv, PriceAt
    <3> QED
      BY <3>1
  <2>14. PICK k \in 1 .. m : \A j \in 1 .. m :
           rows["prices"][j].product = p /\ rows["prices"][j].to = None <=> j = k
    BY <1>3, <2>2 DEF PriceRows, InForce
  <2>15. <<"prices", k>> \in o
    BY <2>5, <2>12, <2>14
  <2>16. \A i \in 1 .. m : <<"prices", i>> \in o => i = k
    <3>1. \A a, b \in o : a[1] = "prices" /\ b[1] = "prices" => a = b
      BY <1>1, <2>4 DEF PricesInv, PriceAt
    <3> QED
      BY <2>15, <3>1
  <2>17. \A i \in 1 .. m : rows["prices"][i].to # None => z[i].to = rows["prices"][i].to
    BY <2>5, <2>14, <2>16
  <2>18. PricesGo
    <3>1. DOMAIN rows["prices"] \subseteq DOMAIN rows'["prices"]
      BY <2>2, <2>3, <2>5
    <3>2. \A i \in 1 .. m : /\ rows'["prices"][i].product = rows["prices"][i].product
                            /\ rows'["prices"][i].price = rows["prices"][i].price
                            /\ rows["prices"][i].to # None => rows'["prices"][i].to = rows["prices"][i].to
      BY <2>3, <2>5, <2>17
    <3> QED
      BY <1>1, <2>2, <3>1, <3>2 DEF PricesGo
  <2>19. ASSUME NEW q \in DOMAIN rows["products"] PROVE InForce(q)'
    <3>1. CASE q = p
      <4>1. z[m + 1].price = rows'["products"][q]["price"]
        BY <1>1, <1>2, <1>5, <2>1, <2>10, <3>1
      <4>2. DOMAIN z = 1 .. m + 1 /\ m + 1 \in 1 .. m + 1
        BY <2>5
      <4>3. \A j \in DOMAIN z : z[j].product = q /\ z[j].to = None <=> j = m + 1
        BY <2>12, <3>1, <4>2
      <4> QED
        BY <2>3, <4>1, <4>2, <4>3 DEF InForce
    <3>2. CASE q # p
      <4>1. PICK i \in 1 .. m : /\ rows["prices"][i].price = rows["products"][q]["price"]
                                /\ \A j \in 1 .. m : rows["prices"][j].product = q /\ rows["prices"][j].to = None <=> j = i
        <5>1. InForce(q)
          BY <1>3 DEF PriceRows
        <5> QED
          BY <2>2, <5>1 DEF InForce
      <4>2. \A j \in 1 .. m + 1 : z[j].product = q /\ z[j].to = None <=> j = i
        <5>1. \A j \in 1 .. m : <<"prices", j>> \in o => z[j].product # q /\ j # i
          BY <2>5, <2>13, <3>2, <4>1
        <5>2. \A j \in 1 .. m : z[j].product = q /\ z[j].to = None <=> j = i
          BY <2>5, <4>1, <5>1
        <5>3. \A j \in 1 .. m + 1 : j \in 1 .. m \/ j = m + 1
          OBVIOUS
        <5> QED
          BY <2>10, <3>2, <4>1, <5>2, <5>3
      <4>3. rows'["products"][q] = rows["products"][q]
        BY <1>1, <1>2, <3>2
      <4>4. i \in 1 .. m + 1 /\ z[i].price = rows'["products"][q]["price"]
        <5>1. z[i].price = rows["prices"][i].price
          BY <2>5
        <5> QED
          BY <4>1, <4>3, <5>1
      <4> QED
        BY <2>3, <2>5, <4>2, <4>4 DEF InForce
    <3> QED
      BY <3>1, <3>2
  <2>20. \A i \in 1 .. m + 1 : z[i].product \in DOMAIN rows["products"]
    <3>1. \A i \in 1 .. m : z[i].product \in DOMAIN rows["products"]
      BY <2>5, <2>8
    <3>2. z[m + 1].product \in DOMAIN rows["products"]
      BY <2>10
    <3>3. \A j \in 1 .. m + 1 : j \in 1 .. m \/ j = m + 1
      OBVIOUS
    <3> QED
      BY <3>1, <3>2, <3>3
  <2>21. PriceRows'
    BY <1>1, <2>3, <2>5, <2>19, <2>20 DEF PriceRows
  <2>22. IsTable(rows'["prices"])
    BY <2>3, <2>5 DEF IsTable
  <2>23. Tables'
    BY <1>7, <2>22
  <2> QED
    BY <1>1, <2>18, <2>21, <2>23
<1> QED
  BY <1>4, <1>5

-----------------------------------------------------------------------------
(* Taxes. *)

\* A version ends after it starts, on the day another of its tax starts.
TaxRows ==
  /\ rows["taxes"] \in Seq(TaxRow)
  /\ \A i \in DOMAIN rows["taxes"] : rows["taxes"][i].to # None =>
       /\ rows["taxes"][i].from < rows["taxes"][i].to
       /\ \E j \in DOMAIN rows["taxes"] :
            rows["taxes"][j].code = rows["taxes"][i].code /\ rows["taxes"][j].from = rows["taxes"][i].to

\* A handler closes versions of its tax that start before its own.
TaxAt(h) ==
  req[h].op = "create_tax_rate_version" /\ seen[h].old # None =>
    \A x \in seen[h].old :
      /\ x[2] \in DOMAIN rows["taxes"] /\ rows["taxes"][x[2]].code = req[h].code
      /\ rows["taxes"][x[2]].from < req[h].from

TaxesInv == TaxRows /\ \A h \in Handler : req[h] # None => TaxAt(h)

TaxesGo ==
  /\ DOMAIN rows["taxes"] \subseteq DOMAIN rows'["taxes"]
  /\ \A i \in DOMAIN rows["taxes"] :
       rows'["taxes"][i].code = rows["taxes"][i].code /\ rows'["taxes"][i].from = rows["taxes"][i].from

LEMMA ClosedTax ==
  ASSUME NEW row \in TaxRow, NEW d \in Int
  PROVE  /\ [row EXCEPT !.to = d] \in TaxRow /\ [row EXCEPT !.to = d].code = row.code
         /\ [row EXCEPT !.to = d].from = row.from /\ [row EXCEPT !.to = d].to = d
BY DEF TaxRow

LEMMA CreateTaxStep ==
  ASSUME Tables, Handlers, TaxesInv, NEW h \in Handler, CreateTaxRateVersion(h)
  PROVE  /\ AskedOnly /\ Tables' /\ Leave(h) /\ Leaves({"taxes"})
         /\ TaxRows' /\ TaxesGo
<1>1. req[h] # None /\ req[h].op = "create_tax_rate_version" /\ seen[h].old # None
  BY DEF CreateTaxRateVersion, Running
<1>2. PICK d \in Int : d = req[h].from
  BY <1>1, Requests DEF WellFormed
<1>3. PICK c \in STRING : c = req[h].code
  BY <1>1, Requests DEF WellFormed
<1>4. PICK o : o = seen[h].old
  OBVIOUS
<1>5. PICK n \in Nat : n = Len(rows["taxes"]) /\ DOMAIN rows["taxes"] = 1 .. n
  BY DEF TaxesInv, TaxRows
<1>6. PICK s : s = ClosedTaxes(h)
  OBVIOUS
<1>7. PICK y : y = [code |-> c, from |-> d, to |-> None]
  OBVIOUS
<1>8. "taxes" \in Table /\ Kept4 \subseteq Table /\ "taxes" \in Kept4 /\ {"taxes"} \intersect Form = {}
  BY KeptAreTables DEF Kept4, Form
<1>9. rows' = [rows EXCEPT !["taxes"] = Append(s, y)] /\ Leave(h)
  BY <1>2, <1>3, <1>6, <1>7 DEF CreateTaxRateVersion, Commit
<1>10. Leaves({"taxes"}) /\ rows'["taxes"] = Append(s, y)
  BY <1>8, <1>9 DEF Leaves, Tables
<1>11. \A i \in 1 .. n : rows["taxes"][i] \in TaxRow
  BY <1>5 DEF TaxesInv, TaxRows
<1>12. s = [i \in 1 .. n |-> s[i]]
  BY <1>5, <1>6 DEF ClosedTaxes
<1>13. ASSUME NEW i \in 1 .. n
       PROVE  /\ s[i] \in TaxRow /\ s[i].code = rows["taxes"][i].code
              /\ s[i].from = rows["taxes"][i].from
              /\ <<"taxes", i>> \notin o => s[i] = rows["taxes"][i]
              /\ <<"taxes", i>> \in o => s[i].to = d
  <2>1. s[i] = IF <<"taxes", i>> \in o THEN [rows["taxes"][i] EXCEPT !.to = d] ELSE rows["taxes"][i]
    BY <1>2, <1>4, <1>5, <1>6 DEF ClosedTaxes
  <2>2. PICK row \in TaxRow : row = rows["taxes"][i]
    BY <1>11
  <2>3. /\ [row EXCEPT !.to = d] \in TaxRow /\ [row EXCEPT !.to = d].code = row.code
        /\ [row EXCEPT !.to = d].from = row.from /\ [row EXCEPT !.to = d].to = d
    BY ClosedTax
  <2> QED
    BY <2>1, <2>2, <2>3
<1>14. s \in [1 .. n -> TaxRow]
  BY <1>12, <1>13
<1>15. s \in Seq(TaxRow) /\ Len(s) = n
  <2>1. s \in Seq(TaxRow)
    BY <1>14, SeqDef
  <2>2. Len(s) \in Nat /\ DOMAIN s = 1 .. Len(s)
    BY <2>1
  <2> QED
    BY <1>12, <2>1, <2>2
<1>16. y \in TaxRow /\ y.code = c /\ y.from = d /\ y.to = None
  BY <1>7 DEF TaxRow
<1>17. PICK z : z = rows'["taxes"]
  OBVIOUS
<1>18. /\ z \in Seq(TaxRow) /\ DOMAIN z = 1 .. n + 1 /\ z[n + 1] = y
       /\ \A i \in 1 .. n : z[i] = s[i]
  BY <1>10, <1>15, <1>16, <1>17
<1>19. IsTable(rows'["taxes"])
  BY <1>17, <1>18 DEF IsTable
<1>20. Tables'
  BY <1>8, <1>10, <1>19 DEF Tables, Leaves
<1>21. AskedOnly
  BY <1>8, <1>10, LeavesAsks
<1>22. TaxesGo
  <2>1. DOMAIN rows["taxes"] \subseteq DOMAIN rows'["taxes"]
    BY <1>5, <1>17, <1>18
  <2>2. \A i \in 1 .. n : z[i].code = rows["taxes"][i].code /\ z[i].from = rows["taxes"][i].from
    BY <1>13, <1>18
  <2> QED
    BY <1>5, <1>17, <2>1, <2>2 DEF TaxesGo
<1>23. ASSUME NEW i \in 1 .. n + 1, z[i].to # None
       PROVE  /\ z[i].from < z[i].to
              /\ \E j \in 1 .. n + 1 : z[j].code = z[i].code /\ z[j].from = z[i].to
  <2>1. i \in 1 .. n
    BY <1>16, <1>18, <1>23
  <2>2. CASE <<"taxes", i>> \in o
    <3>1. <<"taxes", i>>[2] = i
      OBVIOUS
    <3>2. rows["taxes"][i].code = c /\ rows["taxes"][i].from < d
      BY <1>1, <1>2, <1>3, <1>4, <2>2, <3>1 DEF TaxesInv, TaxAt
    <3>3. z[i].code = c /\ z[i].from < d /\ z[i].to = d
      BY <1>13, <1>18, <2>1, <2>2, <3>2
    <3>4. n + 1 \in 1 .. n + 1 /\ z[n + 1].code = c /\ z[n + 1].from = d
      BY <1>16, <1>18
    <3> QED
      BY <3>3, <3>4
  <2>3. CASE <<"taxes", i>> \notin o
    <3>1. z[i] = rows["taxes"][i]
      BY <1>13, <1>18, <2>1, <2>3
    <3>2. z[i].from < z[i].to
      BY <1>5, <1>23, <2>1, <3>1 DEF TaxesInv, TaxRows
    <3>3. PICK j \in 1 .. n : rows["taxes"][j].code = z[i].code /\ rows["taxes"][j].from = z[i].to
      BY <1>5, <1>23, <2>1, <3>1 DEF TaxesInv, TaxRows
    <3>4. j \in 1 .. n + 1 /\ z[j].code = z[i].code /\ z[j].from = z[i].to
      <4>1. z[j] = s[j] /\ j \in 1 .. n + 1
        BY <1>18
      <4>2. s[j].code = rows["taxes"][j].code /\ s[j].from = rows["taxes"][j].from
        BY <1>13
      <4> QED
        BY <3>3, <4>1, <4>2
    <3> QED
      BY <3>2, <3>4
  <2> QED
    BY <2>2, <2>3
<1>24. TaxRows'
  <2>1. DOMAIN rows'["taxes"] = 1 .. n + 1
    BY <1>17, <1>18
  <2> QED
    BY <1>17, <1>18, <1>23, <2>1 DEF TaxRows
<1> QED
  BY <1>9, <1>10, <1>20, <1>21, <1>22, <1>24

-----------------------------------------------------------------------------
(* Writes. *)

OfficeInv == Tables /\ Handlers /\ LoginsInv /\ PricesInv /\ TaxesInv

\* What a write leaves.
Grown ==
  /\ LoginRows' /\ PriceRows' /\ TaxRows'
  /\ DOMAIN rows["logins"] \subseteq DOMAIN rows'["logins"] /\ PricesGo /\ TaxesGo

LEMMA KeptLogins ==
  ASSUME LoginRows, rows'["logins"] = rows["logins"]
  PROVE  LoginRows' /\ DOMAIN rows["logins"] \subseteq DOMAIN rows'["logins"]
BY DEF LoginRows

LEMMA KeptTaxes ==
  ASSUME TaxRows, rows'["taxes"] = rows["taxes"]
  PROVE  TaxRows' /\ TaxesGo
BY DEF TaxRows, TaxesGo

LEMMA SameProducts == PriceRows /\ rows'["products"] = rows["products"] => ProductsKept
BY DEF ProductsKept, PriceRows

\* Grants and buttons, which are replaced.
LEMMA ReplaceStep ==
  ASSUME Tables, NEW h \in Handler,
         SetRolePermissions(h) \/ ReplacePanelItems(h) \/ DeletePanelItem(h)
  PROVE  \E t \in {"grants", "items"} : AskedOnly /\ Tables' /\ Leaves({t}) /\ Leave(h)
<1>1. /\ {"grants", "items"} \subseteq Table /\ {"grants", "items"} \intersect Form = {}
      /\ {"grants", "items"} \intersect Kept4 = {} /\ Kept4 \subseteq Table
  BY KeptAreTables, AccessAssumption, CatalogAssumption DEF Kept4, Form
<1>2. \E t \in {"grants", "items"} : \E y : rows' = [rows EXCEPT ![t] = y] /\ Leave(h)
  <2>1. CASE SetRolePermissions(h)
    BY <2>1 DEF SetRolePermissions, Commit
  <2>2. CASE ReplacePanelItems(h)
    BY <2>2 DEF ReplacePanelItems, Commit
  <2>3. CASE DeletePanelItem(h)
    <3>1. PICK n : n = req[h].id
      OBVIOUS
    <3>2. rows' = [rows EXCEPT !["items"] = [rows["items"] EXCEPT ![n] = None]] /\ Leave(h)
      BY <2>3, <3>1 DEF DeletePanelItem, Commit
    <3> QED
      BY <3>2
  <2> QED
    BY <2>1, <2>2, <2>3
<1>3. PICK t \in {"grants", "items"} : \E y : rows' = [rows EXCEPT ![t] = y] /\ Leave(h)
  BY <1>2
<1>4. Leaves({t}) /\ Leave(h)
  BY <1>3 DEF Leaves, Tables
<1>5. Tables'
  BY <1>1, <1>4 DEF Tables, Leaves
<1>6. AskedOnly
  BY <1>1, <1>4, LeavesAsks
<1> QED
  BY <1>4, <1>5, <1>6

\* A write that leaves the sessions, the prices and the taxes alone.
LEMMA QuietGrown ==
  ASSUME OfficeInv, NEW T, Leaves(T), {"logins", "prices", "taxes"} \intersect T = {}, ProductsKept
  PROVE  Grown /\ rows'["logins"] = rows["logins"]
<1>1. rows'["logins"] = rows["logins"] /\ rows'["prices"] = rows["prices"] /\ rows'["taxes"] = rows["taxes"]
  BY KeptAreTables DEF Leaves, Kept4
<1> QED
  BY <1>1, KeptLogins, KeptPrices, KeptTaxes DEF Grown, OfficeInv, LoginsInv, PricesInv, TaxesInv

LEMMA QuietWrite ==
  ASSUME OfficeInv, NEW h \in Handler,
         Inserts(h) \/ Updates(h) \/ Deletes(h) \/ RotateDeviceToken(h) \/ Reorder(h) \/ DeleteProduct(h)
           \/ SetRolePermissions(h) \/ ReplacePanelItems(h) \/ DeletePanelItem(h)
  PROVE  AskedOnly /\ Tables' /\ Leave(h) /\ Grown /\ rows'["logins"] = rows["logins"]
<1>1. Tables /\ Handlers /\ PriceRows
  BY DEF OfficeInv, PricesInv
<1>2. Form \intersect {"logins", "prices", "taxes"} = {} /\ {"grants", "items"} \intersect {"logins", "prices", "taxes"} = {}
      /\ "devices" \in Form /\ "products" \in Form /\ Form \subseteq Table
  BY KeptAreTables DEF Form, Kept4
<1>3. ASSUME NEW t \in Table \ {"products", "logins", "prices", "taxes"}, Leaves({t})
      PROVE  Grown /\ rows'["logins"] = rows["logins"]
  <2>1. ProductsKept
    BY <1>1, <1>2, <1>3, SameProducts DEF Leaves
  <2> QED
    BY <1>3, <2>1, QuietGrown
<1>4. CASE Inserts(h) \/ Updates(h) \/ Deletes(h)
  <2>1. PICK t \in Form \ {"products"} : AskedOnly /\ Tables' /\ Leaves({t}) /\ Leave(h)
    BY <1>1, <1>4, InsertStep, UpdateStep
  <2> QED
    BY <1>2, <1>3, <2>1
<1>5. CASE RotateDeviceToken(h)
  BY <1>1, <1>2, <1>3, <1>5, RotateStep
<1>6. CASE Reorder(h)
  <2>1. PICK t \in Form : AskedOnly /\ Tables' /\ Leaves({t}) /\ Leave(h) /\ ProductsKept
    BY <1>1, <1>6, ReorderStep
  <2> QED
    BY <1>2, <2>1, QuietGrown
<1>7. CASE DeleteProduct(h)
  <2>1. AskedOnly /\ Tables' /\ Leaves({"products"}) /\ Leave(h) /\ ProductsKept
    BY <1>1, <1>7, DeleteProductStep
  <2> QED
    BY <2>1, QuietGrown
<1>8. CASE SetRolePermissions(h) \/ ReplacePanelItems(h) \/ DeletePanelItem(h)
  <2>1. PICK t \in {"grants", "items"} : AskedOnly /\ Tables' /\ Leaves({t}) /\ Leave(h)
    BY <1>1, <1>8, ReplaceStep
  <2>2. t \in Table \ {"products", "logins", "prices", "taxes"}
    BY AccessAssumption, CatalogAssumption
  <2> QED
    BY <1>3, <2>1, <2>2
<1> QED
  BY <1>4, <1>5, <1>6, <1>7, <1>8

LEMMA LoginWrite ==
  ASSUME OfficeInv, NEW h \in Handler,
         Logout(h) \/ SetPassword(h) \/ SetPin(h) \/ IssueSession(h) \/ Refresh(h)
  PROVE  AskedOnly /\ Tables' /\ Leave(h) /\ Grown
<1>1. Tables /\ Handlers /\ LoginsInv /\ LoginRows /\ PriceRows /\ TaxRows
  BY DEF OfficeInv, LoginsInv, PricesInv, TaxesInv
<1>2. /\ AskedOnly /\ Tables' /\ Leave(h) /\ (LoginsGo \/ \E f : LoginsGrow(f))
      /\ Leaves({"logins"}) \/ Leaves({"users", "logins"})
  BY <1>1, LogoutStep, CredentialStep, IssueStep, RefreshStep
<1>3. LoginRows' /\ DOMAIN rows["logins"] \subseteq DOMAIN rows'["logins"]
  BY <1>1, <1>2, GoneLogins, GrownLogins
<1>4. rows'["prices"] = rows["prices"] /\ rows'["taxes"] = rows["taxes"] /\ rows'["products"] = rows["products"]
  BY <1>2, KeptAreTables DEF Leaves, Kept4, Form
<1>5. ProductsKept
  BY <1>1, <1>4, SameProducts
<1> QED
  BY <1>1, <1>2, <1>3, <1>4, <1>5, KeptPrices, KeptTaxes DEF Grown

LEMMA HistoryWrite ==
  ASSUME OfficeInv, NEW h \in Handler,
         CreateProduct(h) \/ UpdateProduct(h) \/ CreateTaxRateVersion(h)
  PROVE  AskedOnly /\ Tables' /\ Leave(h) /\ Grown /\ rows'["logins"] = rows["logins"]
<1>1. Tables /\ Handlers /\ PricesInv /\ TaxesInv /\ LoginRows /\ PriceRows /\ TaxRows
  BY DEF OfficeInv, LoginsInv, PricesInv, TaxesInv
<1>2. {"logins", "taxes", "prices", "products"} \subseteq Table
  BY KeptAreTables DEF Kept4, Form
<1>3. CASE CreateProduct(h) \/ UpdateProduct(h)
  <2>1. /\ AskedOnly /\ Tables' /\ Leave(h) /\ PriceRows' /\ PricesGo
        /\ Leaves({"products", "prices", "barcodes", "tierPrices"})
    BY <1>1, <1>3, CreateProductStep, UpdateProductStep
  <2>2. rows'["logins"] = rows["logins"] /\ rows'["taxes"] = rows["taxes"]
    BY <1>2, <2>1 DEF Leaves
  <2> QED
    BY <1>1, <2>1, <2>2, KeptLogins, KeptTaxes DEF Grown
<1>4. CASE CreateTaxRateVersion(h)
  <2>1. AskedOnly /\ Tables' /\ Leave(h) /\ Leaves({"taxes"}) /\ TaxRows' /\ TaxesGo
    BY <1>1, <1>4, CreateTaxStep
  <2>2. rows'["logins"] = rows["logins"] /\ rows'["prices"] = rows["prices"] /\ rows'["products"] = rows["products"]
    BY <1>2, <2>1 DEF Leaves
  <2>3. ProductsKept
    BY <1>1, <2>2, SameProducts
  <2> QED
    BY <1>1, <2>1, <2>2, <2>3, KeptLogins, KeptPrices DEF Grown
<1> QED
  BY <1>3, <1>4

-----------------------------------------------------------------------------
(* Every step keeps the invariant. *)

LEMMA SameRows ==
  ASSUME OfficeInv, rows' = rows
  PROVE  Tables' /\ Grown /\ AskedOnly
<1>1. Tables' /\ AskedOnly
  BY DEF OfficeInv, Tables, AskedOnly
<1>2. LoginRows /\ PriceRows /\ TaxRows
  BY DEF OfficeInv, LoginsInv, PricesInv, TaxesInv
<1>3. ProductsKept
  BY <1>2, SameProducts
<1> QED
  BY <1>1, <1>2, <1>3, KeptLogins, KeptPrices, KeptTaxes DEF Grown

\* A handler that takes no step stays where it was.
LEMMA StaysAt ==
  ASSUME OfficeInv, Grown, NEW g \in Handler, req'[g] = req[g], seen'[g] = seen[g], req[g] # None
  PROVE  LoginAt(g)' /\ PriceAt(g)' /\ TaxAt(g)'
<1>1. LoginAt(g) /\ PriceAt(g) /\ TaxAt(g)
  BY DEF OfficeInv, LoginsInv, PricesInv, TaxesInv
<1>2. LoginAt(g)'
  BY <1>1 DEF LoginAt, Grown
<1>3. PriceAt(g)'
  BY <1>1 DEF PriceAt, Grown, PricesGo
<1>4. TaxAt(g)'
  BY <1>1 DEF TaxAt, Grown, TaxesGo
<1> QED
  BY <1>2, <1>3, <1>4

LEMMA LeftInv ==
  ASSUME OfficeInv, NEW h \in Handler, Tables', Grown, Leave(h)
  PROVE  OfficeInv'
<1>1. Handlers' /\ req'[h] = None /\ Others(h)
  BY LeaveIs DEF OfficeInv
<1>2. \A g \in Handler : req'[g] # None => LoginAt(g)' /\ PriceAt(g)' /\ TaxAt(g)'
  BY <1>1, StaysAt DEF Others
<1> QED
  BY <1>1, <1>2 DEF OfficeInv, Grown, LoginsInv, PricesInv, TaxesInv

LEMMA MovedInv ==
  ASSUME OfficeInv, NEW h \in Handler, Tables', Handlers', Grown, Others(h),
         LoginAt(h)', PriceAt(h)', TaxAt(h)'
  PROVE  OfficeInv'
<1>1. \A g \in Handler : req'[g] # None => LoginAt(g)' /\ PriceAt(g)' /\ TaxAt(g)'
  BY StaysAt DEF Others
<1> QED
  BY <1>1 DEF OfficeInv, Grown, LoginsInv, PricesInv, TaxesInv

LEMMA BeginInv ==
  ASSUME OfficeInv, NEW h \in Handler, NEW r \in Request,
         BeginAuth(h, r) \/ BeginAdmin(h, r) \/ BeginEdit(h, r)
  PROVE  OfficeInv' /\ AskedOnly /\ Grown
<1>1. "update_product" \in CatalogOp /\ "update_product" \notin AuthOp /\ LoginOp \subseteq AuthOp /\ "refresh" \in AuthOp
  BY DEF CatalogOp, CatalogTable, AuthOp, LoginOp
<1>2. \E row :
        /\ Begin(h, r, row)
        /\ r.op \in LoginOp => row.user \in Ids("users")
        /\ r.op = "refresh" => Live(r.id) /\ row = rows["logins"][r.id]
        /\ r.op = "update_product" => r.id \in Ids("products")
  <2>1. CASE BeginAuth(h, r)
    BY <1>1, <2>1, AuthStart
  <2>2. CASE BeginAdmin(h, r)
    BY <1>1, <2>2, AdminStart
  <2>3. CASE BeginEdit(h, r)
    BY <1>1, <2>3, EditStart
  <2> QED
    BY <2>1, <2>2, <2>3
<1>3. PICK row :
        /\ Begin(h, r, row)
        /\ r.op \in LoginOp => row.user \in Ids("users")
        /\ r.op = "refresh" => Live(r.id) /\ row = rows["logins"][r.id]
        /\ r.op = "update_product" => r.id \in Ids("products")
  BY <1>2
<1>4. /\ Handlers' /\ rows' = rows /\ r # None /\ req'[h] = r /\ Others(h)
      /\ seen'[h].row = row /\ seen'[h].old = None
  BY <1>3, BeginIs DEF OfficeInv
<1>5. Tables' /\ Grown /\ AskedOnly
  BY <1>4, SameRows
<1>6. LoginAt(h)'
  <2>1. r.op = "refresh" => r.id \in DOMAIN rows["logins"] /\ row.user \in Nat
    <3>1. Live(r.id) => r.id \in DOMAIN rows["logins"]
      BY DEF Live, Exists, Ids
    <3>2. \A s \in DOMAIN rows["logins"] : rows["logins"][s] \in LoginRow
      BY DEF OfficeInv, LoginsInv, LoginRows
    <3>3. \A s \in DOMAIN rows["logins"] : rows["logins"][s].user \in Nat
      BY <3>2 DEF LoginRow
    <3> QED
      BY <1>3, <3>1, <3>3
  <2>2. r.op \in LoginOp => row.user \in Nat
    <3>1. IsTable(rows["users"])
      BY DEF OfficeInv, Tables, Kept4, Form
    <3>2. Ids("users") \subseteq Nat
      BY <3>1, TableAppend DEF Ids
    <3> QED
      BY <1>3, <3>2
  <2> QED
    BY <1>4, <2>1, <2>2 DEF LoginAt
<1>7. PriceAt(h)'
  BY <1>3, <1>4 DEF PriceAt, Ids
<1>8. TaxAt(h)'
  BY <1>4 DEF TaxAt
<1> QED
  BY <1>4, <1>5, <1>6, <1>7, <1>8, MovedInv

LEMMA GatherInv ==
  ASSUME OfficeInv, NEW h \in Handler, GatherAccess(h) \/ GatherCatalog(h)
  PROVE  OfficeInv' /\ AskedOnly /\ Grown
<1>1. \E old :
        /\ Gather(h, old) /\ req[h] # None
        /\ req[h].op = "update_product" => old = Replaced(h)
        /\ req[h].op = "create_tax_rate_version" =>
             \/ old = {}
             \/ \E i \in CurrentTax(req[h].code) : rows.taxes[i].from < req[h].from /\ old = {<<"taxes", i>>}
  <2>1. CASE GatherAccess(h)
    BY <2>1 DEF GatherAccess, Running
  <2>2. CASE GatherCatalog(h)
    BY <2>2 DEF GatherCatalog, Running
  <2> QED
    BY <2>1, <2>2
<1>2. PICK old :
        /\ Gather(h, old) /\ req[h] # None
        /\ req[h].op = "update_product" => old = Replaced(h)
        /\ req[h].op = "create_tax_rate_version" =>
             \/ old = {}
             \/ \E i \in CurrentTax(req[h].code) : rows.taxes[i].from < req[h].from /\ old = {<<"taxes", i>>}
  BY <1>1
<1>3. /\ Handlers' /\ rows' = rows /\ req' = req /\ Others(h)
      /\ seen'[h].row = seen[h].row /\ seen'[h].old = old
  BY <1>2, GatherIs DEF OfficeInv
<1>4. Tables' /\ Grown /\ AskedOnly
  BY <1>3, SameRows
<1>5. LoginAt(h)'
  BY <1>2, <1>3 DEF OfficeInv, LoginsInv, LoginAt
<1>6. ASSUME req[h].op = "update_product", NEW x \in old, NEW y \in old, x[1] = "prices", y[1] = "prices"
      PROVE  x = y /\ x[2] \in DOMAIN rows["prices"] /\ rows["prices"][x[2]].product = req[h].id
  <2>1. req[h].id \in DOMAIN rows["products"]
    BY <1>2, <1>6 DEF OfficeInv, PricesInv, PriceAt
  <2>2. InForce(req[h].id)
    BY <2>1 DEF OfficeInv, PricesInv, PriceRows
  <2>3. PICK i \in DOMAIN rows["prices"] : \A j \in DOMAIN rows["prices"] :
          rows["prices"][j].product = req[h].id /\ rows["prices"][j].to = None <=> j = i
    BY <2>2 DEF InForce
  <2>4. CurrentPrice(req[h].id) \subseteq {i}
    BY <2>3 DEF CurrentPrice, Where, Ids
  <2>5. old = Replaced(h)
    BY <1>2, <1>6
  <2>6. ASSUME NEW w \in old, w[1] = "prices" PROVE w = <<"prices", i>>
    <3>1. \/ w \in RowsOf("prices", CurrentPrice(req[h].id))
          \/ w \in RowsOf("barcodes", Where("barcodes", "product", req[h].id))
          \/ w \in RowsOf("tierPrices", Where("tierPrices", "product", req[h].id))
      BY <2>5, <2>6 DEF Replaced
    <3>2. w \in RowsOf("prices", CurrentPrice(req[h].id))
      BY <2>6, <3>1 DEF RowsOf
    <3> QED
      BY <2>4, <3>2 DEF RowsOf
  <2>7. x = <<"prices", i>> /\ y = <<"prices", i>>
    BY <1>6, <2>6
  <2>8. x[2] = i
    BY <2>7
  <2> QED
    BY <2>3, <2>7, <2>8
<1>7. PriceAt(h)'
  <2>1. req[h].op = "update_product" => req[h].id \in DOMAIN rows["products"]
    BY <1>2 DEF OfficeInv, PricesInv, PriceAt
  <2> QED
    BY <1>3, <1>6, <2>1 DEF PriceAt
<1>8. ASSUME req[h].op = "create_tax_rate_version", NEW x \in old
      PROVE  /\ x[2] \in DOMAIN rows["taxes"] /\ rows["taxes"][x[2]].code = req[h].code
             /\ rows["taxes"][x[2]].from < req[h].from
  <2>1. PICK i \in CurrentTax(req[h].code) : rows["taxes"][i].from < req[h].from /\ old = {<<"taxes", i>>}
    BY <1>2, <1>8
  <2>2. x[2] = i
    BY <1>8, <2>1
  <2>3. i \in DOMAIN rows["taxes"] /\ rows["taxes"][i].code = req[h].code
    BY <2>1 DEF CurrentTax, Where, Ids
  <2> QED
    BY <2>1, <2>2, <2>3
<1>9. TaxAt(h)'
  BY <1>3, <1>8 DEF TaxAt
<1> QED
  BY <1>3, <1>4, <1>5, <1>7, <1>9, MovedInv

LEMMA ExpireInv ==
  ASSUME OfficeInv, NEW s, Expire(s)
  PROVE  OfficeInv' /\ AskedOnly /\ Grown
<1>1. Tables /\ LoginRows /\ PriceRows /\ TaxRows
  BY DEF OfficeInv, LoginsInv, PricesInv, TaxesInv
<1>2. AskedOnly /\ Tables' /\ Leaves({"logins"}) /\ LoginsGo
  BY <1>1, ExpireStep
<1>3. LoginRows' /\ DOMAIN rows["logins"] \subseteq DOMAIN rows'["logins"]
  BY <1>1, <1>2, GoneLogins
<1>4. rows'["prices"] = rows["prices"] /\ rows'["taxes"] = rows["taxes"] /\ rows'["products"] = rows["products"]
  BY <1>2, KeptAreTables DEF Leaves, Kept4, Form
<1>5. Grown
  BY <1>1, <1>3, <1>4, SameProducts, KeptPrices, KeptTaxes DEF Grown
<1>6. asks' = asks /\ req' = req /\ seen' = seen
  BY DEF Expire
<1>7. Handlers'
  BY <1>6 DEF OfficeInv, Handlers
<1>8. \A g \in Handler : req'[g] # None => LoginAt(g)' /\ PriceAt(g)' /\ TaxAt(g)'
  BY <1>5, <1>6, StaysAt
<1>9. OfficeInv'
  BY <1>2, <1>5, <1>7, <1>8 DEF OfficeInv, Grown, LoginsInv, PricesInv, TaxesInv
<1> QED
  BY <1>2, <1>5, <1>9

LEMMA WriteInv ==
  ASSUME OfficeInv, NEW h \in Handler, AccessWrite(h) \/ CatalogWrite(h)
  PROVE  OfficeInv' /\ AskedOnly /\ Grown
<1>1. \/ Inserts(h) \/ Updates(h) \/ Deletes(h) \/ RotateDeviceToken(h) \/ Reorder(h) \/ DeleteProduct(h)
         \/ SetRolePermissions(h) \/ ReplacePanelItems(h) \/ DeletePanelItem(h)
      \/ Logout(h) \/ SetPassword(h) \/ SetPin(h) \/ IssueSession(h) \/ Refresh(h)
      \/ CreateProduct(h) \/ UpdateProduct(h) \/ CreateTaxRateVersion(h)
  BY DEF AccessWrite, CatalogWrite, Inserts, Updates, Deletes
<1>2. AskedOnly /\ Tables' /\ Leave(h) /\ Grown
  BY <1>1, QuietWrite, LoginWrite, HistoryWrite
<1> QED
  BY <1>2, LeftInv

LEMMA NextOfficeInv == OfficeInv /\ [OfficeNext]_deskVars => OfficeInv' /\ AskedOnly /\ Grown
<1> SUFFICES ASSUME OfficeInv, [OfficeNext]_deskVars PROVE OfficeInv' /\ AskedOnly /\ Grown
  OBVIOUS
<1>1. CASE UNCHANGED deskVars
  <2>1. rows' = rows /\ asks' = asks /\ req' = req /\ seen' = seen
    BY <1>1 DEF deskVars
  <2>2. Tables' /\ Grown /\ AskedOnly
    BY <2>1, SameRows
  <2>3. Handlers'
    BY <2>1 DEF OfficeInv, Handlers
  <2>4. \A g \in Handler : req'[g] # None => LoginAt(g)' /\ PriceAt(g)' /\ TaxAt(g)'
    BY <2>1, <2>2, StaysAt
  <2> QED
    BY <2>2, <2>3, <2>4 DEF OfficeInv, Grown, LoginsInv, PricesInv, TaxesInv
<1>2. ASSUME NEW h \in Handler, NEW r \in Request, BeginAuth(h, r) \/ BeginAdmin(h, r) \/ BeginEdit(h, r)
      PROVE  OfficeInv' /\ AskedOnly /\ Grown
  BY <1>2, BeginInv
<1>3. ASSUME NEW h \in Handler, GatherAccess(h) \/ GatherCatalog(h)
      PROVE  OfficeInv' /\ AskedOnly /\ Grown
  BY <1>3, GatherInv
<1>4. ASSUME NEW h \in Handler, AccessWrite(h) \/ CatalogWrite(h)
      PROVE  OfficeInv' /\ AskedOnly /\ Grown
  BY <1>4, WriteInv
<1>5. ASSUME NEW h \in Handler, Rollback(h) PROVE OfficeInv' /\ AskedOnly /\ Grown
  <2>1. rows' = rows /\ Leave(h)
    BY <1>5 DEF Rollback
  <2> QED
    BY <2>1, SameRows, LeftInv
<1>6. ASSUME NEW s, Expire(s) PROVE OfficeInv' /\ AskedOnly /\ Grown
  BY <1>6, ExpireInv
<1> QED
  BY <1>1, <1>2, <1>3, <1>4, <1>5, <1>6 DEF OfficeNext

LEMMA InitOfficeInv == DeskInit => OfficeInv
<1> SUFFICES ASSUME DeskInit PROVE OfficeInv
  OBVIOUS
<1>1. Tables /\ Handlers
  BY InitTables
<1>2. rows = First /\ \A h \in Handler : req[h] = None
  BY DEF DeskInit
<1>3. LoginRows
  <2>1. PICK s : s = First["logins"]
    OBVIOUS
  <2>2. s \in Seq([user : Nat, revoked : BOOLEAN, expired : BOOLEAN, from : {None}])
    BY <2>1, AccessAssumption
  <2>3. PICK n \in Nat : n = Len(s) /\ DOMAIN s = 1 .. n
    BY <2>2
  <2>4. \A i \in 1 .. n : s[i] \in LoginRow /\ s[i].from = None
    <3>1. \A i \in 1 .. n : s[i] \in [user : Nat, revoked : BOOLEAN, expired : BOOLEAN, from : {None}]
      <4>1. PICK S : S = [user : Nat, revoked : BOOLEAN, expired : BOOLEAN, from : {None}]
        OBVIOUS
      <4>2. s \in Seq(S)
        BY <2>2, <4>1
      <4>3. \A i \in 1 .. n : s[i] \in S
        BY <2>3, <4>2
      <4> QED
        BY <4>1, <4>3
    <3>2. \A x \in [user : Nat, revoked : BOOLEAN, expired : BOOLEAN, from : {None}] :
            x \in LoginRow /\ x.from = None
      BY DEF LoginRow
    <3> QED
      BY <3>1, <3>2
  <2>5. s \in Seq(LoginRow)
    <3>1. s = [i \in 1 .. n |-> s[i]]
      BY <2>2, <2>3
    <3>2. s \in [1 .. n -> LoginRow]
      BY <2>4, <3>1
    <3> QED
      BY <3>2, SeqDef
  <2> QED
    BY <1>2, <2>1, <2>3, <2>4, <2>5 DEF LoginRows
<1>4. PriceRows
  BY <1>2, CatalogAssumption DEF PriceRows, InForce
<1>5. TaxRows
  <2>1. PICK s : s = First["taxes"]
    OBVIOUS
  <2>2. s \in Seq([code : STRING, from : Int, to : {None}])
    BY <2>1, CatalogAssumption
  <2>3. PICK n \in Nat : n = Len(s) /\ DOMAIN s = 1 .. n
    BY <2>2
  <2>4. \A i \in 1 .. n : s[i] \in TaxRow /\ s[i].to = None
    <3>1. \A i \in 1 .. n : s[i] \in [code : STRING, from : Int, to : {None}]
      <4>1. PICK S : S = [code : STRING, from : Int, to : {None}]
        OBVIOUS
      <4>2. s \in Seq(S)
        BY <2>2, <4>1
      <4>3. \A i \in 1 .. n : s[i] \in S
        BY <2>3, <4>2
      <4> QED
        BY <4>1, <4>3
    <3>2. \A x \in [code : STRING, from : Int, to : {None}] : x \in TaxRow /\ x.to = None
      BY DEF TaxRow
    <3> QED
      BY <3>1, <3>2
  <2>5. s \in Seq(TaxRow)
    <3>1. s = [i \in 1 .. n |-> s[i]]
      BY <2>2, <2>3
    <3>2. s \in [1 .. n -> TaxRow]
      BY <2>4, <3>1
    <3> QED
      BY <3>2, SeqDef
  <2> QED
    BY <1>2, <2>1, <2>3, <2>4, <2>5 DEF TaxRows
<1> QED
  BY <1>1, <1>2, <1>3, <1>4, <1>5 DEF OfficeInv, LoginsInv, PricesInv, TaxesInv

LEMMA OfficeInvariance == OfficeSpec => []OfficeInv
<1>1. OfficeInv /\ [OfficeNext]_deskVars => OfficeInv'
  BY NextOfficeInv
<1> QED
  BY <1>1, InitOfficeInv, PTL DEF OfficeSpec

-----------------------------------------------------------------------------
(* Types. *)

\* A write ends its request, and no table it wrote is beyond its bound.
Commits(h) == Leave(h) /\ \A t \in Table : rows'[t] = rows[t] \/ Len(rows'[t]) <= MaxRows[t]

LEMMA CommitsAll ==
  ASSUME NEW h
  PROVE  \A tables : Commit(h, tables) => Commits(h)
<1>1. ASSUME NEW tables, Commit(h, tables) PROVE Commits(h)
  BY <1>1 DEF Commit, Commits
<1> QED
  BY <1>1

LEMMA EditsCommit ==
  ASSUME NEW h
  PROVE  /\ \A t, row : Insert(h, t, row) => Commits(h)
         /\ \A t, fields : Update(h, t, fields) => Commits(h)
BY CommitsAll, Zenon DEF Insert, Update

LEMMA AccessCommits ==
  ASSUME NEW h, AccessWrite(h)
  PROVE  Commits(h)
<1>1. CASE IssueSession(h)
  BY <1>1, EditsCommit DEF IssueSession
<1>2. CASE Refresh(h)
  BY <1>2, CommitsAll, Zenon DEF Refresh
<1>3. CASE Logout(h)
  BY <1>3, CommitsAll, Zenon DEF Logout
<1>4. CASE CreateUser(h) \/ CreateRole(h) \/ CreateTerminal(h) \/ EnrollDevice(h) \/ CreatePaymentMethod(h)
  BY <1>4, EditsCommit DEF CreateUser, CreateRole, CreateTerminal, EnrollDevice, CreatePaymentMethod
<1>5. CASE UpdateUser(h) \/ UpdateRole(h) \/ UpdateTerminal(h) \/ UpdateDevice(h) \/ UpdatePaymentMethod(h)
  BY <1>5, EditsCommit DEF UpdateUser, UpdateRole, UpdateTerminal, UpdateDevice, UpdatePaymentMethod
<1>6. CASE DeactivateTerminal(h) \/ DeactivateDevice(h) \/ DeactivatePaymentMethod(h)
  BY <1>6, EditsCommit DEF DeactivateTerminal, DeactivateDevice, DeactivatePaymentMethod
<1>7. CASE SetPassword(h) \/ SetPin(h)
  BY <1>7, CommitsAll, Zenon DEF SetPassword, SetPin, SetCredential
<1>8. CASE SetRolePermissions(h)
  BY <1>8, CommitsAll, Zenon DEF SetRolePermissions
<1>9. CASE RotateDeviceToken(h)
  BY <1>9, CommitsAll, Zenon DEF RotateDeviceToken
<1> QED
  BY <1>1, <1>2, <1>3, <1>4, <1>5, <1>6, <1>7, <1>8, <1>9 DEF AccessWrite

LEMMA CatalogCommits ==
  ASSUME NEW h, CatalogWrite(h)
  PROVE  Commits(h)
<1>1. CASE CreateDepartment(h) \/ CreateCategory(h) \/ CreatePriceTier(h) \/ CreatePanel(h) \/ CreateSubpanel(h)
  BY <1>1, EditsCommit DEF CreateDepartment, CreateCategory, CreatePriceTier, CreatePanel, CreateSubpanel
<1>2. CASE UpdateDepartment(h) \/ UpdateCategory(h) \/ UpdatePriceTier(h) \/ UpdatePanel(h) \/ UpdateSubpanel(h)
  BY <1>2, EditsCommit DEF UpdateDepartment, UpdateCategory, UpdatePriceTier, UpdatePanel, UpdateSubpanel
<1>3. CASE DeleteDepartment(h) \/ DeleteCategory(h) \/ DeleteProduct(h) \/ DeletePanel(h) \/ DeleteSubpanel(h)
  BY <1>3, EditsCommit DEF DeleteDepartment, DeleteCategory, DeleteProduct, DeletePanel, DeleteSubpanel
<1>4. CASE Reorder(h)
  BY <1>4, CommitsAll, Zenon DEF Reorder
<1>5. CASE CreateProduct(h)
  BY <1>5, CommitsAll, Zenon DEF CreateProduct
<1>6. CASE UpdateProduct(h)
  BY <1>6, CommitsAll, Zenon DEF UpdateProduct
<1>7. CASE CreateTaxRateVersion(h)
  BY <1>7, CommitsAll, Zenon DEF CreateTaxRateVersion
<1>8. CASE ReplacePanelItems(h)
  BY <1>8, CommitsAll, Zenon DEF ReplacePanelItems
<1>9. CASE DeletePanelItem(h)
  BY <1>9, CommitsAll, Zenon DEF DeletePanelItem
<1> QED
  BY <1>1, <1>2, <1>3, <1>4, <1>5, <1>6, <1>7, <1>8, <1>9 DEF CatalogWrite

\* What DeskTypeOK adds to Tables and Handlers.
Bounded ==
  /\ \A t \in Table : Len(rows[t]) <= MaxRows[t]
  /\ \A h \in Handler : req[h] = None => seen[h] = Unread

LEMMA NextBounded == OfficeInv /\ Bounded /\ [OfficeNext]_deskVars => Bounded'
<1> SUFFICES ASSUME OfficeInv, Bounded, [OfficeNext]_deskVars PROVE Bounded'
  OBVIOUS
<1>1. Handlers /\ DOMAIN seen = Handler /\ DOMAIN req = Handler
  BY DEF OfficeInv, Handlers
<1>2. ASSUME NEW h \in Handler, NEW r \in Request, BeginAuth(h, r) \/ BeginAdmin(h, r) \/ BeginEdit(h, r)
      PROVE  Bounded'
  <2>1. PICK row : Begin(h, r, row)
    BY <1>2, AuthStart, AdminStart, EditStart
  <2>2. rows' = rows /\ r # None /\ req'[h] = r /\ Others(h)
    BY <1>1, <2>1, BeginIs
  <2> QED
    BY <2>2 DEF Bounded, Others
<1>3. ASSUME NEW h \in Handler, GatherAccess(h) \/ GatherCatalog(h) PROVE Bounded'
  <2>1. req[h] # None /\ \E old : Gather(h, old)
    BY <1>3 DEF GatherAccess, GatherCatalog, Running
  <2>2. rows' = rows /\ req' = req /\ Others(h)
    BY <1>1, <2>1, GatherIs
  <2> QED
    BY <2>1, <2>2 DEF Bounded, Others
<1>4. ASSUME NEW h \in Handler, Leave(h), \A t \in Table : Len(rows'[t]) <= MaxRows[t] PROVE Bounded'
  <2>1. seen'[h] = Unread /\ Others(h)
    BY <1>1, <1>4, LeaveIs DEF Leave
  <2> QED
    BY <1>4, <2>1 DEF Bounded, Others
<1>5. ASSUME NEW h \in Handler, AccessWrite(h) \/ CatalogWrite(h) PROVE Bounded'
  <2>1. Commits(h)
    BY <1>5, AccessCommits, CatalogCommits
  <2> QED
    BY <1>4, <2>1 DEF Bounded, Commits
<1>6. ASSUME NEW h \in Handler, Rollback(h) PROVE Bounded'
  BY <1>4, <1>6 DEF Rollback, Bounded
<1>7. ASSUME NEW s, Expire(s) PROVE Bounded'
  <2>1. /\ rows' = [rows EXCEPT !["logins"] = [rows["logins"] EXCEPT ![s] = [rows["logins"][s] EXCEPT !.expired = TRUE]]]
        /\ req' = req /\ seen' = seen
    BY <1>7 DEF Expire
  <2>2. DOMAIN rows = Table /\ rows["logins"] \in Seq(LoginRow)
    BY DEF OfficeInv, Tables, LoginsInv, LoginRows
  <2>3. PICK c : c = [rows["logins"] EXCEPT ![s] = [rows["logins"][s] EXCEPT !.expired = TRUE]]
    OBVIOUS
  <2>4. PICK n \in Nat : n = Len(rows["logins"]) /\ DOMAIN rows["logins"] = 1 .. n
    BY <2>2
  <2>5. Len(c) = n
    <3>1. DOMAIN c = 1 .. n /\ c = [i \in 1 .. n |-> c[i]]
      BY <2>3, <2>4
    <3>2. PICK T : T = {c[i] : i \in 1 .. n}
      OBVIOUS
    <3>3. c \in [1 .. n -> T]
      BY <3>1, <3>2
    <3>4. c \in Seq(T)
      BY <3>3, SeqDef
    <3>5. Len(c) \in Nat /\ DOMAIN c = 1 .. Len(c)
      BY <3>4
    <3> QED
      BY <2>4, <3>1, <3>5
  <2>6. \A t \in Table : rows'[t] = IF t = "logins" THEN c ELSE rows[t]
    BY <2>1, <2>2, <2>3
  <2> QED
    BY <2>1, <2>4, <2>5, <2>6 DEF Bounded
<1>8. CASE UNCHANGED deskVars
  BY <1>8 DEF deskVars, Bounded
<1> QED
  BY <1>2, <1>3, <1>5, <1>6, <1>7, <1>8 DEF OfficeNext

\* Types, the bounds of the tables, and that no request leaves anything it read.
THEOREM DeskTypeOKHolds == OfficeSpec => []DeskTypeOK
<1>1. DeskInit => Bounded
  BY DeskAssumption DEF DeskInit, Bounded
<1>2. OfficeInv /\ Bounded => DeskTypeOK
  BY DEF OfficeInv, Tables, Handlers, Bounded, DeskTypeOK
<1> QED
  BY <1>1, <1>2, InitOfficeInv, NextOfficeInv, NextBounded, PTL DEF OfficeSpec

-----------------------------------------------------------------------------
(* The properties. *)

\* The sessions that came from one, counted with the refreshes of it under way.
Born(s)  == {x \in DOMAIN rows["logins"] : rows["logins"][x].from = s}
Spent(s) == Cardinality(Born(s)) + Cardinality(Refreshing(s)) <= Cardinality(Handler)
Spared   == \A s \in DOMAIN rows["logins"] : Spent(s)

\* Neither more sessions nor more refreshes.
Calms(s) == Born(s)' \subseteq Born(s) /\ Refreshing(s)' \subseteq Refreshing(s)

\* A refresh under way becomes a session.
Renews(s) ==
  \E h \in Refreshing(s) : \E n :
    Born(s)' \subseteq Born(s) \union {n} /\ Refreshing(s)' \subseteq Refreshing(s) \ {h}

LEMMA BornFinite ==
  ASSUME LoginRows, NEW s
  PROVE  IsFiniteSet(Born(s)) /\ Cardinality(Born(s)) \in Nat
<1>1. PICK n \in Nat : DOMAIN rows["logins"] = 1 .. n
  BY DEF LoginRows
<1>2. IsFiniteSet(1 .. n)
  BY <1>1, FS_Interval
<1>3. Born(s) \subseteq 1 .. n
  BY <1>1 DEF Born
<1> QED
  BY <1>2, <1>3, FS_Subset, FS_CardinalityType

LEMMA RefreshingFinite ==
  ASSUME NEW s
  PROVE  /\ IsFiniteSet(Refreshing(s)) /\ Cardinality(Refreshing(s)) \in Nat
         /\ Cardinality(Handler) \in Nat /\ Cardinality(Refreshing(s)) <= Cardinality(Handler)
<1>1. IsFiniteSet(Handler)
  BY DeskAssumption
<1>2. Refreshing(s) \subseteq Handler
  BY DEF Refreshing
<1> QED
  BY <1>1, <1>2, FS_Subset, FS_CardinalityType

LEMMA RefreshingFiniteNext ==
  ASSUME NEW s
  PROVE  /\ IsFiniteSet(Refreshing(s)') /\ Cardinality(Refreshing(s)') \in Nat
         /\ Cardinality(Refreshing(s)') <= Cardinality(Handler)
<1>1. IsFiniteSet(Handler)
  BY DeskAssumption
<1>2. Refreshing(s)' \subseteq Handler
  BY DEF Refreshing
<1> QED
  BY <1>1, <1>2, FS_Subset, FS_CardinalityType

\* Neither set grows, or one gets what the other loses.
Handed(A, B, A2, B2) ==
  \/ A2 \subseteq A /\ B2 \subseteq B
  \/ \E b \in B : \E n : A2 \subseteq A \union {n} /\ B2 \subseteq B \ {b}

LEMMA Counted ==
  ASSUME NEW A, IsFiniteSet(A), NEW B, IsFiniteSet(B), NEW N \in Nat,
         Cardinality(A) + Cardinality(B) <= N,
         NEW A2, NEW B2, Handed(A, B, A2, B2)
  PROVE  Cardinality(A2) + Cardinality(B2) <= N
<1>1. /\ \A S : IsFiniteSet(S) => Cardinality(S) \in Nat
      /\ \A S, T : IsFiniteSet(S) /\ T \subseteq S => IsFiniteSet(T) /\ Cardinality(T) <= Cardinality(S)
  BY FS_Subset, FS_CardinalityType
<1>2. Cardinality(A) \in Nat /\ Cardinality(B) \in Nat
  BY <1>1
<1>3. CASE A2 \subseteq A /\ B2 \subseteq B
  <2>1. Cardinality(A2) \in Nat /\ Cardinality(B2) \in Nat
        /\ Cardinality(A2) <= Cardinality(A) /\ Cardinality(B2) <= Cardinality(B)
    BY <1>1, <1>3
  <2> QED
    BY <1>2, <2>1
<1>4. CASE \E b \in B : \E n : A2 \subseteq A \union {n} /\ B2 \subseteq B \ {b}
  <2>1. PICK b \in B : \E n : A2 \subseteq A \union {n} /\ B2 \subseteq B \ {b}
    BY <1>4
  <2>2. PICK n : A2 \subseteq A \union {n} /\ B2 \subseteq B \ {b}
    BY <2>1
  <2>3. IsFiniteSet(A \union {n}) /\ Cardinality(A \union {n}) \in {Cardinality(A), Cardinality(A) + 1}
    BY FS_AddElement
  <2>4. IsFiniteSet(B \ {b}) /\ Cardinality(B \ {b}) = Cardinality(B) - 1
    BY FS_RemoveElement
  <2>5. Cardinality(A2) \in Nat /\ Cardinality(B2) \in Nat
        /\ Cardinality(A2) <= Cardinality(A \union {n}) /\ Cardinality(B2) <= Cardinality(B \ {b})
    BY <1>1, <2>2, <2>3, <2>4
  <2>6. Cardinality(A2) <= Cardinality(A) + 1 /\ Cardinality(B2) <= Cardinality(B) - 1
    BY <1>2, <2>3, <2>4, <2>5
  <2> QED
    BY <1>2, <2>5, <2>6
<1> QED
  BY <1>3, <1>4 DEF Handed

\* A step that changes the sessions of s, or its refreshes, keeps the count.
LEMMA StaysSpent ==
  ASSUME LoginRows, LoginRows', NEW s,
         \/ Spent(s) /\ (Calms(s) \/ Renews(s))
         \/ Born(s)' = {}
  PROVE  Spent(s)'
<1>1. CASE Born(s)' = {}
  <2>1. Cardinality(Refreshing(s)') \in Nat /\ Cardinality(Refreshing(s)') <= Cardinality(Handler)
    BY RefreshingFiniteNext
  <2>2. Cardinality(Born(s)') = 0
    BY <1>1, FS_EmptySet
  <2> QED
    BY <2>1, <2>2 DEF Spent
<1>2. CASE Spent(s) /\ (Calms(s) \/ Renews(s))
  <2>1. PICK A, B, A2, B2 : A = Born(s) /\ B = Refreshing(s) /\ A2 = Born(s)' /\ B2 = Refreshing(s)'
    OBVIOUS
  <2>2. PICK N : N = Cardinality(Handler)
    OBVIOUS
  <2>3. IsFiniteSet(A) /\ IsFiniteSet(B) /\ N \in Nat
    BY <2>1, <2>2, BornFinite, RefreshingFinite
  <2>4. Cardinality(A) + Cardinality(B) <= N
    BY <1>2, <2>1, <2>2 DEF Spent
  <2>5. Handed(A, B, A2, B2)
    BY <1>2, <2>1 DEF Calms, Renews, Handed
  <2>6. Cardinality(A2) + Cardinality(B2) <= N
    BY ONLY <2>3, <2>4, <2>5, Counted
  <2> QED
    BY <2>1, <2>2, <2>6 DEF Spent
<1> QED
  BY <1>1, <1>2

\* What a step may do to the sessions that came from s.
Kin(s) ==
  \/ s \in DOMAIN rows["logins"] /\ (Calms(s) \/ Renews(s))
  \/ Born(s)' = {}

\* The sessions keep where they came from.
SameKin ==
  /\ DOMAIN rows'["logins"] = DOMAIN rows["logins"]
  /\ \A s \in DOMAIN rows["logins"] : rows'["logins"][s].from = rows["logins"][s].from

LEMMA GoneKin == LoginRows /\ LoginsGo => SameKin
BY LivesKeeps DEF LoginsGo, SameKin

\* A step of h that starts no refresh, and no session.
LEMMA CalmKin ==
  ASSUME SameKin, NEW h \in Handler,
         \A g \in Handler \ {h} : req'[g] = req[g],
         req'[h] = None \/ req'[h] = req[h] \/ req'[h].op # "refresh",
         NEW s \in DOMAIN rows'["logins"]
  PROVE  Kin(s)
<1>1. Born(s)' \subseteq Born(s)
  BY DEF SameKin, Born
<1>2. Refreshing(s)' \subseteq Refreshing(s)
  BY DEF Refreshing, Running
<1> QED
  BY <1>1, <1>2 DEF SameKin, Kin, Calms

\* A refresh that starts finds its session alive: no session came from it.
LEMMA StartedKin ==
  ASSUME OfficeInv, NEW h \in Handler, NEW r, r.op = "refresh" => Live(r.id),
         rows' = rows, req'[h] = r, \A g \in Handler \ {h} : req'[g] = req[g],
         NEW s \in DOMAIN rows'["logins"]
  PROVE  Kin(s)
<1>1. LoginRows
  BY DEF OfficeInv, LoginsInv
<1>2. Born(s)' = Born(s)
  BY DEF Born
<1>3. CASE r.op = "refresh" /\ r.id = s
  <2>1. ~rows["logins"][s].revoked /\ s \in DOMAIN rows["logins"]
    BY <1>3 DEF Live, Exists, Ids
  <2>2. ASSUME NEW x \in Born(s) PROVE FALSE
    <3>1. x \in DOMAIN rows["logins"] /\ rows["logins"][x].from = s
      BY DEF Born
    <3>2. s # None
      BY <1>1, <2>1, DeskAssumption DEF LoginRows
    <3> QED
      BY <1>1, <2>1, <3>1, <3>2 DEF LoginRows
  <2> QED
    BY <1>2, <2>2 DEF Kin
<1>4. CASE ~(r.op = "refresh" /\ r.id = s)
  <2>1. Refreshing(s)' \subseteq Refreshing(s)
    BY <1>4 DEF Refreshing, Running
  <2> QED
    BY <1>2, <2>1 DEF Kin, Calms
<1> QED
  BY <1>3, <1>4

\* A new session is the successor of the one whose refresh ends, or of none.
LEMMA GrownKin ==
  ASSUME OfficeInv, NEW h \in Handler, NEW f, LoginsGrow(f), f # None => h \in Refreshing(f),
         req'[h] = None, \A g \in Handler \ {h} : req'[g] = req[g],
         NEW s \in DOMAIN rows'["logins"]
  PROVE  Kin(s)
<1>1. LoginRows
  BY DEF OfficeInv, LoginsInv
<1>2. PICK n \in Nat, u \in Nat :
        /\ f \in DOMAIN rows["logins"] \union {None}
        /\ DOMAIN rows["logins"] = 1 .. n
        /\ DOMAIN rows'["logins"] = 1 .. n + 1
        /\ rows'["logins"] = [x \in 1 .. n + 1 |-> rows'["logins"][x]]
        /\ \A x \in 1 .. n : Lives(x)
        /\ rows'["logins"][n + 1] = NewLogin(u, f)
        /\ f # None => rows'["logins"][f].revoked
  BY DEF LoginsGrow
<1>3. \A x \in 1 .. n : rows'["logins"][x].from = rows["logins"][x].from
  BY <1>1, <1>2, LivesKeeps
<1>4. rows'["logins"][n + 1].from = f
  BY <1>2 DEF NewLogin
<1>5. \A x \in 1 .. n + 1 : x \in 1 .. n \/ x = n + 1
  OBVIOUS
<1>6. \A x \in 1 .. n + 1 : x # None
  BY DeskAssumption
<1>7. Refreshing(s)' \subseteq Refreshing(s) \ {h}
  BY DEF Refreshing, Running
<1>8. CASE s = n + 1
  <2>1. f # s
    BY <1>2, <1>6, <1>8
  <2>2. \A x \in 1 .. n : rows["logins"][x].from # s
    <3>1. \A x \in 1 .. n : rows["logins"][x].from \in 1 .. n \union {None}
      BY <1>1, <1>2 DEF LoginRows
    <3>2. s \notin 1 .. n /\ s # None
      BY <1>2, <1>6, <1>8
    <3> QED
      BY <3>1, <3>2
  <2>3. Born(s)' = {}
    BY <1>2, <1>3, <1>4, <1>5, <2>1, <2>2 DEF Born
  <2> QED
    BY <2>3 DEF Kin
<1>9. CASE s # n + 1 /\ f # s
  <2>1. s \in DOMAIN rows["logins"]
    BY <1>2, <1>5, <1>9
  <2>2. Born(s)' \subseteq Born(s)
    BY <1>2, <1>3, <1>4, <1>5, <1>9 DEF Born
  <2> QED
    BY <1>7, <2>1, <2>2 DEF Kin, Calms
<1>10. CASE s # n + 1 /\ f = s
  <2>1. s \in DOMAIN rows["logins"] /\ h \in Refreshing(s)
    BY <1>2, <1>5, <1>6, <1>10
  <2>2. Born(s)' \subseteq Born(s) \union {n + 1}
    BY <1>2, <1>3, <1>5 DEF Born
  <2> QED
    BY <1>7, <2>1, <2>2 DEF Kin, Renews
<1> QED
  BY <1>8, <1>9, <1>10

LEMMA WriteKin ==
  ASSUME OfficeInv, NEW h \in Handler, AccessWrite(h) \/ CatalogWrite(h),
         NEW s \in DOMAIN rows'["logins"]
  PROVE  Kin(s)
<1>1. \/ Inserts(h) \/ Updates(h) \/ Deletes(h) \/ RotateDeviceToken(h) \/ Reorder(h) \/ DeleteProduct(h)
         \/ SetRolePermissions(h) \/ ReplacePanelItems(h) \/ DeletePanelItem(h)
      \/ Logout(h) \/ SetPassword(h) \/ SetPin(h) \/ IssueSession(h) \/ Refresh(h)
      \/ CreateProduct(h) \/ UpdateProduct(h) \/ CreateTaxRateVersion(h)
  BY DEF AccessWrite, CatalogWrite, Inserts, Updates, Deletes
<1>2. Tables /\ Handlers /\ LoginsInv /\ LoginRows
  BY DEF OfficeInv, LoginsInv
<1>3. ASSUME Leave(h) PROVE req'[h] = None /\ \A g \in Handler \ {h} : req'[g] = req[g]
  BY <1>2, <1>3, LeaveIs DEF Others
<1>4. CASE \/ Inserts(h) \/ Updates(h) \/ Deletes(h) \/ RotateDeviceToken(h) \/ Reorder(h) \/ DeleteProduct(h)
           \/ SetRolePermissions(h) \/ ReplacePanelItems(h) \/ DeletePanelItem(h)
           \/ CreateProduct(h) \/ UpdateProduct(h) \/ CreateTaxRateVersion(h)
  <2>1. Leave(h) /\ rows'["logins"] = rows["logins"]
    BY <1>4, QuietWrite, HistoryWrite
  <2> QED
    BY <1>3, <2>1, CalmKin DEF SameKin
<1>5. CASE Logout(h) \/ SetPassword(h) \/ SetPin(h)
  <2>1. Leave(h) /\ LoginsGo
    BY <1>2, <1>5, LogoutStep, CredentialStep
  <2> QED
    BY <1>2, <1>3, <2>1, GoneKin, CalmKin
<1>6. CASE IssueSession(h)
  <2>1. Leave(h) /\ LoginsGrow(None)
    BY <1>2, <1>6, IssueStep
  <2> QED
    BY <1>3, <2>1, GrownKin
<1>7. CASE Refresh(h)
  <2>1. Leave(h) /\ (LoginsGo \/ LoginsGrow(req[h].id))
    BY <1>2, <1>7, RefreshStep
  <2>2. h \in Refreshing(req[h].id)
    BY <1>7 DEF Refresh, Refreshing
  <2>3. CASE LoginsGo
    BY <1>2, <1>3, <2>1, <2>3, GoneKin, CalmKin
  <2>4. CASE LoginsGrow(req[h].id)
    BY <1>3, <2>1, <2>2, <2>4, GrownKin
  <2> QED
    BY <2>1, <2>3, <2>4
<1> QED
  BY <1>1, <1>4, <1>5, <1>6, <1>7

LEMMA NextKin ==
  ASSUME OfficeInv, [OfficeNext]_deskVars, NEW s \in DOMAIN rows'["logins"]
  PROVE  Kin(s)
<1>1. Handlers /\ DOMAIN seen = Handler /\ DOMAIN req = Handler /\ LoginRows /\ Tables
  BY DEF OfficeInv, Handlers, LoginsInv
<1>2. ASSUME NEW h \in Handler, NEW r \in Request, BeginAuth(h, r) \/ BeginAdmin(h, r) \/ BeginEdit(h, r)
      PROVE  Kin(s)
  <2>1. "refresh" \in AuthOp
    BY DEF AuthOp
  <2>2. PICK row : Begin(h, r, row) /\ (r.op = "refresh" => Live(r.id))
    BY <1>2, <2>1, AuthStart, AdminStart, EditStart
  <2>3. rows' = rows /\ req'[h] = r /\ Others(h)
    BY <1>1, <2>2, BeginIs
  <2> QED
    BY <2>2, <2>3, StartedKin DEF Others
<1>3. ASSUME NEW h \in Handler, GatherAccess(h) \/ GatherCatalog(h) PROVE Kin(s)
  <2>1. \E old : Gather(h, old)
    BY <1>3 DEF GatherAccess, GatherCatalog
  <2>2. rows' = rows /\ req' = req
    BY <2>1 DEF Gather
  <2> QED
    BY <2>2, CalmKin DEF SameKin
<1>4. ASSUME NEW h \in Handler, AccessWrite(h) \/ CatalogWrite(h) PROVE Kin(s)
  BY <1>4, WriteKin
<1>5. ASSUME NEW h \in Handler, Rollback(h) PROVE Kin(s)
  <2>1. rows' = rows /\ Leave(h)
    BY <1>5 DEF Rollback
  <2>2. req'[h] = None /\ Others(h)
    BY <1>1, <2>1, LeaveIs
  <2> QED
    BY <2>1, <2>2, CalmKin DEF SameKin, Others
<1>6. ASSUME SameKin, req' = req PROVE Kin(s)
  <2>1. Born(s)' \subseteq Born(s)
    BY <1>6 DEF SameKin, Born
  <2>2. Refreshing(s)' = Refreshing(s)
    BY <1>6 DEF Refreshing, Running
  <2> QED
    BY <1>6, <2>1, <2>2 DEF SameKin, Kin, Calms
<1>7. ASSUME NEW t, Expire(t) PROVE Kin(s)
  <2>1. LoginsGo /\ req' = req
    BY <1>1, <1>7, ExpireStep DEF Expire
  <2> QED
    BY <1>1, <1>6, <2>1, GoneKin
<1>8. CASE UNCHANGED deskVars
  <2>1. rows' = rows /\ req' = req
    BY <1>8 DEF deskVars
  <2> QED
    BY <1>6, <2>1 DEF SameKin
<1> QED
  BY <1>2, <1>3, <1>4, <1>5, <1>7, <1>8 DEF OfficeNext

\* services/auth.py: a token buys no session after it was exchanged, however
\* many requests, logouts, credential changes and expiries come in between: the
\* sessions that came from it are at most those of the refreshes that ran at
\* once, for any number of handlers, users and sessions.
THEOREM ReuseRefusedHolds == OfficeSpec => []ReuseRefused
<1>1. DeskInit => Spared
  <2> SUFFICES ASSUME DeskInit, NEW s \in DOMAIN rows["logins"] PROVE Spent(s)
    BY DEF Spared
  <2>1. LoginRows
    BY InitOfficeInv DEF OfficeInv, LoginsInv
  <2>2. s # None
    BY <2>1, DeskAssumption DEF LoginRows
  <2>3. \A x \in DOMAIN rows["logins"] : rows["logins"][x].from = None
    <3>1. PICK f : f = First["logins"]
      OBVIOUS
    <3>2. f \in Seq([user : Nat, revoked : BOOLEAN, expired : BOOLEAN, from : {None}])
      BY <3>1, AccessAssumption
    <3>3. PICK R : R = [user : Nat, revoked : BOOLEAN, expired : BOOLEAN, from : {None}]
      OBVIOUS
    <3>4. \A x \in DOMAIN f : f[x] \in R
      <4>1. f \in Seq(R)
        BY <3>2, <3>3
      <4> QED
        BY ONLY <4>1
    <3>5. \A x \in R : x.from = None
      BY <3>3
    <3>6. \A x \in DOMAIN f : f[x].from = None
      BY <3>4, <3>5
    <3>7. rows["logins"] = f
      BY <3>1 DEF DeskInit
    <3> QED
      BY <3>6, <3>7
  <2>4. Born(s) = {}
    BY <2>2, <2>3 DEF Born
  <2>5. Cardinality(Born(s)) = 0
    BY <2>4, FS_EmptySet
  <2> QED
    BY <2>5, RefreshingFinite DEF Spent
<1>2. OfficeInv /\ OfficeInv' /\ Spared /\ [OfficeNext]_deskVars => Spared'
  <2> SUFFICES ASSUME OfficeInv, OfficeInv', Spared, [OfficeNext]_deskVars,
                      NEW s \in DOMAIN rows'["logins"]
               PROVE  Spent(s)'
    BY DEF Spared
  <2>1. LoginRows /\ LoginRows'
    BY DEF OfficeInv, LoginsInv
  <2>2. Kin(s)
    BY NextKin
  <2> QED
    BY <2>1, <2>2, StaysSpent DEF Kin, Spared
<1>3. OfficeInv /\ Spared => ReuseRefused
  <2> SUFFICES ASSUME OfficeInv, Spared, NEW s \in Ids("logins")
               PROVE  Cardinality(Successors(s)) + Cardinality(Refreshing(s)) <= Cardinality(Handler)
    BY DEF ReuseRefused
  <2>1. LoginRows /\ Spent(s)
    BY DEF OfficeInv, LoginsInv, Spared, Ids
  <2>2. Successors(s) \subseteq Born(s)
    BY DEF Successors, Where, Ids, Born
  <2>3. /\ Cardinality(Successors(s)) \in Nat /\ Cardinality(Successors(s)) <= Cardinality(Born(s))
        /\ Cardinality(Born(s)) \in Nat
    BY <2>1, <2>2, BornFinite, FS_Subset, FS_CardinalityType
  <2> QED
    BY <2>1, <2>3, RefreshingFinite DEF Spent
<1> QED
  BY <1>1, <1>2, <1>3, InitOfficeInv, NextOfficeInv, PTL DEF OfficeSpec

\* The price the till charges is that of the one row of the history in force.
THEOREM PriceInForceHolds == OfficeSpec => []PriceInForce
<1>1. ASSUME OfficeInv, NEW p \in Ids("products")
      PROVE  \E i \in DOMAIN rows["prices"] :
               CurrentPrice(p) = {i} /\ rows["prices"][i].price = rows["products"][p].price
  <2>1. InForce(p) /\ rows["prices"] \in Seq(PriceRow)
    BY <1>1 DEF OfficeInv, PricesInv, PriceRows, Ids
  <2>2. PICK i \in DOMAIN rows["prices"] :
          /\ rows["prices"][i].price = rows["products"][p]["price"]
          /\ \A j \in DOMAIN rows["prices"] :
               rows["prices"][j].product = p /\ rows["prices"][j].to = None <=> j = i
    BY <2>1 DEF InForce
  <2>3. \A j \in DOMAIN rows["prices"] : rows["prices"][j] # None
    BY <2>1, CatalogAssumption
  <2>4. CurrentPrice(p) = {i}
    BY <2>2, <2>3 DEF CurrentPrice, Where, Ids
  <2> QED
    BY <2>2, <2>4
<1>2. OfficeInv => PriceInForce
  BY <1>1 DEF PriceInForce
<1> QED
  BY <1>2, OfficeInvariance, PTL

\* A row of the price history keeps its product and amount, and once it ended,
\* its end.
THEOREM PricesAppendOnlyHolds == OfficeSpec => PricesAppendOnly
<1>1. OfficeInv /\ [OfficeNext]_deskVars =>
        \A i \in DOMAIN rows.prices :
          LET a == rows.prices[i]
              b == rows'.prices[i]
          IN  b.product = a.product /\ b.price = a.price /\ (a.to # None => b.to = a.to)
  BY NextOfficeInv DEF Grown, PricesGo
<1> QED
  BY <1>1, OfficeInvariance, PTL DEF OfficeSpec, PricesAppendOnly

\* A bounded set of days has a last one.
LEMMA LastDay ==
  ASSUME NEW D, D \subseteq Int, D # {}, NEW e \in Int, \A d \in D : d <= e
  PROVE  \E m \in D : \A d \in D : d <= m
<1> DEFINE T == {e - d : d \in D}
<1>1. T \subseteq Nat /\ T # {}
  <2>1. \A d \in D : e - d \in Nat
    <3> SUFFICES ASSUME NEW d \in D PROVE e - d \in Nat
      OBVIOUS
    <3>1. d \in Int /\ d <= e
      OBVIOUS
    <3> QED
      BY <3>1
  <2> QED
    BY <2>1
<1>2. PICK t \in T : \A u \in T : <<u, t>> \notin OpToRel(<, Nat)
  BY ONLY <1>1, WFMin, NatLessThanWellFounded
<1>3. \A u \in T : ~(u < t)
  BY <1>1, <1>2 DEF OpToRel
<1>4. PICK m \in D : t = e - m
  OBVIOUS
<1>5. ASSUME NEW d \in D PROVE d <= m
  <2>1. d \in Int /\ m \in Int
    OBVIOUS
  <2>2. ~(e - d < e - m)
    BY <1>3, <1>4
  <2> QED
    BY <2>1, <2>2
<1> QED
  BY <1>5

\* From the first version of a tax on, every day has one in force.
THEOREM NoTaxGapHolds == OfficeSpec => []NoTaxGap
<1>1. ASSUME OfficeInv, NEW i \in Ids("taxes"), NEW e \in Int, e >= rows["taxes"][i].from
      PROVE  \E k \in Where("taxes", "code", rows["taxes"][i].code) :
               /\ rows["taxes"][k].from <= e
               /\ rows["taxes"][k].to = None \/ e < rows["taxes"][k].to
  <2>1. TaxRows
    BY <1>1 DEF OfficeInv, TaxesInv
  <2>2. PICK n \in Nat : DOMAIN rows["taxes"] = 1 .. n
    BY <2>1 DEF TaxRows
  <2>3. \A k \in 1 .. n : rows["taxes"][k] \in TaxRow
    BY <2>1, <2>2 DEF TaxRows
  <2>4. \A k \in 1 .. n : /\ rows["taxes"][k] # None /\ rows["taxes"][k].from \in Int
                          /\ rows["taxes"][k].to \in Int \union {None}
    BY <2>3, CatalogAssumption DEF TaxRow
  <2>5. PICK c : c = rows["taxes"][i].code
    OBVIOUS
  <2>6. i \in 1 .. n
    BY <2>2 DEF Ids
  <2> DEFINE K == {k \in 1 .. n : rows["taxes"][k].code = c /\ rows["taxes"][k].from <= e}
             D == {rows["taxes"][k].from : k \in K}
  <2>7. D \subseteq Int /\ D # {} /\ \A d \in D : d <= e
    BY <1>1, <2>4, <2>5, <2>6
  <2>8. PICK m \in D : \A d \in D : d <= m
    BY <2>7, LastDay
  <2>9. PICK k \in K : m = rows["taxes"][k].from
    BY <2>8
  <2>10. ASSUME rows["taxes"][k].to # None, ~(e < rows["taxes"][k].to) PROVE FALSE
    <3>1. PICK j \in 1 .. n : rows["taxes"][j].code = c /\ rows["taxes"][j].from = rows["taxes"][k].to
      BY <2>1, <2>2, <2>9, <2>10 DEF TaxRows
    <3>2. rows["taxes"][k].from < rows["taxes"][k].to
      BY <2>1, <2>2, <2>9, <2>10 DEF TaxRows
    <3>3. rows["taxes"][j].from \in D
      BY <2>4, <2>9, <2>10, <3>1
    <3>4. rows["taxes"][j].from <= rows["taxes"][k].from
      BY <2>8, <2>9, <3>3
    <3>5. rows["taxes"][j].from \in Int /\ rows["taxes"][k].from \in Int
      BY <2>4, <2>9
    <3> QED
      BY <3>1, <3>2, <3>4, <3>5
  <2>11. k \in Where("taxes", "code", c)
    BY <2>2, <2>4, <2>9 DEF Where, Ids
  <2> QED
    BY <2>5, <2>9, <2>10, <2>11
<1>2. OfficeInv => NoTaxGap
  <2> SUFFICES ASSUME OfficeInv, NEW i \in Ids("taxes"), NEW j \in Ids("taxes"),
                      NEW e \in {rows["taxes"][j].from - 1, rows["taxes"][j].from},
                      e >= rows["taxes"][i].from
               PROVE  \E k \in Where("taxes", "code", rows["taxes"][i].code) :
                        /\ rows["taxes"][k].from <= e
                        /\ rows["taxes"][k].to = None \/ e < rows["taxes"][k].to
    BY DEF NoTaxGap
  <2>1. rows["taxes"][j] \in TaxRow
    BY DEF OfficeInv, TaxesInv, TaxRows, Ids
  <2>2. rows["taxes"][j].from \in Int
    BY <2>1 DEF TaxRow
  <2>3. e \in Int
    BY <2>2
  <2> QED
    BY <1>1, <2>3
<1> QED
  BY <1>2, OfficeInvariance, PTL

\* A form changes of a row only the fields its request asks for.
THEOREM OnlyAskedFieldsHolds == OfficeSpec => OnlyAskedFields
<1>1. OfficeInv /\ [OfficeNext]_deskVars => AskedOnly
  BY NextOfficeInv
<1> QED
  BY <1>1, OfficeInvariance, PTL DEF OfficeSpec, OnlyAskedFields, AskedOnly
=============================================================================
