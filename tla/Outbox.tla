------------------------------- MODULE Outbox -------------------------------
(***************************************************************************)
(* The waiter's phone off line: state/outbox.ts keeps the openings and the *)
(* lines that were tapped without a server, and resends them with the keys *)
(* they were born with.                                                    *)
(*                                                                         *)
(* The phone runs one thing at a time, but flush waits for each answer:    *)
(* meanwhile the waiter taps, the connection goes and comes back, which    *)
(* starts another flush, and the page may be reloaded.  Whatever is set is *)
(* saved at once (localStorage), so that entries and serverIds survive a   *)
(* reload and the rest does not.                                           *)
(*                                                                         *)
(* The server answers a request at once: Till has its transactions, and    *)
(* Ledger what its keys promise.  A request can outlive the flush that     *)
(* sent it (late); the 24 hours of a key never pass.  An entry is named by *)
(* its key, a ticket by the key of its opening, and an order by its place  *)
(* among the orders.                                                       *)
(***************************************************************************)
EXTENDS Integers, Sequences, FiniteSets, SequencesExt

CONSTANTS
  None,
  Flush,         \* calls of flush that may be waiting at once
  MaxKey,        \* bound: keys the phone makes
  MaxOrder,      \* bound: orders the server makes
  MaxLate        \* bound: requests that outlive their flush at once

Key == 1..MaxKey

ASSUME OutboxAssumption ==
  /\ {MaxKey, MaxOrder, MaxLate} \subseteq Nat
  /\ None \notin Nat

VARIABLES
  entries,       \* the queue, in memory and in localStorage
  serverIds,     \* the order of each ticket that is open on the server
  localOrder,    \* the ticket on the screen
  used,          \* keys made so far
  online,        \* what the last probe said
  flushes,       \* what each call of flush has in its hands
  told,          \* entries a notice was given for
  late,          \* requests nobody waits for
  orders,        \* the server: key of the opening, entries of its lines
  keys,          \* the server: the answer under each key
  calm           \* no flush met another, a tap or the ticket of another

phone == <<entries, serverIds, localOrder, used, online, flushes, told>>
server == <<orders, keys>>
vars == <<entries, serverIds, localOrder, used, online, flushes, told, late,
          orders, keys, calm>>

\* An answer is the order it is about, or this.
Refused == 0

IsOpening(e) == e.key = e.ticket
KeysIn(q) == {e.key : e \in Range(q)}
Waiting == {f \in Flush : flushes[f] # None}

Init ==
  /\ entries = <<>> /\ localOrder = None /\ used = 0
  /\ serverIds = [k \in Key |-> None]
  /\ online \in BOOLEAN
  /\ flushes = [f \in Flush |-> None]
  /\ told = {} /\ late = {}
  /\ orders = <<>> /\ keys = [k \in Key |-> None]
  /\ calm = TRUE

(* The waiter. *)

\* The order of the ticket on the screen is known.
Known == localOrder # None /\ serverIds[localOrder] # None

\* A ticket of the phone stays on the screen until the server has its order:
\* its lines are queued though the connection is back.
Tap ==
  /\ ~online \/ localOrder # None
  /\ ~Known
  /\ LET first == IF localOrder = None THEN used + 1 ELSE localOrder
         last == used + (IF localOrder = None THEN 2 ELSE 1)
     IN  /\ last <= MaxKey
         /\ entries' = entries \o [i \in 1..(last - used) |-> [ticket |-> first, key |-> used + i]]
         /\ localOrder' = first
         /\ used' = last
  /\ calm' = (calm /\ Waiting = {})
  /\ UNCHANGED <<serverIds, online, flushes, told, late, server>>

\* The screen shows that order from now on: an effect, before the next tap.
Adopt ==
  /\ Known
  /\ localOrder' = None
  /\ UNCHANGED <<entries, serverIds, used, online, flushes, told, late, server, calm>>

(* flush, from one answer to the next request. *)

\* A line goes only to an order that exists.
MaySend(q, ids) == q # <<>> /\ (IsOpening(Head(q)) \/ ids[Head(q).ticket] # None)

\* Mutant: an entry leaves the saved queue when it is sent.
Send_Dequeues(f, q, ids) ==
  /\ flushes' = [flushes EXCEPT ![f] =
       [entry |-> Head(q), rest |-> Tail(q), ids |-> ids, answer |-> None,
        to |-> IF IsOpening(Head(q)) THEN None ELSE ids[Head(q).ticket]]]
  /\ entries' = Tail(q)
  /\ UNCHANGED <<serverIds, told>>

Send(f, q, ids) ==
  /\ flushes' = [flushes EXCEPT ![f] =
       [entry |-> Head(q), rest |-> Tail(q), ids |-> ids, answer |-> None,
        to |-> IF IsOpening(Head(q)) THEN None ELSE ids[Head(q).ticket]]]
  /\ UNCHANGED <<entries, serverIds, told>>

\* What it kept takes the place of the queue, whatever came to it meanwhile.
Finish(f, kept, ids, dropped) ==
  /\ flushes' = [flushes EXCEPT ![f] = None]
  /\ entries' = kept
  /\ serverIds' = ids
  /\ told' = told \cup dropped

Proceed(f, q, ids) ==
  \/ MaySend(q, ids) /\ Send(f, q, ids)
  \/ ~MaySend(q, ids) /\ Finish(f, q, ids, {})

\* The connection comes back, or the page starts with one.
Reconnect(f) ==
  /\ ~online /\ flushes[f] = None
  /\ online' = TRUE
  /\ Proceed(f, entries, serverIds)
  /\ calm' = (calm /\ Waiting = {})
  /\ UNCHANGED <<localOrder, used, late, server>>

Disconnect ==
  /\ online
  /\ online' = FALSE
  /\ UNCHANGED <<entries, serverIds, localOrder, used, flushes, told, late, server, calm>>

Done(f) ==
  LET job == flushes[f]
      ids == IF IsOpening(job.entry) THEN [job.ids EXCEPT ![job.entry.ticket] = job.answer] ELSE job.ids
  IN  /\ job.answer \notin {None, Refused}
      /\ Proceed(f, job.rest, ids)
      /\ UNCHANGED <<localOrder, used, online, late, server, calm>>

\* A response that is not 2xx: the entry and the lines behind it of the same
\* ticket are dropped with a notice, and so is, without one, what is behind
\* them of other tickets.
Dropped(f) ==
  LET job == flushes[f]
      ofTicket == {e \in Range(job.rest) : e.ticket = job.entry.ticket}
  IN  /\ job.answer = Refused
      /\ Finish(f, <<>>, job.ids, {job.entry} \cup ofTicket)
      /\ calm' = (calm /\ ofTicket = Range(job.rest))
      /\ UNCHANGED <<localOrder, used, online, late, server>>

Request(f) == [entry |-> flushes[f].entry, to |-> flushes[f].to]

MayComeLate(f) ==
  \/ late' = late
  \/ flushes[f].answer = None /\ late' = late \cup {Request(f)} /\ Cardinality(late') <= MaxLate

\* Mutant: what failed goes to the end of the queue.
Fails_Requeues(f) ==
  /\ flushes[f] # None
  /\ Finish(f, Append(flushes[f].rest, flushes[f].entry), flushes[f].ids, {})
  /\ MayComeLate(f)
  /\ UNCHANGED <<localOrder, used, online, server, calm>>

\* The network fails: the request, or its answer, is lost, or the request
\* comes to the server later.
Fails(f) ==
  /\ flushes[f] # None
  /\ Finish(f, <<flushes[f].entry>> \o flushes[f].rest, flushes[f].ids, {})
  /\ MayComeLate(f)
  /\ UNCHANGED <<localOrder, used, online, server, calm>>

Reload ==
  /\ flushes' = [f \in Flush |-> None]
  /\ localOrder' = None
  /\ online' = FALSE
  /\ \E reaching \in SUBSET {Request(f) : f \in {g \in Waiting : flushes[g].answer = None}} :
       late' = late \cup reaching /\ Cardinality(late') <= MaxLate
  /\ UNCHANGED <<entries, serverIds, used, told, server, calm>>

(* The server. *)

\* A key answers what it answered.
Replay(e, answer) ==
  /\ keys[e.key] # None
  /\ answer = keys[e.key]
  /\ UNCHANGED <<orders, keys>>

CreateOrder(e, answer) ==
  /\ keys[e.key] = None /\ IsOpening(e) /\ Len(orders) < MaxOrder
  /\ answer = Len(orders) + 1
  /\ orders' = Append(orders, [by |-> e.key, lines |-> <<>>])
  /\ keys' = [keys EXCEPT ![e.key] = answer]

\* Mutant: the key of a line is not stored.
AddLine_NoKey(e, to, answer) ==
  /\ keys[e.key] = None /\ ~IsOpening(e)
  /\ answer = to
  /\ orders' = [orders EXCEPT ![to].lines = Append(@, e)]
  /\ UNCHANGED keys

AddLine(e, to, answer) ==
  /\ keys[e.key] = None /\ ~IsOpening(e)
  /\ answer = to
  /\ orders' = [orders EXCEPT ![to].lines = Append(@, e)]
  /\ keys' = [keys EXCEPT ![e.key] = answer]

\* A rule of the business (the order was charged on another device, the product
\* is gone), a token that expired, or an error of the server.
Refuse(answer) == answer = Refused /\ UNCHANGED <<orders, keys>>

Serve(e, to, answer) ==
  \/ Replay(e, answer)
  \/ CreateOrder(e, answer)
  \/ AddLine(e, to, answer)
  \/ Refuse(answer)

Answers == 0..MaxOrder

ServeOne(f) ==
  /\ flushes[f] # None /\ flushes[f].answer = None
  /\ \E answer \in Answers :
       /\ Serve(flushes[f].entry, flushes[f].to, answer)
       /\ flushes' = [flushes EXCEPT ![f].answer = answer]
  /\ UNCHANGED <<entries, serverIds, localOrder, used, online, told, late, calm>>

ServeLate(r) ==
  /\ late' = late \ {r}
  /\ \E answer \in Answers : Serve(r.entry, r.to, answer)
  /\ UNCHANGED <<phone, calm>>

Next ==
  \/ Tap
  \/ Adopt
  \/ Disconnect
  \/ Reload
  \/ \E f \in Flush : Reconnect(f) \/ Fails(f) \/ ServeOne(f)
  \/ \E f \in Waiting : Done(f) \/ Dropped(f)
  \/ \E r \in late : ServeLate(r)

Spec == Init /\ [][Next]_vars

(* Properties. *)

LinesAt(o) == orders[o].lines
Orders == DOMAIN orders

\* Resending does not duplicate: an opening makes one order and a line is on
\* one order once, whatever flushes overlap, answers are lost or pages are
\* reloaded.
SentOnce ==
  \A k \in Key :
    /\ Cardinality({o \in Orders : orders[o].by = k}) <= 1
    /\ Cardinality({p \in Orders \X Key :
         p[2] \in DOMAIN LinesAt(p[1]) /\ LinesAt(p[1])[p[2]].key = k}) <= 1

GivenUp(t) == \E e \in told : e.ticket = t

\* A ticket arrives as it was tapped.  The lines of an order are those of the
\* ticket whose opening made it.  As long as no flush met a tap or another
\* flush, they are in the order of the taps, unless part of the ticket was
\* given up (a late request may bring that part afterwards).
TicketsAsTapped ==
  \A o \in Orders :
    /\ \A i \in DOMAIN LinesAt(o) : LinesAt(o)[i].ticket = orders[o].by
    /\ \A i, j \in DOMAIN LinesAt(o) :
         calm /\ i < j /\ ~GivenUp(orders[o].by) => LinesAt(o)[i].key < LinesAt(o)[j].key

Arrived == {orders[o].by : o \in Orders} \cup UNION {KeysIn(LinesAt(o)) : o \in Orders}

\* What was tapped is queued, on the server, or given up with a notice.
Accounted == \A k \in 1..used : k \in KeysIn(entries) \cup Arrived \cup {e.key : e \in told}

\* The comment of flush: a refusal drops an entry and its ticket with a notice,
\* a failure of the network keeps everything.  It holds through lost answers
\* and reloads as long as no flush overlaps a tap or another flush, and none is
\* refused with another ticket behind it.
KeptOrTold == calm => Accounted

\* The same without that condition: false.
NothingSilent == Accounted
=============================================================================
