-------------------------------- MODULE Feed --------------------------------
(***************************************************************************)
(* The realtime feed of one topic to one client: events recorded inside    *)
(* transactions (services/events.py), staged until the commit and then     *)
(* published to the bounded queue of each subscriber (core/events.py), the *)
(* WebSocket connection that replays and forwards them (api/v1/ws.py), and *)
(* a client that reads the board again when an event arrives (ws.ts of the *)
(* floor and of the kitchen display).                                      *)
(*                                                                         *)
(* An event is its id in event_log, which PostgreSQL gives when the row is *)
(* inserted, not when it commits.  The board is what GET returns: the      *)
(* effects of the committed transactions.                                  *)
(***************************************************************************)
EXTENDS Naturals, FiniteSets, SequencesExt

CONSTANTS
  Worker,      \* transactions that run at the same time
  MaxId,       \* bound: ids the log gives out
  QueueMax,    \* QUEUE_MAXSIZE, the bus queue of a subscriber
  OutboxMax,   \* _OUTBOX_MAXSIZE, the frames waiting for the socket
  ReplayLimit, \* settings.ws_replay_limit
  MaxFetches   \* bound: reads of the board in flight

ASSUME FeedAssumption ==
  /\ MaxId \in Nat /\ QueueMax \in Nat /\ OutboxMax \in Nat
  /\ ReplayLimit \in Nat /\ MaxFetches \in Nat

Id == 1..MaxId

\* A subscription without since_id: no event is after it.
NoSince == MaxId + 1

VARIABLES
  nextId,   \* the sequence behind event_log.id
  tx,       \* what each transaction recorded: its id, 0 if none
  phase,    \* "idle", "open" (recorded) or "done" (committed, not yet published)
  log,      \* committed rows of event_log
  sub,      \* the connection's subscription: "none", "open", "topics", "read", "live"
  since,    \* the since_id it was made with
  rows,     \* the replay it has read and not yet emitted
  queue,    \* its bus queue
  outbox,   \* its frames to send: ids of events, Subscribed
  conn,     \* the client's view of the hub: "down", "connecting", "live"
  cursor,   \* id of the last event the client received
  received, \* events the client was given
  dirty,    \* the client has a read of the board scheduled
  fetches,  \* answers on the way: what each read saw
  board,    \* what the client shows
  shown,    \* observer: everything the client has shown
  unread,   \* observer: events that only reads that failed have seen
  announced, \* observer: events published to this subscription since it got its topics
  dropped   \* observer: events of this connection that a full queue or the limit left out

txVars     == <<nextId, tx, phase, log>>
subVars    == <<sub, since, rows, queue, outbox, announced, dropped>>
clientVars == <<conn, cursor, received, dirty, fetches, board, shown, unread>>
vars       == <<txVars, subVars, clientVars>>

Init ==
  /\ nextId = 0
  /\ tx = [w \in Worker |-> 0]
  /\ phase = [w \in Worker |-> "idle"]
  /\ log = {}
  /\ sub = "none" /\ since = 0 /\ rows = <<>> /\ queue = <<>> /\ outbox = <<>>
  /\ announced = {} /\ dropped = {}
  /\ conn = "down" /\ cursor = 0 /\ received = {}
  /\ dirty = TRUE /\ fetches = <<>> /\ board = {} /\ shown = {} /\ unread = {}

Subscribed == 0
Events(frames) == Range(frames) \ {Subscribed}

\* A bounded queue takes what fits; the rest is dropped and logged.
Put(seq, frames, max) ==
  LET all == seq \o frames
  IN  IF Len(all) <= max THEN all ELSE SubSeq(all, 1, max)

\* What Put leaves out.
Refused(seq, frames, max) == Range(frames) \ Range(Put(seq, frames, max))

-----------------------------------------------------------------------------
(* Transactions. *)

\* record: the row is inserted, and takes its id; the envelope is staged.
Record(w) ==
  /\ phase[w] = "idle" /\ nextId < MaxId
  /\ nextId' = nextId + 1
  /\ tx' = [tx EXCEPT ![w] = nextId + 1]
  /\ phase' = [phase EXCEPT ![w] = "open"]
  /\ UNCHANGED <<log, subVars, clientVars>>

Commit(w) ==
  /\ phase[w] = "open"
  /\ log' = log \union {tx[w]}
  /\ phase' = [phase EXCEPT ![w] = "done"]
  /\ UNCHANGED <<nextId, tx, subVars, clientVars>>

\* after_rollback: the staged envelope never existed; the id is not reused.
Rollback(w) ==
  /\ phase[w] = "open"
  /\ tx' = [tx EXCEPT ![w] = 0]
  /\ phase' = [phase EXCEPT ![w] = "idle"]
  /\ UNCHANGED <<nextId, log, subVars, clientVars>>

\* Mutants: envelopes are published when they are staged; a subscription
\* counts only once its replay has ended.
MayPublish_Staged(w) == phase[w] \in {"open", "done"}
Listening_AfterReplay == sub = "live"

MayPublish(w) == phase[w] = "done"
Listening     == sub \in {"topics", "read", "live"}

\* after_commit: the bus hands the envelope to the subscription, if its
\* queue has room.
Publish(w) ==
  /\ MayPublish(w)
  /\ IF Listening
     THEN /\ queue' = Put(queue, <<tx[w]>>, QueueMax)
          /\ dropped' = dropped \union Refused(queue, <<tx[w]>>, QueueMax)
          /\ announced' = announced \union {tx[w]}
     ELSE UNCHANGED <<queue, announced, dropped>>
  /\ tx' = [tx EXCEPT ![w] = 0]
  /\ phase' = [phase EXCEPT ![w] = "idle"]
  /\ UNCHANGED <<nextId, log, sub, since, rows, outbox, clientVars>>

-----------------------------------------------------------------------------
(* The connection. *)

\* Authenticated: a subscription without topics.  On "ready" the client asks
\* for its topics, from its cursor on or from now on.
Connect ==
  /\ conn = "down"
  /\ sub' = "open" /\ since' \in {cursor, NoSince} /\ conn' = "connecting"
  /\ UNCHANGED <<txVars, rows, queue, outbox, announced, dropped,
                 cursor, received, dirty, fetches, board, shown, unread>>

\* _handle_subscribe: live events from now on; without since_id, the answer.
Subscribe ==
  /\ sub = "open"
  /\ IF since # NoSince
     THEN sub' = "topics" /\ UNCHANGED outbox
     ELSE sub' = "live" /\ outbox' = Put(outbox, <<Subscribed>>, OutboxMax)
  /\ UNCHANGED <<txVars, since, rows, queue, announced, dropped, clientVars>>

\* The lowest ids after the cursor, ReplayLimit of them, in order.
Missed(after) ==
  LET all == {i \in log : i > after}
  IN  {i \in all : Cardinality({j \in all : j < i}) < ReplayLimit}

InIdOrder(S) ==
  {s \in [1..Cardinality(S) -> S] : \A m, n \in 1..Cardinality(S) : m < n => s[m] < s[n]}

\* The replay is read from event_log in a session of its own...
ReadReplay ==
  /\ sub = "topics"
  /\ sub' = "read" /\ rows' \in InIdOrder(Missed(since))
  /\ dropped' = dropped \union ({i \in log : i > since} \ Missed(since))
  /\ UNCHANGED <<txVars, since, queue, outbox, announced, clientVars>>

\* ... and handed out when the read returns, with the answer.
Replay ==
  /\ sub = "read"
  /\ sub' = "live" /\ rows' = <<>>
  /\ outbox' = Put(outbox, Append(rows, Subscribed), OutboxMax)
  /\ dropped' = dropped \union Refused(outbox, rows, OutboxMax)
  /\ UNCHANGED <<txVars, since, queue, announced, clientVars>>

\* _pump: from the bus queue to the frames to send.
Pump ==
  /\ sub # "none" /\ queue # <<>>
  /\ queue' = Tail(queue)
  /\ outbox' = Put(outbox, <<Head(queue)>>, OutboxMax)
  /\ dropped' = dropped \union Refused(outbox, <<Head(queue)>>, OutboxMax)
  /\ UNCHANGED <<txVars, sub, since, rows, announced, clientVars>>

\* The connection ends: queue and frames are gone.
Hangup ==
  /\ sub' = "none" /\ since' = 0 /\ rows' = <<>>
  /\ queue' = <<>> /\ outbox' = <<>> /\ announced' = {} /\ dropped' = {}
  /\ conn' = "down"

Disconnect ==
  /\ conn # "down"
  /\ Hangup
  /\ UNCHANGED <<txVars, cursor, received, dirty, fetches, board, shown, unread>>

\* The server restarts: open transactions roll back, staged envelopes and
\* subscriptions are forgotten.
Restart ==
  /\ \E w \in Worker : phase[w] # "idle"
  /\ tx' = [w \in Worker |-> 0]
  /\ phase' = [w \in Worker |-> "idle"]
  /\ Hangup
  /\ UNCHANGED <<nextId, log, cursor, received, dirty, fetches, board, shown, unread>>

-----------------------------------------------------------------------------
(* The client. *)

\* Mutant: an event is ignored while a read of the board is under way.
Dirty_Busy == dirty \/ fetches = <<>>

\* onEvent schedules a read.
Dirty == TRUE

\* _writer sends a frame and the client handles it.
Deliver ==
  /\ outbox # <<>>
  /\ outbox' = Tail(outbox)
  /\ IF Head(outbox) = Subscribed
     THEN conn' = "live" /\ UNCHANGED <<cursor, received, dirty>>
     ELSE /\ cursor' = Head(outbox)
          /\ received' = received \union {Head(outbox)}
          /\ dirty' = Dirty
          /\ UNCHANGED conn
  /\ UNCHANGED <<txVars, sub, since, rows, queue, announced, dropped, fetches, board, shown, unread>>

\* The fallback: without a live hub the board is read every 15 s.
Poll ==
  /\ conn # "live" /\ ~dirty
  /\ dirty' = TRUE
  /\ UNCHANGED <<txVars, subVars, conn, cursor, received, fetches, board, shown, unread>>

\* GET: the board as it is now.
Fetch ==
  /\ dirty /\ Len(fetches) < MaxFetches
  /\ dirty' = FALSE
  /\ fetches' = Append(fetches, log)
  /\ UNCHANGED <<txVars, subVars, conn, cursor, received, board, shown, unread>>

\* An answer arrives and is shown, whichever read it answers.
Answer ==
  /\ \E n \in 1..Len(fetches) :
       /\ board' = fetches[n] /\ fetches' = RemoveAt(fetches, n)
       /\ shown' = shown \union fetches[n] /\ unread' = unread \ fetches[n]
  /\ UNCHANGED <<txVars, subVars, conn, cursor, received, dirty>>

\* A read fails: the client says so and shows what it had.
Fail ==
  /\ \E n \in 1..Len(fetches) :
       fetches' = RemoveAt(fetches, n) /\ unread' = unread \union (fetches[n] \ board)
  /\ UNCHANGED <<txVars, subVars, conn, cursor, received, dirty, board, shown>>

Next ==
  \/ \E w \in Worker : Record(w) \/ Commit(w) \/ Rollback(w) \/ Publish(w)
  \/ Connect \/ Subscribe \/ ReadReplay \/ Replay \/ Pump \/ Disconnect \/ Restart
  \/ Deliver \/ Poll \/ Fetch \/ Answer \/ Fail

Spec == Init /\ [][Next]_vars

(***************************************************************************)
(* The event loop keeps running the connection's tasks, the browser its    *)
(* timers and requests.  Nothing says that anybody writes, that a          *)
(* connection lasts, or that it breaks.                                    *)
(***************************************************************************)
Fairness == /\ WF_vars(Pump) /\ WF_vars(Deliver)
            /\ WF_vars(Fetch) /\ WF_vars(Answer)

FairSpec == Spec /\ Fairness

-----------------------------------------------------------------------------
(* Properties. *)

\* Types, and the two queues within their limits.
FeedTypeOK ==
  /\ nextId \in 0..MaxId
  /\ tx \in [Worker -> 0..MaxId]
  /\ phase \in [Worker -> {"idle", "open", "done"}]
  /\ log \subseteq Id
  /\ sub \in {"none", "open", "topics", "read", "live"}
  /\ since \in 0..NoSince /\ rows \in Seq(Id)
  /\ queue \in Seq(Id) /\ Len(queue) <= QueueMax
  /\ outbox \in Seq(0..MaxId) /\ Len(outbox) <= OutboxMax
  /\ announced \subseteq Id /\ dropped \subseteq Id
  /\ conn \in {"down", "connecting", "live"}
  /\ cursor \in 0..MaxId
  /\ received \subseteq Id
  /\ dirty \in BOOLEAN /\ unread \subseteq Id
  /\ fetches \in Seq(SUBSET Id) /\ Len(fetches) <= MaxFetches
  /\ board \subseteq Id /\ shown \subseteq Id

\* core/events.py: "Nadie recibe un evento que no está confirmado en la BD".
\* Neither the client nor anything on the way to it.
NoPhantom == received \union Range(queue) \union Range(rows) \union Events(outbox) \subseteq log

\* Events that still reach the client on this connection.
OnTheWay ==
  Range(queue) \union Range(rows) \union Events(outbox)
    \union {tx[w] : w \in {v \in Worker : phase[v] = "done" /\ sub \in {"topics", "read", "live"}}}

\* While a subscription lasts, only a full queue or the replay limit loses an
\* event: the client has, or is about to get, all other committed events after
\* its since_id.  What the replay read, what was published while it was being
\* read, and what committed with a lower id than either.
FedSince ==
  sub = "live" => \A i \in log : i > since => i \in received \union OnTheWay \union dropped

\* api/v1/ws.py: "el servidor nunca pierde eventos, a lo sumo los repite";
\* README: the client that comes back with the last id it received goes on "sin
\* hueco".  A connection that replays never ends with a cursor beyond an event
\* that was to come and did not.
NothingLost ==
  [][(since # NoSince /\ sub # "none" /\ sub' = "none") =>
       \A i \in log : since < i /\ i <= cursor => i \in received]_vars

\* Nobody writes, and everything published was delivered and acted upon.
Quiet ==
  /\ conn = "live" /\ queue = <<>> /\ outbox = <<>> /\ ~dirty /\ fetches = <<>>
  /\ \A w \in Worker : phase[w] # "done"

\* onEvent of ws.ts, and load of the two screens: every event published to a
\* live client has been on its board when all is quiet, even when its queue was
\* full and dropped it, and however its reads of the board overlap; except for
\* what only reads that failed were to show, which the display does not ask for
\* again.
AnnouncedShown == Quiet => announced \subseteq shown \union unread

\* Not so of the board as it is then: the answer of an older read may be the
\* last to arrive, and nothing tells the display that it is older.
LiveBoardFresh == Quiet => announced \subseteq board \union unread

\* An event published to the subscription is shown, unless the connection
\* ends before or the read it brings about fails.
EventShown == \A i \in Id : i \in announced ~> (i \in shown \union unread \/ conn = "down")

=============================================================================
