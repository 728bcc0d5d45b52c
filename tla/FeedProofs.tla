----------------------------- MODULE FeedProofs -----------------------------
(***************************************************************************)
(* What the feed promises, whatever the number of transactions, the limits *)
(* of the queues and the point at which the connection or the server goes  *)
(* away: nobody is given an event that is not committed (Committed), a     *)
(* subscription loses only what a full queue or the limit of the replay    *)
(* left out (Fed), and what was published to a live client has been on its *)
(* board when all is quiet (LiveInv).                                      *)
(***************************************************************************)
EXTENDS Feed, FiniteSetTheorems, TLAPS

\* Ids are ids, and only what is committed is published, replayed, queued or
\* received.
Committed ==
  /\ nextId \in 0..MaxId
  /\ tx \in [Worker -> 0..MaxId]
  /\ phase \in [Worker -> {"idle", "open", "done"}]
  /\ log \subseteq Id
  /\ \A w \in Worker : /\ phase[w] = "open" => tx[w] \in Id
                       /\ phase[w] = "done" => tx[w] \in log
  /\ queue \in Seq(log)
  /\ rows \in Seq(log)
  /\ outbox \in Seq(log \union {Subscribed})
  /\ received \subseteq log

LEMMA PutSeq ==
  ASSUME NEW S, NEW s \in Seq(S), NEW f \in Seq(S), NEW max \in Nat
  PROVE  Put(s, f, max) \in Seq(S)
<1>1. s \o f \in Seq(S)
  OBVIOUS
<1>2. CASE Len(s \o f) <= max
  BY <1>1, <1>2 DEF Put
<1>3. CASE ~(Len(s \o f) <= max)
  <2>1. max <= Len(s \o f)
    BY <1>1, <1>3
  <2>2. SubSeq(s \o f, 1, max) \in Seq(S)
    BY <1>1, <2>1
  <2> QED BY <1>3, <2>2 DEF Put
<1> QED BY <1>2, <1>3

LEMMA PutOne ==
  ASSUME NEW S, NEW s \in Seq(S), NEW e \in S, NEW max \in Nat
  PROVE  Put(s, <<e>>, max) \in Seq(S)
<1>1. <<e>> \in Seq(S)
  OBVIOUS
<1> QED BY ONLY <1>1, PutSeq, s \in Seq(S), max \in Nat

LEMMA WidenSeq ==
  ASSUME NEW S, NEW T, S \subseteq T, NEW s \in Seq(S)
  PROVE  s \in Seq(T)
OBVIOUS

LEMMA InIdOrderSeq ==
  ASSUME NEW S, S \subseteq Id, NEW s \in InIdOrder(S)
  PROVE  s \in Seq(S)
<1>1. IsFiniteSet(Id)
  BY FS_Interval, FeedAssumption DEF Id
<1>2. Cardinality(S) \in Nat
  BY <1>1, FS_Subset, FS_CardinalityType
<1> QED BY <1>2 DEF InIdOrder

LEMMA CommittedInit == Init => Committed
BY FeedAssumption DEF Init, Committed, Id, Subscribed

LEMMA CommittedNext == Committed /\ [Next]_vars => Committed'
<1> SUFFICES ASSUME Committed, [Next]_vars PROVE Committed'
  OBVIOUS
<1> USE FeedAssumption
<1>1. ASSUME NEW w \in Worker, Record(w) PROVE Committed'
  BY <1>1 DEF Record, Committed, Id, subVars, clientVars
<1>2. ASSUME NEW w \in Worker, Commit(w) PROVE Committed'
  <2>1. log' = log \union {tx[w]} /\ log \subseteq log' /\ tx[w] \in Id
    BY <1>2 DEF Commit, Committed
  <2>2. queue' \in Seq(log') /\ rows' \in Seq(log') /\ outbox' \in Seq(log' \union {Subscribed})
    BY <1>2, <2>1, WidenSeq DEF Commit, Committed, subVars
  <2>3. phase' = [phase EXCEPT ![w] = "done"] /\ tx' = tx /\ nextId' = nextId /\ received' = received
    BY <1>2 DEF Commit, clientVars
  <2> QED BY <2>1, <2>2, <2>3 DEF Committed
<1>3. ASSUME NEW w \in Worker, Rollback(w) PROVE Committed'
  BY <1>3 DEF Rollback, Committed, subVars, clientVars
<1>4. ASSUME NEW w \in Worker, Publish(w) PROVE Committed'
  <2>1. tx[w] \in log
    BY <1>4 DEF Publish, MayPublish, Committed
  <2>2. queue' \in Seq(log)
    <3>1. Put(queue, <<tx[w]>>, QueueMax) \in Seq(log)
      BY <2>1, PutOne DEF Committed
    <3>2. queue' = Put(queue, <<tx[w]>>, QueueMax) \/ queue' = queue
      BY <1>4 DEF Publish, Listening
    <3> QED BY <3>1, <3>2 DEF Committed
  <2>3. /\ log' = log /\ nextId' = nextId /\ rows' = rows /\ outbox' = outbox
        /\ received' = received
        /\ tx' = [tx EXCEPT ![w] = 0] /\ phase' = [phase EXCEPT ![w] = "idle"]
    BY <1>4 DEF Publish, clientVars
  <2> QED BY <2>2, <2>3 DEF Committed
<1>5. CASE Connect
  BY <1>5 DEF Connect, Committed, txVars
<1>6. CASE Subscribe
  <2>1. outbox' \in Seq(log \union {Subscribed})
    <3>1. Put(outbox, <<Subscribed>>, OutboxMax) \in Seq(log \union {Subscribed})
      BY PutOne DEF Committed
    <3>2. outbox' = Put(outbox, <<Subscribed>>, OutboxMax) \/ outbox' = outbox
      BY <1>6 DEF Subscribe
    <3> QED BY <3>1, <3>2 DEF Committed
  <2> QED BY <1>6, <2>1 DEF Subscribe, Committed, txVars, clientVars
<1>7. CASE ReadReplay
  <2>1. Missed(since) \subseteq log
    BY DEF Missed
  <2>2. rows' \in Seq(log)
    BY <1>7, <2>1, InIdOrderSeq, WidenSeq DEF ReadReplay, Committed
  <2> QED BY <1>7, <2>2 DEF ReadReplay, Committed, txVars, clientVars
<1>8. CASE Replay
  <2>1. Append(rows, Subscribed) \in Seq(log \union {Subscribed})
    BY WidenSeq DEF Committed
  <2>2. outbox' \in Seq(log \union {Subscribed})
    BY <1>8, <2>1, PutSeq DEF Replay, Committed
  <2> QED BY <1>8, <2>2 DEF Replay, Committed, txVars, clientVars
<1>9. CASE Pump
  <2>1. Head(queue) \in log /\ Tail(queue) \in Seq(log)
    BY <1>9 DEF Pump, Committed
  <2>2. outbox' \in Seq(log \union {Subscribed})
    BY <1>9, <2>1, PutOne DEF Pump, Committed
  <2> QED BY <1>9, <2>1, <2>2 DEF Pump, Committed, txVars, clientVars
<1>10. CASE Disconnect
  BY <1>10 DEF Disconnect, Hangup, Committed, txVars
<1>11. CASE Restart
  BY <1>11 DEF Restart, Hangup, Committed
<1>12. CASE Deliver
  <2>1. Head(outbox) \in log \union {Subscribed} /\ Tail(outbox) \in Seq(log \union {Subscribed})
    BY <1>12 DEF Deliver, Committed
  <2>2. received' \subseteq log
    BY <1>12, <2>1 DEF Deliver, Committed
  <2> QED BY <1>12, <2>1, <2>2 DEF Deliver, Committed, txVars
<1>13. CASE Poll \/ Fetch \/ Answer \/ Fail
  BY <1>13 DEF Poll, Fetch, Answer, Fail, Committed, txVars, subVars
<1>14. CASE UNCHANGED vars
  BY <1>14 DEF Committed, vars, txVars, subVars, clientVars
<1> QED BY <1>1, <1>2, <1>3, <1>4, <1>5, <1>6, <1>7, <1>8, <1>9, <1>10, <1>11, <1>12, <1>13,
           <1>14 DEF Next

\* core/events.py, deliver and discard: an envelope reaches a client, its
\* connection's queues or a replay only after its transaction committed.
THEOREM NoPhantomHolds == Spec => []NoPhantom
<1>1. Committed => NoPhantom
  <2> SUFFICES ASSUME Committed PROVE NoPhantom
    OBVIOUS
  <2>1. Range(queue) \subseteq log /\ Range(rows) \subseteq log
    BY DEF Committed, Range
  <2>2. Events(outbox) \subseteq log
    BY DEF Committed, Range, Events
  <2> QED BY <2>1, <2>2 DEF NoPhantom, Committed
<1> QED BY <1>1, CommittedInit, CommittedNext, PTL DEF Spec

-----------------------------------------------------------------------------
(* What a bounded queue keeps. *)

\* p is s with as much of f behind it as max leaves room for.
Fills(p, s, f, max) ==
  /\ Len(s) <= Len(p) /\ Len(p) <= max /\ Len(p) <= Len(s) + Len(f)
  /\ Len(p) = Len(s) + Len(f) \/ Len(p) = max
  /\ \A k \in 1..Len(s) : p[k] = s[k]
  /\ \A k \in Len(s) + 1..Len(p) : p[k] = f[k - Len(s)]

LEMMA PutFills ==
  ASSUME NEW S, NEW s \in Seq(S), NEW f \in Seq(S), NEW max \in Nat, Len(s) <= max
  PROVE  Put(s, f, max) \in Seq(S) /\ Fills(Put(s, f, max), s, f, max)
<1> DEFINE p == Put(s, f, max)
<1> DEFINE all == s \o f
<1>1. /\ all \in Seq(S) /\ Len(all) = Len(s) + Len(f)
      /\ \A k \in 1..Len(s) : all[k] = s[k]
      /\ \A k \in Len(s) + 1..Len(all) : all[k] = f[k - Len(s)]
  OBVIOUS
<1>2. p = IF Len(all) <= max THEN all ELSE SubSeq(all, 1, max)
  BY DEF Put
<1> SUFFICES p \in Seq(S) /\ Fills(p, s, f, max)
  BY DEF p
<1> HIDE DEF all, p
<1>3. CASE Len(all) <= max
  BY <1>1, <1>2, <1>3 DEF Fills
<1>4. CASE ~(Len(all) <= max)
  <2>1. max <= Len(all)
    BY <1>1, <1>4
  <2>2. p = SubSeq(all, 1, max)
    BY <1>2, <1>4
  <2>3. p \in Seq(S) /\ Len(p) = max /\ \A k \in 1..max : p[k] = all[k]
    BY <1>1, <2>1, <2>2
  <2> QED BY <1>1, <2>1, <2>3 DEF Fills
<1> QED BY <1>3, <1>4

\* Nothing that was in the queue is lost.
LEMMA PutKeeps ==
  ASSUME NEW S, NEW s \in Seq(S), NEW f \in Seq(S), NEW max \in Nat, Len(s) <= max
  PROVE  Range(s) \subseteq Range(Put(s, f, max))
<1>1. PICK p : p = Put(s, f, max)
  OBVIOUS
<1>2. p \in Seq(S) /\ Fills(p, s, f, max)
  BY <1>1, PutFills
<1>3. Range(s) \subseteq Range(p)
  BY <1>2 DEF Range, Fills
<1> QED BY <1>1, <1>3

\* One more frame at the end displaces none.
LEMMA PutMore ==
  ASSUME NEW S, NEW s \in Seq(S), NEW f \in Seq(S), NEW e \in S, NEW max \in Nat, Len(s) <= max
  PROVE  Range(Put(s, f, max)) \subseteq Range(Put(s, Append(f, e), max))
<1>1. PICK p : p = Put(s, f, max)
  OBVIOUS
<1>2. PICK g : g = Append(f, e)
  OBVIOUS
<1>3. g \in Seq(S) /\ Len(g) = Len(f) + 1 /\ \A k \in 1..Len(f) : g[k] = f[k]
  BY <1>2
<1>4. PICK q : q = Put(s, g, max)
  OBVIOUS
<1>5. p \in Seq(S) /\ Fills(p, s, f, max)
  BY <1>1, PutFills
<1>6. q \in Seq(S) /\ Fills(q, s, g, max)
  BY <1>3, <1>4, PutFills
<1>8. Len(p) <= Len(q)
  BY <1>3, <1>5, <1>6 DEF Fills
<1>9. ASSUME NEW k \in 1..Len(p) PROVE q[k] = p[k]
  <2>1. CASE k <= Len(s)
    BY <1>5, <1>6, <2>1 DEF Fills
  <2>2. CASE Len(s) < k
    <3>1. k \in Len(s) + 1..Len(p) /\ k \in Len(s) + 1..Len(q) /\ k - Len(s) \in 1..Len(f)
      BY <1>5, <1>6, <1>8, <2>2 DEF Fills
    <3> QED BY <1>3, <1>5, <1>6, <3>1 DEF Fills
  <2> QED BY <1>5, <2>1, <2>2
<1>10. Range(p) \subseteq Range(q)
  BY <1>5, <1>6, <1>8, <1>9 DEF Range
<1> QED BY <1>1, <1>2, <1>4, <1>10

LEMMA HeadAndTail ==
  ASSUME NEW S, NEW s \in Seq(S), s # <<>>
  PROVE  /\ Head(s) \in S /\ Tail(s) \in Seq(S) /\ Len(Tail(s)) = Len(s) - 1
         /\ Range(s) = {Head(s)} \union Range(Tail(s))
<1>1. /\ Head(s) = s[1] /\ s[1] \in S /\ Tail(s) \in Seq(S) /\ Len(Tail(s)) = Len(s) - 1
      /\ Len(s) \in Nat \ {0} /\ DOMAIN s = 1..Len(s) /\ DOMAIN Tail(s) = 1..Len(s) - 1
      /\ \A k \in 1..Len(s) - 1 : Tail(s)[k] = s[k + 1]
  OBVIOUS
<1> DEFINE t == Tail(s)
<1> HIDE DEF t
<1>2. /\ DOMAIN t = 1..Len(s) - 1 /\ \A k \in 1..Len(s) - 1 : t[k] = s[k + 1]
  BY <1>1 DEF t
<1>3. ASSUME NEW k \in 1..Len(s), k # 1 PROVE s[k] \in Range(t)
  <2>1. k - 1 \in 1..Len(s) - 1 /\ s[k] = t[k - 1]
    BY <1>1, <1>2, <1>3
  <2> QED BY <1>2, <2>1 DEF Range
<1>4. Range(s) \subseteq {s[1]} \union Range(t)
  BY <1>1, <1>3 DEF Range
<1>5. ASSUME NEW k \in 1..Len(s) - 1 PROVE t[k] \in Range(s)
  <2>1. k + 1 \in 1..Len(s) /\ t[k] = s[k + 1]
    BY <1>1, <1>2
  <2> QED BY <1>1, <2>1 DEF Range
<1>6. Range(t) \subseteq Range(s) /\ s[1] \in Range(s)
  BY <1>1, <1>2, <1>5 DEF Range
<1>7. Range(s) = {s[1]} \union Range(t)
  BY <1>4, <1>6
<1> QED BY <1>1, <1>7 DEF t

\* What is put is in the queue or refused.
LEMMA PutOrRefused ==
  ASSUME NEW s, NEW f, NEW max
  PROVE  Range(f) \subseteq Range(Put(s, f, max)) \union Refused(s, f, max)
BY DEF Refused

LEMMA PutBound ==
  ASSUME NEW S, NEW s \in Seq(S), NEW f \in Seq(S), NEW max \in Nat, Len(s) <= max
  PROVE  Len(Put(s, f, max)) <= max
BY PutFills DEF Fills

\* A list of a set of ids in their order has each of them.
LEMMA InIdOrderAll ==
  ASSUME NEW S, S \subseteq Id, NEW s \in InIdOrder(S)
  PROVE  Range(s) = S
<1> DEFINE n == Cardinality(S)
<1>0. IsFiniteSet(Id)
  BY FS_Interval, FeedAssumption DEF Id
<1>1. IsFiniteSet(S) /\ n \in Nat
  BY <1>0, FS_Subset, FS_CardinalityType
<1>2. s \in [1..n -> S] /\ \A i, j \in 1..n : i < j => s[i] < s[j]
  BY DEF InIdOrder
<1>3. s \in Injection(1..n, S)
  <2>1. ASSUME NEW i \in 1..n, NEW j \in 1..n, s[i] = s[j] PROVE i = j
    <3>0. s[i] \in Id /\ s[j] \in Id
      BY <1>2
    <3>1. s[i] \in Nat /\ s[j] \in Nat
      BY <3>0, FeedAssumption DEF Id
    <3>2. ~(i < j) /\ ~(j < i)
      BY <1>2, <2>1, <3>1
    <3> QED BY <1>1, <3>2
  <2> QED BY <1>2, <2>1 DEF Injection, IsInjective
<1>4. Cardinality(1..n) = Cardinality(S)
  BY <1>1, FS_Interval
<1>5. s \in Surjection(1..n, S)
  BY <1>1, <1>3, <1>4, FS_Injection
<1> QED BY <1>2, <1>5 DEF Surjection, Range
-----------------------------------------------------------------------------
(* What a subscription is given. *)

\* The queues are within their limits, and since a subscription has read its
\* replay, every later event is with the client, on the way or known dropped.
Fed ==
  /\ since \in 0..NoSince /\ cursor \in 0..MaxId
  /\ Len(queue) <= QueueMax /\ Len(outbox) <= OutboxMax
  /\ sub \in {"read", "live"} =>
       \A i \in log : i > since => i \in received \union OnTheWay \union dropped

\* The parts of OnTheWay, one by one.
LEMMA Arriving ==
  \A i : i \in OnTheWay <=>
           \/ i \in Range(queue) \/ i \in Range(rows) \/ i \in Events(outbox)
           \/ \E w \in Worker : /\ phase[w] = "done" /\ i = tx[w]
                                /\ sub \in {"topics", "read", "live"}
BY DEF OnTheWay

LEMMA FedInit == Init => Fed
BY FeedAssumption DEF Init, Fed, NoSince

\* The steps that only move the transactions, the client's reads, or end the
\* connection.
LEMMA FedElsewhere ==
  ASSUME Committed, Fed,
         \/ \E w \in Worker : Record(w) \/ Commit(w) \/ Rollback(w)
         \/ Connect \/ Disconnect \/ Restart
         \/ Poll \/ Fetch \/ Answer \/ Fail \/ UNCHANGED vars
  PROVE  Fed'
<1> USE FeedAssumption
<1>0. \A i : i \in OnTheWay' <=>
           \/ i \in Range(queue') \/ i \in Range(rows') \/ i \in Events(outbox')
           \/ \E w \in Worker : /\ phase'[w] = "done" /\ i = tx'[w]
                                /\ sub' \in {"topics", "read", "live"}
  BY DEF OnTheWay
<1>1. ASSUME NEW w \in Worker, Record(w) \/ Commit(w) \/ Rollback(w) PROVE Fed'
  <2>1. /\ since' = since /\ queue' = queue /\ outbox' = outbox /\ rows' = rows /\ sub' = sub
        /\ received' = received /\ dropped' = dropped /\ cursor' = cursor
    BY <1>1 DEF Record, Commit, Rollback, subVars, clientVars
  <2>2. Events(outbox') = Events(outbox)
    BY <2>1
  <2>3. ASSUME NEW v \in Worker, phase[v] = "done" PROVE phase'[v] = "done" /\ tx'[v] = tx[v]
    BY <1>1, <2>3 DEF Record, Commit, Rollback, Committed
  <2>4. ASSUME NEW i \in log', i \notin log
        PROVE  i = tx'[w] /\ phase'[w] = "done"
    BY <1>1, <2>4 DEF Record, Commit, Rollback, Committed
  <2>5. ASSUME NEW i \in log', i > since', sub' \in {"read", "live"}
        PROVE  i \in received' \union OnTheWay' \union dropped'
    <3>1. CASE i \in log
      <4>1. i \in received \union OnTheWay \union dropped
        BY <2>1, <2>5, <3>1 DEF Fed
      <4>2. i \in OnTheWay => i \in OnTheWay'
        BY <1>0, <2>1, <2>2, <2>3, Arriving
      <4> QED BY <2>1, <4>1, <4>2
    <3>2. CASE i \notin log
      BY <1>0, <2>4, <2>5, <3>2
    <3> QED BY <3>1, <3>2
  <2> QED BY <2>1, <2>5 DEF Fed
<1>2. ASSUME Connect PROVE Fed'
  BY <1>2 DEF Connect, Fed, Committed, NoSince
<1>3. ASSUME Disconnect \/ Restart PROVE Fed'
  BY <1>3 DEF Disconnect, Restart, Hangup, Fed, NoSince
<1>4. ASSUME Poll \/ Fetch \/ Answer \/ Fail \/ UNCHANGED vars PROVE Fed'
  <2>1. /\ since' = since /\ queue' = queue /\ outbox' = outbox /\ rows' = rows /\ sub' = sub
        /\ received' = received /\ dropped' = dropped /\ log' = log /\ phase' = phase /\ tx' = tx
        /\ cursor' = cursor
    BY <1>4 DEF Poll, Fetch, Answer, Fail, vars, txVars, subVars, clientVars
  <2>2. OnTheWay' = OnTheWay
    BY <2>1 DEF OnTheWay, Events
  <2> QED BY <2>1, <2>2 DEF Fed, NoSince
<1> QED BY <1>1, <1>2, <1>3, <1>4

LEMMA CursorNext == Committed /\ Fed /\ [Next]_vars => cursor' \in 0..MaxId
<1> SUFFICES ASSUME Committed, Fed, [Next]_vars, cursor' # cursor PROVE cursor' \in 0..MaxId
  BY DEF Fed
<1>1. Deliver
  BY DEF Next, Record, Commit, Rollback, Publish, Connect, Subscribe, ReadReplay, Replay, Pump,
         Disconnect, Restart, Poll, Fetch, Answer, Fail, vars, clientVars
<1>2. outbox # <<>> /\ cursor' = Head(outbox) /\ Head(outbox) # Subscribed
  BY <1>1 DEF Deliver
<1>3. Head(outbox) \in log
  BY <1>2, HeadAndTail DEF Committed
<1>4. Head(outbox) \in 1..MaxId
  BY <1>3 DEF Committed, Id
<1>5. \A i \in 1..MaxId : i \in 0..MaxId
  BY FeedAssumption
<1>6. cursor' \in 1..MaxId
  BY ONLY <1>2, <1>4
<1> QED BY ONLY <1>5, <1>6

LEMMA FedNext == Committed /\ Fed /\ [Next]_vars => Fed'
<1> SUFFICES ASSUME Committed, Fed, [Next]_vars PROVE Fed'
  OBVIOUS
<1> USE FeedAssumption
<1>c. cursor' \in 0..MaxId
  BY CursorNext
<1>0. \A i : i \in OnTheWay' <=>
           \/ i \in Range(queue') \/ i \in Range(rows') \/ i \in Events(outbox')
           \/ \E w \in Worker : /\ phase'[w] = "done" /\ i = tx'[w]
                                /\ sub' \in {"topics", "read", "live"}
  BY DEF OnTheWay
<1>1. ASSUME NEW w \in Worker, Publish(w) PROVE Fed'
  <2>1. /\ since' = since /\ outbox' = outbox /\ rows' = rows /\ sub' = sub /\ log' = log
        /\ received' = received
        /\ tx' = [tx EXCEPT ![w] = 0] /\ phase' = [phase EXCEPT ![w] = "idle"]
    BY <1>1 DEF Publish, clientVars
  <2>2. Events(outbox') = Events(outbox)
    BY <2>1
  <2>3. tx[w] \in log /\ phase[w] = "done"
    BY <1>1 DEF Publish, MayPublish, Committed
  <2>4. \A v \in Worker \ {w} : phase'[v] = phase[v] /\ tx'[v] = tx[v]
    BY <2>1 DEF Committed
  <2>5. CASE ~Listening
    <3>1. queue' = queue /\ dropped' = dropped
      BY <1>1, <2>5 DEF Publish
    <3> QED BY <1>c, <2>1, <2>5, <3>1 DEF Fed, Listening
  <2>6. CASE Listening
    <3>1. <<tx[w]>> \in Seq(log) /\ queue \in Seq(log) /\ Range(<<tx[w]>>) = {tx[w]}
      BY <2>3 DEF Committed, Range
    <3>2. queue' = Put(queue, <<tx[w]>>, QueueMax)
          /\ dropped' = dropped \union Refused(queue, <<tx[w]>>, QueueMax)
      BY <1>1, <2>6 DEF Publish
    <3>3. Len(queue) <= QueueMax /\ QueueMax \in Nat
      BY DEF Fed
    <3>4. Len(queue') <= QueueMax
      BY ONLY <3>1, <3>2, <3>3, PutBound
    <3>5. Range(queue) \subseteq Range(queue')
      BY ONLY <3>1, <3>2, <3>3, PutKeeps
    <3>6. tx[w] \in Range(queue') \union dropped'
      BY <3>1, <3>2, PutOrRefused
    <3>7. ASSUME NEW i, i \in OnTheWay PROVE i \in OnTheWay' \union dropped'
      <4>1. CASE i = tx[w]
        BY <1>0, <3>6, <4>1
      <4>2. CASE i # tx[w]
        BY <1>0, <2>1, <2>2, <2>4, <3>5, <3>7, <4>2, Arriving
      <4> QED BY <4>1, <4>2
    <3>8. dropped \subseteq dropped'
      BY <3>2
    <3> QED BY <1>c, <2>1, <3>4, <3>7, <3>8 DEF Fed
  <2> QED BY <2>5, <2>6
<1>2. CASE Subscribe
  <2>1. sub' = "live" => \A i \in log' : ~(i > since')
    BY <1>2 DEF Subscribe, Committed, Id, NoSince, txVars
  <2>2. Len(outbox') <= OutboxMax
    <3>1. <<Subscribed>> \in Seq(log \union {Subscribed}) /\ outbox \in Seq(log \union {Subscribed})
      BY DEF Committed
    <3>2. Len(outbox) <= OutboxMax /\ OutboxMax \in Nat
      BY DEF Fed
    <3>3. Len(Put(outbox, <<Subscribed>>, OutboxMax)) <= OutboxMax
      BY ONLY <3>1, <3>2, PutBound
    <3> QED BY <1>2, <3>2, <3>3 DEF Subscribe
  <2>3. sub' \in {"topics", "live"} /\ since' = since /\ queue' = queue
    BY <1>2 DEF Subscribe
  <2> QED BY <1>c, <2>1, <2>2, <2>3 DEF Fed
<1>3. CASE ReadReplay
  <2>1. /\ since' = since /\ outbox' = outbox /\ queue' = queue /\ log' = log
        /\ rows' \in InIdOrder(Missed(since))
        /\ dropped' = dropped \union ({i \in log : i > since} \ Missed(since))
    BY <1>3 DEF ReadReplay, txVars
  <2>2. Missed(since) \subseteq Id
    BY DEF Missed, Committed
  <2>3. Range(rows') = Missed(since)
    BY ONLY <2>1, <2>2, InIdOrderAll
  <2>4. ASSUME NEW i \in log', i > since' PROVE i \in OnTheWay' \union dropped'
    BY <1>0, <2>1, <2>3, <2>4
  <2> QED BY <1>c, <2>1, <2>4 DEF Fed
<1>4. CASE Replay
  <2> DEFINE S == log \union {Subscribed}
  <2>1. /\ since' = since /\ queue' = queue /\ rows' = <<>> /\ log' = log /\ received' = received
        /\ phase' = phase /\ tx' = tx /\ sub = "read"
        /\ outbox' = Put(outbox, Append(rows, Subscribed), OutboxMax)
        /\ dropped' = dropped \union Refused(outbox, rows, OutboxMax)
    BY <1>4 DEF Replay, txVars, clientVars
  <2>2. rows \in Seq(S) /\ outbox \in Seq(S) /\ Subscribed \in S
    BY WidenSeq DEF Committed
  <2>3. Append(rows, Subscribed) \in Seq(S)
    BY <2>2
  <2>4. Len(outbox) <= OutboxMax /\ OutboxMax \in Nat
    BY DEF Fed
  <2> HIDE DEF S
  <2>5. Len(outbox') <= OutboxMax
    BY ONLY <2>1, <2>2, <2>3, <2>4, PutBound
  <2>6. Range(outbox) \subseteq Range(outbox')
    BY ONLY <2>1, <2>2, <2>3, <2>4, PutKeeps
  <2>7. Range(Put(outbox, rows, OutboxMax)) \subseteq Range(outbox')
    BY ONLY <2>1, <2>2, <2>4, PutMore
  <2>8. Range(rows) \subseteq Range(outbox') \union dropped'
    BY <2>1, <2>7, PutOrRefused
  <2>9. Range(rows) \subseteq log /\ Subscribed \notin log
    BY DEF Committed, Range, Subscribed, Id
  <2>10. Range(rows) \subseteq Events(outbox') \union dropped'
    BY <2>8, <2>9 DEF Events
  <2>11. Events(outbox) \subseteq Events(outbox')
    BY <2>6 DEF Events
  <2>12. sub' \in {"topics", "read", "live"}
    BY <1>4 DEF Replay
  <2>13. ASSUME NEW i, i \in OnTheWay PROVE i \in OnTheWay' \union dropped'
    BY <1>0, <2>1, <2>10, <2>11, <2>12, <2>13, Arriving
  <2> QED BY <1>c, <2>1, <2>5, <2>13 DEF Fed
<1>5. CASE Pump
  <2> DEFINE S == log \union {Subscribed}
             e == Head(queue)
  <2>1. /\ since' = since /\ rows' = rows /\ log' = log /\ received' = received
        /\ phase' = phase /\ tx' = tx /\ sub' = sub /\ queue # <<>> /\ queue' = Tail(queue)
        /\ outbox' = Put(outbox, <<e>>, OutboxMax)
        /\ dropped' = dropped \union Refused(outbox, <<e>>, OutboxMax)
    BY <1>5 DEF Pump, txVars, clientVars
  <2>2. e \in log /\ Range(queue) = {e} \union Range(queue') /\ Len(queue') <= Len(queue)
    <3>1. queue \in Seq(log)
      BY DEF Committed
    <3>2. Len(queue') = Len(queue) - 1 /\ Len(queue) \in Nat
      BY <2>1, <3>1, HeadAndTail
    <3>3. e \in log /\ Range(queue) = {e} \union Range(queue')
      BY <2>1, <3>1, HeadAndTail
    <3> QED BY <3>2, <3>3
  <2>3. <<e>> \in Seq(S) /\ outbox \in Seq(S) /\ Range(<<e>>) = {e}
    BY <2>2 DEF Committed, Range
  <2>4. Len(outbox) <= OutboxMax /\ OutboxMax \in Nat /\ Len(queue) <= QueueMax
    BY DEF Fed
  <2> HIDE DEF S, e
  <2>5. Len(outbox') <= OutboxMax
    BY ONLY <2>1, <2>3, <2>4, PutBound
  <2>6. Range(outbox) \subseteq Range(outbox')
    BY ONLY <2>1, <2>3, <2>4, PutKeeps
  <2>7. e \in Range(outbox') \union dropped'
    BY <2>1, <2>3, PutOrRefused
  <2>8. e # Subscribed
    BY <2>2 DEF Committed, Subscribed, Id
  <2>9. e \in Events(outbox') \union dropped' /\ Events(outbox) \subseteq Events(outbox')
    BY <2>6, <2>7, <2>8 DEF Events
  <2>10. ASSUME NEW i, i \in OnTheWay PROVE i \in OnTheWay' \union dropped'
    BY <1>0, <2>1, <2>2, <2>9, <2>10, Arriving
  <2>11. Len(queue') <= QueueMax
    <3>1. Len(queue) \in Nat /\ Len(queue') \in Nat /\ QueueMax \in Nat
      BY <2>1 DEF Committed
    <3> QED BY <2>2, <2>4, <3>1
  <2> QED BY <1>c, <2>1, <2>5, <2>10, <2>11 DEF Fed
<1>6. CASE Deliver
  <2> DEFINE e == Head(outbox)
  <2>1. /\ since' = since /\ rows' = rows /\ log' = log /\ queue' = queue
        /\ phase' = phase /\ tx' = tx /\ sub' = sub /\ dropped' = dropped
        /\ outbox # <<>> /\ outbox' = Tail(outbox)
    BY <1>6 DEF Deliver, txVars
  <2>2. received' = IF e = Subscribed THEN received ELSE received \union {e}
    BY <1>6 DEF Deliver
  <2>3. Range(outbox) = {e} \union Range(outbox') /\ Len(outbox') <= Len(outbox)
    <3>1. outbox \in Seq(log \union {Subscribed})
      BY DEF Committed
    <3>2. Len(outbox') = Len(outbox) - 1 /\ Len(outbox) \in Nat
      BY <2>1, <3>1, HeadAndTail
    <3>3. Range(outbox) = {e} \union Range(outbox')
      BY <2>1, <3>1, HeadAndTail
    <3> QED BY <3>2, <3>3
  <2>4. Events(outbox) \subseteq Events(outbox') \union received'
    BY <2>2, <2>3 DEF Events
  <2>5. ASSUME NEW i, i \in OnTheWay PROVE i \in OnTheWay' \union received'
    BY <1>0, <2>1, <2>4, <2>5, Arriving
  <2>6. Len(outbox') <= OutboxMax
    <3>1. Len(outbox) \in Nat /\ Len(outbox') \in Nat /\ OutboxMax \in Nat
      BY <2>1 DEF Committed
    <3>2. Len(outbox) <= OutboxMax
      BY DEF Fed
    <3> QED BY <2>3, <3>1, <3>2
  <2>7. received \subseteq received'
    BY <2>2
  <2> QED BY <1>c, <2>1, <2>5, <2>6, <2>7 DEF Fed
<1>7. CASE \/ \E w \in Worker : Record(w) \/ Commit(w) \/ Rollback(w)
           \/ Connect \/ Disconnect \/ Restart
           \/ Poll \/ Fetch \/ Answer \/ Fail \/ UNCHANGED vars
  BY ONLY <1>7, FedElsewhere, Committed, Fed
<1> QED BY <1>1, <1>2, <1>3, <1>4, <1>5, <1>6, <1>7 DEF Next

\* api/v1/ws.py, _handle_subscribe, and core/events.py, _Subscription.push: a
\* subscription that has its replay is given every later event, unless a full
\* queue or the replay limit left it out; for any number of transactions, ids
\* and any limits.
THEOREM FedSinceHolds == Spec => []FedSince
<1>1. Fed => FedSince
  BY DEF Fed, FedSince
<1> QED BY <1>1, CommittedInit, CommittedNext, FedInit, FedNext, PTL DEF Spec
-----------------------------------------------------------------------------
(* What a live client shows. *)

\* Nothing is left on a connection that has ended.
Closed == conn = "down" => sub = "none" /\ queue = <<>> /\ outbox = <<>>

\* The answer to a subscription is sent once, when it is live.
OneAnswer ==
  /\ \A m, n \in 1..Len(outbox) : outbox[m] = Subscribed /\ outbox[n] = Subscribed => m = n
  /\ sub # "live" => \A m \in 1..Len(outbox) : outbox[m] # Subscribed

\* Reads in flight, as many as there are, and a board that one of them brought.
Reads == fetches \in Seq(SUBSET log) /\ board \subseteq shown

\* Event i was shown, is about to be, or is only in a read that failed.
Read(i) == i \in shown \union unread \/ \E n \in 1..Len(fetches) : i \in fetches[n]

\* Something will make the client read the board.
Stirred == queue # <<>> \/ Events(outbox) # {} \/ dirty

Told == announced \subseteq log /\ \A i \in announced : Stirred \/ Read(i)

\* A queue that takes one more frame has it last, or is full.
LEMMA PutLast ==
  ASSUME NEW S, NEW s \in Seq(S), NEW e \in S, NEW max \in Nat, Len(s) <= max,
         NEW p, p = Put(s, <<e>>, max)
  PROVE  /\ p \in Seq(S) /\ \A k \in 1..Len(s) : p[k] = s[k]
         /\ \/ Len(p) = Len(s) + 1 /\ p[Len(s) + 1] = e
            \/ Len(p) = Len(s) /\ Len(p) = max
<1>1. <<e>> \in Seq(S) /\ Len(<<e>>) = 1 /\ <<e>>[1] = e
  OBVIOUS
<1>2. PICK f : f = <<e>>
  OBVIOUS
<1>3. f \in Seq(S) /\ Len(f) = 1 /\ f[1] = e /\ p = Put(s, f, max)
  BY <1>1, <1>2
<1>4. p \in Seq(S) /\ Fills(p, s, f, max)
  BY ONLY <1>3, PutFills, s \in Seq(S), max \in Nat, Len(s) <= max
<1>5. Len(s) \in Nat /\ Len(p) \in Nat
  BY <1>4
<1>6. /\ Len(s) <= Len(p) /\ Len(p) <= Len(s) + 1
      /\ Len(p) = Len(s) + 1 \/ Len(p) = max
  BY <1>3, <1>4 DEF Fills
<1>7. CASE Len(p) = Len(s) + 1
  <2>1. p[Len(s) + 1] = f[Len(s) + 1 - Len(s)]
    BY <1>4, <1>5, <1>7 DEF Fills
  <2>2. Len(s) + 1 - Len(s) = 1
    BY <1>5
  <2> QED BY <1>3, <1>4, <1>7, <2>1, <2>2 DEF Fills
<1>8. CASE Len(p) # Len(s) + 1
  BY <1>4, <1>5, <1>6, <1>8 DEF Fills
<1> QED BY <1>7, <1>8

LEMMA ClosedNext == Closed /\ [Next]_vars => Closed'
<1> SUFFICES ASSUME Closed, [Next]_vars PROVE Closed'
  OBVIOUS
<1>1. CASE Disconnect \/ Restart
  BY <1>1 DEF Disconnect, Restart, Hangup, Closed
<1>2. CASE Connect \/ Deliver
  BY <1>2 DEF Connect, Deliver, Closed
<1>3. ASSUME NEW w \in Worker, Publish(w) PROVE Closed'
  BY <1>3 DEF Publish, Listening, Closed, clientVars
<1>4. CASE Subscribe \/ ReadReplay \/ Replay \/ Pump
  BY <1>4 DEF Subscribe, ReadReplay, Replay, Pump, Closed, clientVars
<1>5. CASE \/ \E w \in Worker : Record(w) \/ Commit(w) \/ Rollback(w)
           \/ Poll \/ Fetch \/ Answer \/ Fail \/ UNCHANGED vars
  BY <1>5 DEF Record, Commit, Rollback, Poll, Fetch, Answer, Fail, vars, subVars, clientVars, Closed
<1> QED BY <1>1, <1>2, <1>3, <1>4, <1>5 DEF Next

LEMMA OneAnswerNext == Committed /\ Fed /\ Closed /\ OneAnswer /\ [Next]_vars => OneAnswer'
<1> SUFFICES ASSUME Committed, Fed, Closed, OneAnswer, [Next]_vars PROVE OneAnswer'
  OBVIOUS
<1> USE FeedAssumption
<1> DEFINE S == log \union {Subscribed}
<1>1. /\ outbox \in Seq(S) /\ Len(outbox) <= OutboxMax /\ Subscribed \in S
      /\ Subscribed \notin log
  BY DEF Committed, Fed, Subscribed, Id
<1> HIDE DEF S
<1>2. CASE Subscribe
  <2>1. sub # "live" /\ sub' \in {"topics", "live"}
    BY <1>2 DEF Subscribe
  <2>2. CASE outbox' = outbox
    BY <1>1, <2>1, <2>2 DEF OneAnswer
  <2>3. CASE sub' = "live" /\ outbox' = Put(outbox, <<Subscribed>>, OutboxMax)
    <3>1. PICK p : p = Put(outbox, <<Subscribed>>, OutboxMax)
      OBVIOUS
    <3>2. /\ p \in Seq(S) /\ \A k \in 1..Len(outbox) : p[k] = outbox[k]
          /\ Len(p) = Len(outbox) + 1 \/ Len(p) = Len(outbox)
      BY ONLY <1>1, <3>1, PutLast, FeedAssumption
    <3>3. ASSUME NEW m \in 1..Len(p), p[m] = Subscribed PROVE m = Len(outbox) + 1
      BY <1>1, <2>1, <3>2, <3>3 DEF OneAnswer
    <3> QED BY <2>3, <3>1, <3>3 DEF OneAnswer
  <2> QED BY <1>2, <2>2, <2>3 DEF Subscribe
<1>3. CASE Replay
  <2>1. /\ sub = "read" /\ sub' = "live"
        /\ outbox' = Put(outbox, Append(rows, Subscribed), OutboxMax)
    BY <1>3 DEF Replay
  <2>2. PICK f : f = Append(rows, Subscribed)
    OBVIOUS
  <2>3. rows \in Seq(log) /\ rows \in Seq(S)
    BY WidenSeq DEF Committed, S
  <2>4. f \in Seq(S) /\ Len(f) = Len(rows) + 1 /\ \A k \in 1..Len(rows) : f[k] \in log
    BY <1>1, <2>2, <2>3
  <2>5. PICK p : p = Put(outbox, f, OutboxMax)
    OBVIOUS
  <2>6. p \in Seq(S) /\ Fills(p, outbox, f, OutboxMax)
    BY ONLY <1>1, <2>4, <2>5, PutFills, FeedAssumption
  <2>7. ASSUME NEW m \in 1..Len(p), p[m] = Subscribed PROVE m = Len(outbox) + Len(rows) + 1
    <3>1. m \in Len(outbox) + 1..Len(p)
      BY <1>1, <2>1, <2>6, <2>7 DEF OneAnswer, Fills
    <3>2. p[m] = f[m - Len(outbox)] /\ m - Len(outbox) \in 1..Len(rows) + 1
      BY <1>1, <2>3, <2>4, <2>6, <3>1 DEF Fills
    <3>3. m - Len(outbox) \notin 1..Len(rows)
      BY <1>1, <2>4, <2>7, <3>2
    <3>4. Len(outbox) \in Nat /\ Len(rows) \in Nat
      BY <1>1, <2>3
    <3> QED BY <3>2, <3>3, <3>4
  <2> QED BY <2>1, <2>2, <2>5, <2>7 DEF OneAnswer
<1>4. CASE Pump
  <2> DEFINE e == Head(queue)
  <2>1. queue # <<>> /\ outbox' = Put(outbox, <<e>>, OutboxMax) /\ sub' = sub
    BY <1>4 DEF Pump
  <2>2. e \in log /\ e \in S /\ e # Subscribed
    BY <1>1, <2>1, HeadAndTail DEF Committed, S
  <2> HIDE DEF e
  <2>3. PICK p : p = Put(outbox, <<e>>, OutboxMax)
    OBVIOUS
  <2>4. /\ p \in Seq(S) /\ \A k \in 1..Len(outbox) : p[k] = outbox[k]
        /\ \/ Len(p) = Len(outbox) + 1 /\ p[Len(outbox) + 1] = e
           \/ Len(p) = Len(outbox) /\ Len(p) = OutboxMax
    BY ONLY <1>1, <2>2, <2>3, PutLast, FeedAssumption
  <2>5. ASSUME NEW m \in 1..Len(p), p[m] = Subscribed
        PROVE  m \in 1..Len(outbox) /\ outbox[m] = Subscribed
    <3>1. Len(outbox) \in Nat
      BY <1>1
    <3> QED BY <2>2, <2>4, <2>5, <3>1
  <2> QED BY <2>1, <2>3, <2>5 DEF OneAnswer
<1>5. CASE Disconnect \/ Restart
  BY <1>5 DEF Disconnect, Restart, Hangup, OneAnswer
<1>6. CASE Deliver
  <2>1. outbox # <<>> /\ outbox' = Tail(outbox) /\ sub' = sub
    BY <1>6 DEF Deliver
  <2>2. PICK t : t = Tail(outbox)
    OBVIOUS
  <2>3. \A m \in 1..Len(t) : m + 1 \in 1..Len(outbox) /\ t[m] = outbox[m + 1]
    BY <1>1, <2>1, <2>2
  <2>4. Len(t) \in Nat
    BY <1>1, <2>1, <2>2
  <2>5. ASSUME NEW m \in 1..Len(t), NEW n \in 1..Len(t), t[m] = Subscribed, t[n] = Subscribed
        PROVE  m = n
    <3>1. m + 1 = n + 1
      BY <2>3, <2>5 DEF OneAnswer
    <3> QED BY <2>4, <3>1
  <2>6. sub # "live" => \A m \in 1..Len(t) : t[m] # Subscribed
    BY <2>3 DEF OneAnswer
  <2> QED BY <2>1, <2>2, <2>5, <2>6 DEF OneAnswer
<1>7. CASE ReadReplay \/ Connect
  <2>1. outbox' = outbox /\ sub # "live"
    BY <1>7 DEF ReadReplay, Connect, Closed
  <2> QED BY <2>1 DEF OneAnswer
<1>8. CASE \/ \E w \in Worker : Record(w) \/ Commit(w) \/ Rollback(w) \/ Publish(w)
           \/ Poll \/ Fetch \/ Answer \/ Fail \/ UNCHANGED vars
  <2>1. outbox' = outbox /\ sub' = sub
    BY <1>8 DEF Record, Commit, Rollback, Publish, Poll, Fetch, Answer, Fail, vars, subVars
  <2> QED BY <2>1 DEF OneAnswer
<1> QED BY <1>2, <1>3, <1>4, <1>5, <1>6, <1>7, <1>8 DEF Next

LEMMA Joined ==
  ASSUME NEW S, NEW a \in Seq(S), NEW b \in Seq(S)
  PROVE  /\ a \o b \in Seq(S) /\ Len(a \o b) = Len(a) + Len(b)
         /\ \A k \in 1..Len(a) + Len(b) : (a \o b)[k] = IF k <= Len(a) THEN a[k] ELSE b[k - Len(a)]
OBVIOUS

\* One read less: every other one is still in flight, and the rest are old ones.
LEMMA RemoveRead ==
  ASSUME NEW S, NEW s \in Seq(S), NEW n \in 1..Len(s), NEW r, r = RemoveAt(s, n)
  PROVE  /\ r \in Seq(S)
         /\ \A m \in 1..Len(s) : m # n => \E k \in 1..Len(r) : r[k] = s[m]
<1> DEFINE a == SubSeq(s, 1, n - 1)
           b == SubSeq(s, n + 1, Len(s))
<1>1. Len(s) \in Nat /\ n \in Nat /\ 1 <= n /\ n <= Len(s)
  OBVIOUS
<1>2. a \in Seq(S) /\ Len(a) = n - 1 /\ \A k \in 1..n - 1 : a[k] = s[k]
  BY <1>1
<1>3. b \in Seq(S) /\ Len(b) = Len(s) - n /\ \A k \in 1..Len(s) - n : b[k] = s[n + k]
  BY <1>1
<1>4. r = a \o b
  BY DEF RemoveAt
<1> HIDE DEF a, b
<1>5. /\ r \in Seq(S) /\ Len(r) = Len(s) - 1
      /\ \A k \in 1..n - 1 : r[k] = a[k]
      /\ \A k \in n..Len(s) - 1 : r[k] = b[k - (n - 1)]
  <2>0. PICK x \in Seq(S), y \in Seq(S) : x = a /\ y = b
    BY <1>2, <1>3
  <2>1. /\ r \in Seq(S) /\ Len(r) = Len(a) + Len(b)
        /\ \A k \in 1..Len(a) + Len(b) : r[k] = IF k <= Len(a) THEN a[k] ELSE b[k - Len(a)]
    <3>1. /\ x \o y \in Seq(S) /\ Len(x \o y) = Len(x) + Len(y)
          /\ \A k \in 1..Len(x) + Len(y) : (x \o y)[k] = IF k <= Len(x) THEN x[k] ELSE y[k - Len(x)]
      BY ONLY Joined
    <3> QED BY ONLY <1>4, <2>0, <3>1
  <2>2. Len(a) + Len(b) = Len(s) - 1 /\ Len(a) = n - 1
    BY <1>1, <1>2, <1>3
  <2>3. \A k \in 1..Len(s) - 1 : r[k] = IF k <= n - 1 THEN a[k] ELSE b[k - (n - 1)]
    BY <2>1, <2>2
  <2>4. \A k \in 1..n - 1 : k \in 1..Len(s) - 1 /\ k <= n - 1
    BY <1>1
  <2>5. \A k \in n..Len(s) - 1 : k \in 1..Len(s) - 1 /\ ~(k <= n - 1)
    BY <1>1
  <2> QED BY <2>1, <2>2, <2>3, <2>4, <2>5
<1>6. ASSUME NEW m \in 1..Len(s), m # n PROVE \E k \in 1..Len(r) : r[k] = s[m]
  <2>1. CASE m < n
    <3>1. m \in 1..n - 1 /\ m \in 1..Len(r)
      BY <1>1, <1>5, <2>1
    <3> QED BY <1>2, <1>5, <3>1
  <2>2. CASE m > n
    <3>1. /\ m - 1 \in n..Len(s) - 1 /\ m - 1 \in 1..Len(r)
          /\ m - n \in 1..Len(s) - n /\ m - 1 - (n - 1) = m - n /\ n + (m - n) = m
      BY <1>1, <1>5, <2>2
    <3> QED BY <1>3, <1>5, <3>1
  <2> QED BY <1>1, <1>6, <2>1, <2>2
<1> QED BY <1>5, <1>6

LEMMA ReadsNext == Committed /\ Reads /\ [Next]_vars => Reads'
<1> SUFFICES ASSUME Committed, Reads, [Next]_vars PROVE Reads'
  OBVIOUS
<1>1. ASSUME NEW w \in Worker, Commit(w) PROVE Reads'
  <2>1. log \subseteq log' /\ fetches' = fetches /\ board' = board /\ shown' = shown
    BY <1>1 DEF Commit, clientVars
  <2>2. fetches \in Seq(SUBSET log')
    BY <2>1 DEF Reads
  <2> QED BY <2>1, <2>2 DEF Reads
<1>2. CASE Fetch
  <2>1. log' = log /\ board' = board /\ shown' = shown /\ fetches' = Append(fetches, log)
    BY <1>2 DEF Fetch, txVars
  <2> QED BY <2>1 DEF Reads
<1>3. CASE Answer \/ Fail
  <2>1. PICK n \in 1..Len(fetches) :
          /\ fetches' = RemoveAt(fetches, n)
          /\ \/ board' = fetches[n] /\ shown' = shown \union fetches[n]
             \/ board' = board /\ shown' = shown
    BY <1>3 DEF Answer, Fail
  <2>2. log' = log /\ board' \subseteq shown'
    BY <1>3, <2>1 DEF Answer, Fail, txVars, Reads
  <2>3. PICK r : r = RemoveAt(fetches, n)
    OBVIOUS
  <2>4. r \in Seq(SUBSET log)
    BY RemoveRead, <2>3 DEF Reads
  <2> QED BY <2>1, <2>2, <2>3, <2>4 DEF Reads
<1>4. CASE \/ \E w \in Worker : Record(w) \/ Rollback(w) \/ Publish(w)
           \/ Connect \/ Subscribe \/ ReadReplay \/ Replay \/ Pump \/ Disconnect \/ Restart
           \/ Deliver \/ Poll \/ UNCHANGED vars
  <2>1. log' = log /\ fetches' = fetches /\ board' = board /\ shown' = shown
    BY <1>4 DEF Record, Rollback, Publish, Connect, Subscribe, ReadReplay, Replay, Pump,
                Disconnect, Restart, Deliver, Poll, vars, txVars, clientVars
  <2> QED BY <2>1 DEF Reads
<1> QED BY <1>1, <1>2, <1>3, <1>4 DEF Next

\* While frames wait for the client, an event on the way stays one: what a full
\* outbox drops leaves another behind it.
LEMMA StirredNext ==
  ASSUME Committed, Fed, OneAnswer, QueueMax >= 1, OutboxMax >= 2, Stirred,
         \/ \E w \in Worker : Publish(w)
         \/ Subscribe \/ Replay \/ Pump \/ Deliver
  PROVE  Stirred'
<1> USE FeedAssumption
<1> DEFINE S == log \union {Subscribed}
<1>1. /\ outbox \in Seq(S) /\ Len(outbox) <= OutboxMax /\ Subscribed \in S
      /\ Subscribed \notin log /\ queue \in Seq(log) /\ Len(queue) <= QueueMax
  BY DEF Committed, Fed, Subscribed, Id
<1>2. rows \in Seq(log) /\ rows \in Seq(S)
  BY WidenSeq DEF Committed
<1> HIDE DEF S
<1>3. ASSUME NEW w \in Worker, Publish(w) PROVE Stirred'
  <2>1. outbox' = outbox /\ dirty' = dirty /\ tx[w] \in log
    BY <1>3 DEF Publish, clientVars, MayPublish, Committed
  <2>2. CASE queue' = queue
    BY <2>1, <2>2 DEF Stirred, Events
  <2>3. CASE queue' = Put(queue, <<tx[w]>>, QueueMax)
    <3>1. PICK p : p = Put(queue, <<tx[w]>>, QueueMax)
      OBVIOUS
    <3>2. p \in Seq(log) /\ (Len(p) = Len(queue) + 1 \/ Len(p) = QueueMax)
      BY ONLY <1>1, <2>1, <3>1, PutLast, FeedAssumption
    <3>3. Len(queue) \in Nat
      BY <1>1
    <3>4. Len(p) # 0
      BY <3>2, <3>3
    <3>5. p # <<>>
      BY <3>4
    <3> QED BY <2>3, <3>1, <3>5 DEF Stirred
  <2> QED BY <1>3, <2>2, <2>3 DEF Publish
<1>4. CASE Subscribe \/ Replay
  <2>1. queue' = queue /\ dirty' = dirty
    BY <1>4 DEF Subscribe, Replay, clientVars
  <2>2. Range(outbox) \subseteq Range(outbox')
    <3>1. <<Subscribed>> \in Seq(S) /\ Append(rows, Subscribed) \in Seq(S)
      BY <1>1, <1>2
    <3>2. \A f \in Seq(S) : Range(outbox) \subseteq Range(Put(outbox, f, OutboxMax))
      BY ONLY <1>1, PutKeeps, FeedAssumption
    <3>3. outbox' \in {outbox, Put(outbox, <<Subscribed>>, OutboxMax),
                       Put(outbox, Append(rows, Subscribed), OutboxMax)}
      BY <1>4 DEF Subscribe, Replay
    <3> QED BY <3>1, <3>2, <3>3
  <2> QED BY <2>1, <2>2 DEF Stirred, Events
<1>5. CASE Pump
  <2> DEFINE e == Head(queue)
  <2>1. outbox' = Put(outbox, <<e>>, OutboxMax) /\ queue # <<>>
    BY <1>5 DEF Pump
  <2>2. e \in log /\ e \in S
    BY <1>1, <2>1, HeadAndTail DEF S
  <2> HIDE DEF e
  <2>3. PICK p : p = Put(outbox, <<e>>, OutboxMax)
    OBVIOUS
  <2>4. /\ p \in Seq(S) /\ \A k \in 1..Len(outbox) : p[k] = outbox[k]
        /\ \/ Len(p) = Len(outbox) + 1 /\ p[Len(outbox) + 1] = e
           \/ Len(p) = Len(outbox) /\ Len(p) = OutboxMax
    BY ONLY <1>1, <2>2, <2>3, PutLast, FeedAssumption
  <2>5. Len(outbox) \in Nat /\ DOMAIN p = 1..Len(p)
    BY <1>1, <2>4
  <2>6. PICK m \in 1..Len(p) : p[m] # Subscribed
    <3>1. CASE Len(p) = Len(outbox) + 1 /\ p[Len(outbox) + 1] = e
      BY <1>1, <2>2, <2>5, <3>1
    <3>2. CASE Len(p) = Len(outbox) /\ Len(p) = OutboxMax
      <4>1. 1 \in 1..Len(p) /\ 2 \in 1..Len(p) /\ 1 \in 1..Len(outbox) /\ 2 \in 1..Len(outbox)
        BY <2>5, <3>2
      <4>2. ~(outbox[1] = Subscribed /\ outbox[2] = Subscribed)
        BY <4>1 DEF OneAnswer
      <4> QED BY <2>4, <4>1, <4>2
    <3> QED BY <2>4, <3>1, <3>2
  <2>7. p[m] \in Events(p)
    BY <2>5, <2>6 DEF Events, Range
  <2> QED BY <2>1, <2>3, <2>7 DEF Stirred
<1>6. CASE Deliver
  <2>1. queue' = queue /\ outbox # <<>> /\ outbox' = Tail(outbox)
    BY <1>6 DEF Deliver
  <2>2. Range(outbox) = {Head(outbox)} \union Range(outbox')
    BY <1>1, <2>1, HeadAndTail
  <2>3. CASE Head(outbox) = Subscribed
    <3>1. Events(outbox') = Events(outbox) /\ dirty' = dirty
      BY <1>6, <2>2, <2>3 DEF Deliver, Events
    <3> QED BY <2>1, <3>1 DEF Stirred
  <2>4. CASE Head(outbox) # Subscribed
    BY <1>6, <2>4 DEF Deliver, Dirty, Stirred
  <2> QED BY <2>3, <2>4
<1> QED BY <1>3, <1>4, <1>5, <1>6

LEMMA ToldNext ==
  ASSUME Committed, Fed, OneAnswer, Reads, Told, [Next]_vars,
         QueueMax >= 1, OutboxMax >= 2
  PROVE  Told'
<1> USE FeedAssumption
<1>1. ASSUME NEW w \in Worker, Publish(w) PROVE Told'
  <2>1. /\ log' = log /\ shown' = shown /\ unread' = unread /\ fetches' = fetches
        /\ tx[w] \in log
    BY <1>1 DEF Publish, clientVars, MayPublish, Committed
  <2>2. CASE ~Listening
    <3>1. queue' = queue /\ outbox' = outbox /\ dirty' = dirty /\ announced' = announced
      BY <1>1, <2>2 DEF Publish, clientVars
    <3> QED BY <2>1, <3>1 DEF Told, Stirred, Events, Read
  <2>3. CASE Listening
    <3>1. queue' = Put(queue, <<tx[w]>>, QueueMax) /\ announced' = announced \union {tx[w]}
      BY <1>1, <2>3 DEF Publish
    <3>2. queue \in Seq(log) /\ Len(queue) <= QueueMax
      BY DEF Committed, Fed
    <3>3. PICK p : p = Put(queue, <<tx[w]>>, QueueMax)
      OBVIOUS
    <3>4. p \in Seq(log) /\ (Len(p) = Len(queue) + 1 \/ Len(p) = QueueMax)
      BY ONLY <2>1, <3>2, <3>3, PutLast, FeedAssumption
    <3>5. Len(queue) \in Nat
      BY <3>2
    <3>6. Len(p) # 0
      BY <3>4, <3>5
    <3>7. p # <<>>
      BY <3>6
    <3>8. announced' \subseteq log'
      BY <2>1, <3>1 DEF Told
    <3> QED BY <3>1, <3>3, <3>7, <3>8 DEF Told, Stirred
  <2> QED BY <2>2, <2>3
<1>2. CASE Disconnect \/ Restart
  BY <1>2 DEF Disconnect, Restart, Hangup, Told
<1>3. CASE Subscribe \/ Replay \/ Pump \/ Deliver
  <2>1. /\ log' = log /\ announced' = announced
        /\ shown' = shown /\ unread' = unread /\ fetches' = fetches
    BY <1>3 DEF Subscribe, Replay, Pump, Deliver, txVars, clientVars
  <2>2. Stirred => Stirred'
    BY <1>3, StirredNext
  <2> QED BY <2>1, <2>2 DEF Told, Read
<1>4. ASSUME NEW w \in Worker, Commit(w) PROVE Told'
  <2>1. /\ log \subseteq log' /\ announced' = announced
        /\ shown' = shown /\ unread' = unread /\ fetches' = fetches
        /\ queue' = queue /\ outbox' = outbox /\ dirty' = dirty
    BY <1>4 DEF Commit, subVars, clientVars
  <2> QED BY <2>1 DEF Told, Stirred, Events, Read
<1>5. CASE Fetch
  <2>1. log' = log /\ announced' = announced /\ fetches' = Append(fetches, log)
    BY <1>5 DEF Fetch, txVars, subVars
  <2>2. PICK m : m = Len(fetches) + 1
    OBVIOUS
  <2>3. m \in 1..Len(fetches') /\ fetches'[m] = log
    BY <2>1, <2>2 DEF Reads
  <2> QED BY <2>1, <2>3 DEF Told, Read
<1>7. CASE Answer \/ Fail
  <2>1. /\ log' = log /\ announced' = announced
        /\ queue' = queue /\ outbox' = outbox /\ dirty' = dirty
    BY <1>7 DEF Answer, Fail, txVars, subVars
  <2>2. PICK n \in 1..Len(fetches) :
          /\ fetches' = RemoveAt(fetches, n)
          /\ \/ shown' = shown \union fetches[n] /\ unread' = unread \ fetches[n]
             \/ shown' = shown /\ unread' = unread \union (fetches[n] \ board)
    BY <1>7 DEF Answer, Fail
  <2>3. PICK r : r = RemoveAt(fetches, n)
    OBVIOUS
  <2>4. \A m \in 1..Len(fetches) : m # n => \E k \in 1..Len(r) : r[k] = fetches[m]
    BY RemoveRead, <2>3 DEF Reads
  <2>5. ASSUME NEW i, Read(i) PROVE Read(i)'
    <3>1. CASE i \in shown \union unread \union fetches[n]
      BY <2>2, <3>1 DEF Reads, Read
    <3>2. CASE \E m \in 1..Len(fetches) : m # n /\ i \in fetches[m]
      BY <2>2, <2>3, <2>4, <3>2 DEF Read
    <3> QED BY <2>5, <3>1, <3>2 DEF Read
  <2> QED BY <2>1, <2>5 DEF Told, Stirred, Events
<1>8. CASE \/ \E w \in Worker : Record(w) \/ Rollback(w)
           \/ Connect \/ ReadReplay \/ Poll \/ UNCHANGED vars
  <2>1. /\ log' = log /\ announced' = announced /\ queue' = queue /\ outbox' = outbox
        /\ shown' = shown /\ unread' = unread /\ fetches' = fetches /\ (dirty => dirty')
    BY <1>8 DEF Record, Rollback, Connect, ReadReplay, Poll, vars, txVars, subVars, clientVars
  <2> QED BY <2>1 DEF Told, Stirred, Events, Read
<1> QED BY <1>1, <1>2, <1>3, <1>4, <1>5, <1>7, <1>8 DEF Next

LiveInv == Closed /\ OneAnswer /\ Reads /\ Told

LEMMA LiveInit == Init => LiveInv
BY DEF Init, LiveInv, Closed, OneAnswer, Reads, Told

\* ws.ts of the kitchen display and of the floor, onEvent: every event that is
\* published to a live client has been on its board when all is quiet, unless
\* the read that was to show it failed; for every number of transactions, ids
\* and reads of the board at the same time, with queues of at least one event
\* and two frames (the code's hold 256 and 1024).
THEOREM AnnouncedShownHolds ==
  ASSUME QueueMax >= 1, OutboxMax >= 2
  PROVE  Spec => []AnnouncedShown
<1>1. LiveInv => AnnouncedShown
  <2> SUFFICES ASSUME LiveInv, Quiet, NEW i \in announced PROVE i \in shown \union unread
    BY DEF AnnouncedShown
  <2>1. ~Stirred
    BY DEF Quiet, Stirred, Events, Range
  <2>2. Read(i) /\ Len(fetches) = 0
    BY <2>1 DEF LiveInv, Told, Quiet
  <2> QED BY <2>2 DEF Read
<1>2. Committed /\ Fed /\ LiveInv /\ [Next]_vars => LiveInv'
  BY ClosedNext, OneAnswerNext, ReadsNext, ToldNext DEF LiveInv
<1> QED BY <1>1, <1>2, CommittedInit, CommittedNext, FedInit, FedNext, LiveInit, PTL DEF Spec

=============================================================================
