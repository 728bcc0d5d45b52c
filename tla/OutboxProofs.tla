---------------------------- MODULE OutboxProofs ----------------------------
(***************************************************************************)
(* What the phone's queue promises, for any number of flushes, keys and    *)
(* orders: nothing sent twice, a ticket as it was tapped, and nothing lost *)
(* without a notice as long as no flush meets another or a tap.            *)
(***************************************************************************)
EXTENDS Outbox, SequenceTheorems, FiniteSetTheorems, TLAPS

Entry    == [ticket : Key, key : Key]
OrderRow == [by : Key, lines : Seq(Entry)]
Id       == Nat \union {None}
Job      == [entry : Entry, rest : Seq(Entry), ids : [Key -> Id], answer : Id, to : Id]

Types ==
  /\ entries \in Seq(Entry) /\ serverIds \in [Key -> Id] /\ localOrder \in Key \union {None}
  /\ used \in 0..MaxKey /\ flushes \in [Flush -> Job \union {None}]
  /\ told \in SUBSET Entry /\ late \in SUBSET [entry : Entry, to : Id]
  /\ orders \in Seq(OrderRow) /\ keys \in [Key -> Id]

-----------------------------------------------------------------------------
(* The ticket of every key that was made. *)

Names(T) ==
  /\ T \in [Key -> Key]
  /\ \A k \in 1..used : T[k] <= k /\ T[T[k]] = T[k]

Named(T, e) == e \in Entry /\ e.key <= used /\ e.ticket = T[e.key]

\* The ids a flush or the phone goes by, and the order a request is for.
IdsTrue(ids) == \A t \in Key : ids[t] # None => ids[t] \in Orders /\ orders[ids[t]].by = t
Directed(e, to) == ~IsOpening(e) => to \in Orders /\ orders[to].by = e.ticket

PhoneTrue(T) ==
  /\ \A i \in 1..Len(entries) : Named(T, entries[i])
  /\ \A e \in told : Named(T, e)
  /\ localOrder # None => localOrder \in 1..used /\ T[localOrder] = localOrder
  /\ IdsTrue(serverIds)
  /\ \A r \in late : Named(T, r.entry) /\ Directed(r.entry, r.to)

JobTrue(T, j) ==
  /\ Named(T, j.entry) /\ \A i \in 1..Len(j.rest) : Named(T, j.rest[i])
  /\ IdsTrue(j.ids) /\ Directed(j.entry, j.to)
  /\ j.answer \in Answers \union {None}
  /\ j.answer \notin {None, Refused} => keys[j.entry.key] = j.answer

FlushesTrue(T) == \A f \in Waiting : JobTrue(T, flushes[f])

\* The key k was answered with the order o: it opened it or is on it.
Answered(T, k, o) ==
  /\ k <= used /\ o \in Orders /\ orders[o].by = T[k]
  /\ k # T[k] => \E i \in 1..Len(LinesAt(o)) : LinesAt(o)[i].key = k

\* The keys of the lines of o answer o, and each is there once.
Once(o) ==
  \A i \in 1..Len(LinesAt(o)) :
    /\ LinesAt(o)[i].ticket = orders[o].by /\ keys[LinesAt(o)[i].key] = o
    /\ \A j \in 1..Len(LinesAt(o)) : i # j => LinesAt(o)[i].key # LinesAt(o)[j].key

Opened(T, o) == T[orders[o].by] = orders[o].by /\ keys[orders[o].by] = o

ServerTrue(T) ==
  /\ \A k \in Key : keys[k] # None => Answered(T, k, keys[k])
  /\ \A o \in Orders : Opened(T, o) /\ Once(o)

-----------------------------------------------------------------------------
(* What holds as long as the phone is calm. *)

\* Whatever was tapped before e on its ticket was answered, or is given up.
Before(T, e) ==
  \A k \in 1..e.key - 1 : T[k] = e.ticket => keys[k] # None \/ GivenUp(e.ticket)

Sorted(q) == \A i, j \in 1..Len(q) : i < j => q[i].key < q[j].key

InOrder(T) ==
  \A o \in Orders :
    /\ \A i \in 1..Len(LinesAt(o)) : Before(T, LinesAt(o)[i])
    /\ ~GivenUp(orders[o].by) => Sorted(LinesAt(o))

\* The part of the queue from n on, what is before having been answered.
Rest(q, n) ==
  /\ n \in 1..Len(entries) + 1 /\ Len(q) = Len(entries) + 1 - n
  /\ \A i \in 1..Len(q) : q[i] = entries[n + i - 1]
  /\ \A i \in 1..n - 1 : keys[entries[i].key] # None

InLine(j) == \E n : Rest(<<j.entry>> \o j.rest, n)

Queued(k) == \E i \in 1..Len(entries) : entries[i].key = k
Noticed(k) == \E e \in told : e.key = k

Quiet(T) ==
  /\ Sorted(entries)
  /\ \A f, g \in Waiting : f = g
  /\ \A f \in Waiting : InLine(flushes[f])
  /\ \A k \in 1..used : Queued(k) \/ keys[k] # None \/ Noticed(k)
  /\ \A r \in late : Before(T, r.entry)
  /\ InOrder(T)

True(T) == Types /\ Names(T) /\ PhoneTrue(T) /\ FlushesTrue(T) /\ ServerTrue(T)

Kept(T) == True(T) /\ (calm => Quiet(T))

Keeping == \E T : Kept(T)

LEMMA KeepingInit == Init => Keeping
<1> SUFFICES ASSUME Init PROVE Keeping
  OBVIOUS
<1>1. /\ entries = <<>> /\ localOrder = None /\ used = 0
      /\ serverIds = [k \in Key |-> None] /\ flushes = [f \in Flush |-> None]
      /\ told = {} /\ late = {} /\ orders = <<>> /\ keys = [k \in Key |-> None]
  BY DEF Init
<1>2. MaxKey \in Nat
  BY OutboxAssumption
<1> DEFINE T == [k \in Key |-> k]
<1>3. Types
  BY <1>1, <1>2 DEF Types, Id
<1>4. Names(T)
  BY <1>1 DEF Names
<1>5. Orders = {} /\ Waiting = {}
  BY <1>1 DEF Orders, Waiting
<1>6. PhoneTrue(T) /\ FlushesTrue(T) /\ ServerTrue(T)
  BY <1>1, <1>5 DEF PhoneTrue, FlushesTrue, ServerTrue, IdsTrue
<1>7. Quiet(T)
  BY <1>1, <1>5 DEF Quiet, Sorted, InOrder
<1> QED
  BY <1>3, <1>4, <1>6, <1>7 DEF Keeping, Kept, True

-----------------------------------------------------------------------------
(* What a step keeps. *)

\* The orders and the answers that were there still are.
Grown ==
  /\ \A o \in Orders : o \in Orders' /\ orders'[o].by = orders[o].by
  /\ \A k \in Key : keys[k] # None => keys'[k] = keys[k]

\* The tickets of the keys that were made are those of T.
Extends(T, U) == used <= used' /\ \A k \in 1..used : U[k] = T[k]

LEMMA NamedKept ==
  ASSUME Types, NEW T, NEW U, Extends(T, U), used' \in Nat, NEW e, Named(T, e)
  PROVE  Named(U, e)'
<1>1. e \in Entry /\ e.key <= used /\ e.ticket = T[e.key] /\ used \in Nat /\ MaxKey \in Nat
  BY OutboxAssumption DEF Named, Types
<1>2. e.key \in 1..used
  BY <1>1 DEF Entry, Key
<1> QED
  BY <1>1, <1>2 DEF Extends, Named

LEMMA IdsKept ==
  ASSUME NEW ids, IdsTrue(ids), Grown
  PROVE  IdsTrue(ids)'
BY DEF IdsTrue, Grown

LEMMA DirectedKept ==
  ASSUME NEW e, NEW to, Directed(e, to), Grown
  PROVE  Directed(e, to)'
BY DEF Directed, Grown

LEMMA JobKept ==
  ASSUME Types, NEW T, NEW U, Extends(T, U), used' \in Nat, Grown, NEW j, JobTrue(T, j)
  PROVE  JobTrue(U, j)'
<1>1. Named(U, j.entry)' /\ \A i \in 1..Len(j.rest) : Named(U, j.rest[i])'
  BY NamedKept DEF JobTrue
<1>2. IdsTrue(j.ids)' /\ Directed(j.entry, j.to)'
  BY IdsKept, DirectedKept DEF JobTrue
<1>3. j.answer \in Answers \union {None}
  BY DEF JobTrue
<1>4. j.answer \notin {None, Refused} => keys'[j.entry.key] = j.answer
  BY DEF JobTrue, Grown, Named, Entry
<1> QED
  BY <1>1, <1>2, <1>3, <1>4 DEF JobTrue, Answers

LEMMA OrderAt ==
  ASSUME Types
  PROVE  /\ Orders = 1..Len(orders)
         /\ \A o \in Orders : /\ o \in Nat /\ o # None
                             /\ orders[o] \in OrderRow /\ orders[o].by \in Key
                             /\ LinesAt(o) = orders[o].lines /\ LinesAt(o) \in Seq(Entry)
<1>1. Orders = 1..Len(orders) /\ \A o \in Orders : orders[o] \in OrderRow
  BY DEF Types, Orders
<1>2. \A o \in Orders : o \in Nat
  BY <1>1
<1>3. \A o \in Orders : o # None
  BY <1>2, OutboxAssumption
<1> QED
  BY <1>1, <1>2, <1>3 DEF OrderRow, LinesAt

\* The rows of the server mention no key that was not made.
LEMMA ServerKept ==
  ASSUME Types, NEW T, NEW U, Names(T), ServerTrue(T), Extends(T, U), used' \in Nat,
         orders' = orders, keys' = keys
  PROVE  ServerTrue(U)'
<1>1. /\ Orders' = Orders /\ \A o : LinesAt(o)' = LinesAt(o)
      /\ used \in Nat /\ MaxKey \in Nat /\ Key = 1..MaxKey
  BY OutboxAssumption DEF Orders, LinesAt, Types, Key
<1>2. \A k \in Key : k <= used => U[k] = T[k]
  BY <1>1 DEF Extends
<1>3. ASSUME NEW k \in Key, NEW o, Answered(T, k, o) PROVE Answered(U, k, o)'
  BY <1>1, <1>2, <1>3 DEF Answered, Extends
<1>4. ASSUME NEW o \in Orders PROVE Opened(U, o)' /\ Once(o)'
  <2>1. orders[o].by \in Key /\ o # None /\ Opened(T, o) /\ Once(o)
    BY OrderAt DEF ServerTrue
  <2>2. keys[orders[o].by] = o
    BY <2>1 DEF Opened
  <2>3. Answered(T, orders[o].by, o)
    BY <2>1, <2>2 DEF ServerTrue
  <2>4. U[orders[o].by] = T[orders[o].by]
    BY <1>2, <2>1, <2>3 DEF Answered
  <2> QED
    BY <1>1, <2>1, <2>4 DEF Opened, Once
<1>5. \A k \in Key : keys[k] # None => Answered(U, k, keys[k])'
  BY <1>3 DEF ServerTrue
<1> QED
  BY <1>1, <1>4, <1>5 DEF ServerTrue

\* What was answered or given up before e stays so.
LEMMA BeforeKept ==
  ASSUME Types, NEW T, NEW U, Extends(T, U), NEW e, Named(T, e), Before(T, e),
         Grown, told \subseteq told'
  PROVE  Before(U, e)'
<1>1. e \in Entry /\ e.key <= used /\ used \in 0..MaxKey /\ MaxKey \in Nat
  BY OutboxAssumption DEF Named, Types
<1>2. SUFFICES ASSUME NEW k \in 1..e.key - 1, U[k] = e.ticket
               PROVE  keys'[k] # None \/ GivenUp(e.ticket)'
  BY DEF Before
<1>3. k \in 1..used /\ k \in Key
  BY <1>1 DEF Entry, Key
<1>4. keys[k] # None \/ GivenUp(e.ticket)
  BY <1>2, <1>3 DEF Before, Extends
<1> QED
  BY <1>3, <1>4 DEF Grown, GivenUp
-----------------------------------------------------------------------------
(* The server. *)

LEMMA ServedTypes ==
  ASSUME Types, NEW e \in Entry, NEW to, Directed(e, to), NEW answer \in Answers, Serve(e, to, answer)
  PROVE  orders' \in Seq(OrderRow) /\ keys' \in [Key -> Id]
<1>1. orders \in Seq(OrderRow) /\ keys \in [Key -> Id] /\ e.key \in Key /\ answer \in Id
  BY OutboxAssumption DEF Types, Entry, Id, Answers
<1>2. CASE Replay(e, answer) \/ Refuse(answer)
  BY <1>1, <1>2 DEF Replay, Refuse
<1>3. CASE CreateOrder(e, answer)
  <2>1. [by |-> e.key, lines |-> <<>>] \in OrderRow
    BY <1>1 DEF OrderRow
  <2> QED
    BY <1>1, <1>3, <2>1 DEF CreateOrder
<1>4. CASE AddLine(e, to, answer)
  <2>1. to \in Orders
    BY <1>4 DEF AddLine, Directed
  <2>2. to \in 1..Len(orders) /\ orders[to].by \in Key /\ orders[to] \in OrderRow
        /\ orders[to].lines \in Seq(Entry)
    BY <2>1, OrderAt
  <2>3. Append(orders[to].lines, e) \in Seq(Entry)
    BY <2>2
  <2>4. [orders[to] EXCEPT !.lines = Append(@, e)] \in OrderRow
    BY <2>2, <2>3 DEF OrderRow
  <2> QED
    BY <1>1, <1>4, <2>2, <2>4 DEF AddLine
<1> QED
  BY <1>2, <1>3, <1>4 DEF Serve

\* How the rows of the server change.
LEMMA ServedRows ==
  ASSUME Types, NEW e \in Entry, NEW to, Directed(e, to), NEW answer \in Answers, Serve(e, to, answer)
  PROVE  \/ orders' = orders /\ keys' = keys /\ (answer # Refused => keys[e.key] = answer)
         \/ /\ keys[e.key] = None /\ IsOpening(e) /\ answer = Len(orders) + 1
            /\ keys' = [keys EXCEPT ![e.key] = answer] /\ Orders' = 1..answer
            /\ orders'[answer].by = e.key /\ LinesAt(answer)' = <<>>
            /\ \A o \in Orders : orders'[o].by = orders[o].by /\ LinesAt(o)' = LinesAt(o)
         \/ /\ keys[e.key] = None /\ ~IsOpening(e) /\ answer = to /\ to \in Orders
            /\ keys' = [keys EXCEPT ![e.key] = answer] /\ Orders' = Orders
            /\ LinesAt(to)' = Append(LinesAt(to), e)
            /\ \A o \in Orders : orders'[o].by = orders[o].by
            /\ \A o \in Orders \ {to} : LinesAt(o)' = LinesAt(o)
<1>1. orders \in Seq(OrderRow) /\ Orders = 1..Len(orders) /\ Len(orders) \in Nat
  BY OrderAt DEF Types
<1>2. CASE Replay(e, answer) \/ Refuse(answer)
  BY <1>2 DEF Replay, Refuse
<1>3. CASE CreateOrder(e, answer)
  <2>1. orders' = Append(orders, [by |-> e.key, lines |-> <<>>]) /\ answer = Len(orders) + 1
    BY <1>3 DEF CreateOrder
  <2>2. Len(orders') = answer /\ orders'[answer] = [by |-> e.key, lines |-> <<>>]
        /\ \A o \in 1..Len(orders) : orders'[o] = orders[o]
    BY <1>1, <2>1
  <2>3. Orders' = 1..answer
    BY <1>1, <2>1, <2>2 DEF Orders
  <2> QED
    BY <1>1, <1>3, <2>2, <2>3 DEF CreateOrder, LinesAt
<1>4. CASE AddLine(e, to, answer)
  <2>1. to \in Orders /\ orders' = [orders EXCEPT ![to].lines = Append(@, e)]
    BY <1>4 DEF AddLine, Directed
  <2>2. orders[to] \in OrderRow
    BY <2>1, OrderAt
  <2>3. Orders' = Orders /\ orders'[to] = [orders[to] EXCEPT !.lines = Append(@, e)]
        /\ \A o \in Orders \ {to} : orders'[o] = orders[o]
    BY <1>1, <2>1 DEF Orders
  <2>4. orders'[to].by = orders[to].by /\ orders'[to].lines = Append(orders[to].lines, e)
    BY <2>2, <2>3 DEF OrderRow
  <2> QED
    BY <1>4, <2>1, <2>3, <2>4 DEF AddLine, LinesAt
<1> QED
  BY <1>2, <1>3, <1>4 DEF Serve

LEMMA ServedGrows ==
  ASSUME Types, NEW e \in Entry, NEW to, Directed(e, to), NEW answer \in Answers, Serve(e, to, answer)
  PROVE  Grown /\ (answer # Refused => keys'[e.key] = answer)
<1>1. keys \in [Key -> Id] /\ e.key \in Key /\ Orders = 1..Len(orders) /\ Len(orders) \in Nat
  BY OrderAt DEF Types, Entry
<1>2. CASE orders' = orders /\ keys' = keys /\ (answer # Refused => keys[e.key] = answer)
  BY <1>2 DEF Grown, Orders
<1>3. CASE keys[e.key] = None /\ keys' = [keys EXCEPT ![e.key] = answer]
           /\ \A o \in Orders : o \in Orders' /\ orders'[o].by = orders[o].by
  <2>1. keys'[e.key] = answer /\ \A k \in Key \ {e.key} : keys'[k] = keys[k]
    BY <1>1, <1>3
  <2> QED
    BY <1>3, <2>1 DEF Grown
<1>4. \A o \in Orders : o \in 1..Len(orders) + 1
  BY <1>1
<1> QED
  BY <1>2, <1>3, <1>4, ServedRows

LEMMA ServedTrue ==
  ASSUME Types, NEW T, Names(T), ServerTrue(T), NEW e, Named(T, e), NEW to, Directed(e, to),
         NEW answer \in Answers, Serve(e, to, answer), used' = used
  PROVE  ServerTrue(T)'
<1>2. /\ keys \in [Key -> Id] /\ e \in Entry /\ e.key \in Key /\ e.key <= used /\ e.ticket = T[e.key]
      /\ Orders = 1..Len(orders) /\ Len(orders) \in Nat /\ used \in Nat
  BY OrderAt DEF Types, Named, Entry
<1>3. \A o \in Orders : o \in Nat /\ o # None /\ orders[o].by \in Key /\ LinesAt(o) \in Seq(Entry)
  BY OrderAt
<1>4. \A o \in Orders : \A i \in 1..Len(LinesAt(o)) : LinesAt(o)[i].key \in Key
  <2>1. ASSUME NEW o \in Orders, NEW i \in 1..Len(LinesAt(o)) PROVE LinesAt(o)[i].key \in Key
    <3>1. LinesAt(o)[i] \in Entry
      BY <1>3, <2>1
    <3> QED
      BY <3>1 DEF Entry
  <2> QED
    BY <2>1
<1>5. \A k \in Key : keys[k] # None => Answered(T, k, keys[k])
  BY DEF ServerTrue
<1>6. \A o \in Orders : Opened(T, o) /\ Once(o)
  BY DEF ServerTrue
<1>7. CASE orders' = orders /\ keys' = keys
  <2>1. Extends(T, T) /\ used' \in Nat
    BY <1>2 DEF Extends
  <2> QED
    BY <1>7, <2>1, ServerKept
<1>8. CASE /\ keys[e.key] = None /\ IsOpening(e) /\ answer = Len(orders) + 1
           /\ keys' = [keys EXCEPT ![e.key] = answer] /\ Orders' = 1..answer
           /\ orders'[answer].by = e.key /\ LinesAt(answer)' = <<>>
           /\ \A o \in Orders : orders'[o].by = orders[o].by /\ LinesAt(o)' = LinesAt(o)
  <2>1. Orders' = Orders \union {answer} /\ answer \notin Orders /\ answer \in Nat
    BY <1>2, <1>8
  <2>2. keys'[e.key] = answer /\ \A k \in Key \ {e.key} : keys'[k] = keys[k]
    BY <1>2, <1>8
  <2>3. T[e.key] = e.key
    BY <1>2, <1>8 DEF IsOpening
  <2>4. ASSUME NEW k \in Key, NEW a, a = keys'[k], a # None PROVE Answered(T, k, a)'
    <3>1. CASE k = e.key
      BY <1>2, <1>8, <2>1, <2>2, <2>3, <2>4, <3>1 DEF Answered
    <3>2. CASE k # e.key
      <4>1. Answered(T, k, a)
        BY <1>5, <2>2, <2>4, <3>2
      <4> QED
        BY <1>8, <2>1, <4>1 DEF Answered
    <3> QED
      BY <3>1, <3>2
  <2>5. ASSUME NEW o \in Orders PROVE Opened(T, o)' /\ Once(o)'
    <3>1. Opened(T, o) /\ Once(o) /\ orders'[o].by = orders[o].by /\ LinesAt(o)' = LinesAt(o)
      BY <1>6, <1>8
    <3>2. \A k \in Key : keys[k] = o => keys'[k] = o
      BY <1>3, <1>8, <2>2
    <3>3. Opened(T, o)'
      BY <1>3, <3>1, <3>2 DEF Opened
    <3>4. Once(o)'
      BY <1>4, <3>1, <3>2 DEF Once
    <3> QED
      BY <3>3, <3>4
  <2>6. Opened(T, answer)' /\ Once(answer)'
    BY <1>8, <2>2, <2>3 DEF Opened, Once
  <2>7. \A k \in Key : keys'[k] # None => Answered(T, k, keys[k])'
    BY <2>4
  <2> QED
    BY <2>1, <2>5, <2>6, <2>7 DEF ServerTrue
<1>9. CASE /\ keys[e.key] = None /\ ~IsOpening(e) /\ answer = to /\ to \in Orders
           /\ keys' = [keys EXCEPT ![e.key] = answer] /\ Orders' = Orders
           /\ LinesAt(to)' = Append(LinesAt(to), e)
           /\ \A o \in Orders : orders'[o].by = orders[o].by
           /\ \A o \in Orders \ {to} : LinesAt(o)' = LinesAt(o)
  <2>1. orders[to].by = e.ticket /\ orders'[to].by = e.ticket
    BY <1>9 DEF Directed
  <2>2. keys'[e.key] = to /\ \A k \in Key \ {e.key} : keys'[k] = keys[k]
    BY <1>2, <1>9
  <2>3. PICK L, M : L = LinesAt(to) /\ M = LinesAt(to)'
    OBVIOUS
  <2>4. /\ Len(M) = Len(L) + 1 /\ M[Len(L) + 1] = e /\ Len(L) \in Nat
        /\ \A i \in 1..Len(L) : M[i] = L[i]
    BY <1>2, <1>3, <1>9, <2>3
  <2>5. \A k \in Key, o \in Orders : keys[k] = o => keys'[k] = o /\ k # e.key
    BY <1>3, <1>9, <2>2
  <2>6. ASSUME NEW k \in Key, NEW a, a = keys'[k], a # None PROVE Answered(T, k, a)'
    <3>1. CASE k = e.key
      BY <1>2, <1>9, <2>1, <2>2, <2>3, <2>4, <2>6, <3>1 DEF Answered
    <3>2. CASE k # e.key
      <4>1. Answered(T, k, a)
        BY <1>5, <2>2, <2>6, <3>2
      <4>2. \A i \in 1..Len(LinesAt(a)) : i \in 1..Len(LinesAt(a)') /\ (LinesAt(a)')[i] = LinesAt(a)[i]
        BY <1>9, <2>3, <2>4, <4>1 DEF Answered
      <4> QED
        BY <1>9, <4>1, <4>2 DEF Answered
    <3> QED
      BY <3>1, <3>2
  <2>7. ASSUME NEW o \in Orders PROVE Opened(T, o)'
    BY <1>3, <1>6, <1>9, <2>5 DEF Opened
  <2>8. ASSUME NEW o \in Orders \ {to} PROVE Once(o)'
    <3>1. Once(o) /\ LinesAt(o)' = LinesAt(o) /\ orders'[o].by = orders[o].by
      BY <1>6, <1>9
    <3> QED
      BY <1>4, <2>5, <3>1 DEF Once
  <2>9. Once(to)'
    <3>1. \A n \in 1..Len(L) : /\ L[n].key \in Key /\ L[n].ticket = e.ticket /\ keys[L[n].key] = to
                               /\ \A j \in 1..Len(L) : n # j => L[n].key # L[j].key
      BY <1>4, <1>6, <1>9, <2>1, <2>3 DEF Once
    <3>2. \A n \in 1..Len(L) : keys'[L[n].key] = to /\ L[n].key # e.key
      BY <1>9, <2>5, <3>1
    <3>3. \A n \in 1..Len(M) : n \in 1..Len(L) \/ n = Len(L) + 1
      BY <2>4
    <3>4. \A n \in 1..Len(M) : M[n].ticket = e.ticket /\ keys'[M[n].key] = to
      BY <2>2, <2>4, <3>1, <3>2, <3>3
    <3>5. \A n, j \in 1..Len(M) : n # j => M[n].key # M[j].key
      BY <2>4, <3>1, <3>2, <3>3
    <3> QED
      BY <2>1, <2>3, <3>4, <3>5 DEF Once
  <2>10. \A k \in Key : keys'[k] # None => Answered(T, k, keys[k])'
    BY <2>6
  <2> QED
    BY <1>9, <2>7, <2>8, <2>9, <2>10 DEF ServerTrue
<1> QED
  BY <1>2, <1>7, <1>8, <1>9, ServedRows
-----------------------------------------------------------------------------
(* The order of the lines. *)

LEMMA LineNamed ==
  ASSUME Types, NEW T, Names(T), ServerTrue(T), NEW o \in Orders, NEW i \in 1..Len(LinesAt(o))
  PROVE  Named(T, LinesAt(o)[i]) /\ LinesAt(o)[i].key \in Key /\ keys[LinesAt(o)[i].key] = o
         /\ LinesAt(o)[i].ticket = orders[o].by
<1>1. o # None /\ LinesAt(o) \in Seq(Entry)
  BY OrderAt
<1>2. LinesAt(o)[i] \in Entry
  BY <1>1
<1>3. Once(o)
  BY DEF ServerTrue
<1>4. LinesAt(o)[i].key \in Key
  BY <1>2 DEF Entry
<1>5. LinesAt(o)[i].ticket = orders[o].by /\ keys[LinesAt(o)[i].key] = o
  BY <1>3 DEF Once
<1>6. Answered(T, LinesAt(o)[i].key, o)
  BY <1>1, <1>4, <1>5 DEF ServerTrue
<1> QED
  BY <1>2, <1>4, <1>5, <1>6 DEF Answered, Named

LEMMA InOrderKept ==
  ASSUME Types, NEW T, NEW U, Names(T), ServerTrue(T), Extends(T, U), InOrder(T),
         orders' = orders, keys' = keys, told \subseteq told'
  PROVE  InOrder(U)'
<1>1. Grown /\ Orders' = Orders /\ \A o : LinesAt(o)' = LinesAt(o)
  BY DEF Grown, Orders, LinesAt
<1>2. ASSUME NEW o \in Orders, NEW i \in 1..Len(LinesAt(o)) PROVE Before(U, LinesAt(o)[i])'
  <2>1. PICK e : e = LinesAt(o)[i]
    OBVIOUS
  <2>2. Named(T, e) /\ Before(T, e)
    BY <2>1, LineNamed DEF InOrder
  <2>3. Before(U, e)'
    BY <1>1, <2>2, BeforeKept
  <2>4. (LinesAt(o)[i])' = e
    BY <1>1, <2>1
  <2> QED
    BY <2>3, <2>4 DEF Before
<1>3. ASSUME NEW o \in Orders, ~GivenUp(orders[o].by)' PROVE Sorted(LinesAt(o)')
  <2>1. ~GivenUp(orders[o].by)
    BY <1>3 DEF GivenUp
  <2> QED
    BY <1>1, <2>1 DEF InOrder
<1> QED
  BY <1>1, <1>2, <1>3 DEF InOrder, Sorted

LEMMA ServedInOrder ==
  ASSUME Types, NEW T, Names(T), ServerTrue(T), InOrder(T), NEW e, Named(T, e), Before(T, e),
         NEW to, Directed(e, to), NEW answer \in Answers, Serve(e, to, answer),
         used' = used, told' = told
  PROVE  InOrder(T)'
<1>1. Grown /\ e \in Entry /\ Extends(T, T)
  BY ServedGrows DEF Named, Extends, Types
<1>2. ASSUME NEW d, Named(T, d), Before(T, d) PROVE Before(T, d)'
  BY <1>1, <1>2, BeforeKept
<1>3. ASSUME NEW t PROVE GivenUp(t)' <=> GivenUp(t)
  BY DEF GivenUp
<1>4. ASSUME NEW o \in Orders, LinesAt(o)' = LinesAt(o), orders'[o].by = orders[o].by
      PROVE  /\ \A i \in 1..Len(LinesAt(o)') : Before(T, LinesAt(o)[i])'
             /\ ~GivenUp(orders[o].by)' => Sorted(LinesAt(o))'
  <2>1. ASSUME NEW i \in 1..Len(LinesAt(o)) PROVE Before(T, LinesAt(o)[i])'
    <3>1. PICK d : d = LinesAt(o)[i]
      OBVIOUS
    <3>2. Named(T, d) /\ Before(T, d)
      BY <3>1, LineNamed DEF InOrder
    <3>3. Before(T, d)'
      BY <1>2, <3>2
    <3>4. (LinesAt(o)[i])' = d
      BY <1>4, <3>1
    <3> QED
      BY <3>3, <3>4 DEF Before
  <2>2. ASSUME ~GivenUp(orders[o].by)' PROVE Sorted(LinesAt(o))'
    <3>1. ~GivenUp(orders[o].by)
      BY <1>4, <2>2 DEF GivenUp
    <3> QED
      BY <1>4, <3>1 DEF InOrder, Sorted
  <2> QED
    BY <1>4, <2>1, <2>2
<1>5. CASE orders' = orders /\ keys' = keys
  BY <1>1, <1>5, InOrderKept
<1>6. CASE /\ keys[e.key] = None /\ IsOpening(e) /\ answer = Len(orders) + 1
           /\ keys' = [keys EXCEPT ![e.key] = answer] /\ Orders' = 1..answer
           /\ orders'[answer].by = e.key /\ LinesAt(answer)' = <<>>
           /\ \A o \in Orders : orders'[o].by = orders[o].by /\ LinesAt(o)' = LinesAt(o)
  <2>1. Orders' = Orders \union {answer}
    BY <1>6, OrderAt
  <2>2. /\ \A i \in 1..Len(LinesAt(answer)') : Before(T, LinesAt(answer)[i])'
        /\ Sorted(LinesAt(answer))'
    BY <1>6 DEF Sorted
  <2> QED
    BY <1>4, <1>6, <2>1, <2>2 DEF InOrder
<1>7. CASE /\ keys[e.key] = None /\ ~IsOpening(e) /\ answer = to /\ to \in Orders
           /\ keys' = [keys EXCEPT ![e.key] = answer] /\ Orders' = Orders
           /\ LinesAt(to)' = Append(LinesAt(to), e)
           /\ \A o \in Orders : orders'[o].by = orders[o].by
           /\ \A o \in Orders \ {to} : LinesAt(o)' = LinesAt(o)
  <2>1. orders[to].by = e.ticket /\ e.ticket = T[e.key] /\ e.key \in Key
    BY <1>1, <1>7 DEF Directed, Named, Entry
  <2>2. PICK L, M : L = LinesAt(to) /\ M = LinesAt(to)'
    OBVIOUS
  <2>3. /\ Len(M) = Len(L) + 1 /\ M[Len(L) + 1] = e /\ Len(L) \in Nat
        /\ \A i \in 1..Len(L) : M[i] = L[i]
    BY <1>1, <1>7, <2>2, OrderAt
  <2>4. \A n \in 1..Len(M) : n \in 1..Len(L) \/ n = Len(L) + 1
    BY <2>3
  <2>5. \A n \in 1..Len(L) : Named(T, L[n]) /\ Before(T, L[n]) /\ L[n].key \in Key
                             /\ keys[L[n].key] = to /\ L[n].ticket = e.ticket
    BY <1>7, <2>1, <2>2, LineNamed DEF InOrder
  <2>6. ASSUME NEW i \in 1..Len(M) PROVE Before(T, LinesAt(to)[i])'
    <3>1. PICK d : d = M[i]
      OBVIOUS
    <3>2. Named(T, d) /\ Before(T, d)
      BY <2>3, <2>4, <2>5, <3>1
    <3>3. Before(T, d)'
      BY <1>2, <3>2
    <3>4. (LinesAt(to)[i])' = d
      BY <2>2, <3>1
    <3> QED
      BY <3>3, <3>4 DEF Before
  <2>7. ASSUME ~GivenUp(orders[to].by)' PROVE Sorted(M)
    <3>1. ~GivenUp(e.ticket) /\ ~GivenUp(orders[to].by)
      BY <1>7, <2>1, <2>7 DEF GivenUp
    <3>2. \A i, j \in 1..Len(L) : i < j => L[i].key < L[j].key
      BY <1>7, <2>2, <3>1 DEF InOrder, Sorted
    <3>3. ASSUME NEW n \in 1..Len(L) PROVE L[n].key < e.key
      <4>1. to # None /\ L[n].key # e.key
        BY <1>7, <2>5, OrderAt
      <4>2. ASSUME e.key < L[n].key PROVE FALSE
        <5>1. e.key \in 1..L[n].key - 1
          BY <2>1, <2>5, <4>2 DEF Key
        <5>2. keys[e.key] # None \/ GivenUp(L[n].ticket)
          BY <2>1, <2>5, <5>1 DEF Before
        <5> QED
          BY <1>7, <2>5, <3>1, <5>2
      <4> QED
        BY <2>1, <2>5, <4>1, <4>2 DEF Key
    <3> QED
      BY <2>3, <2>4, <3>2, <3>3 DEF Sorted
  <2>8. /\ \A i \in 1..Len(LinesAt(to)') : Before(T, LinesAt(to)[i])'
        /\ ~GivenUp(orders[to].by)' => Sorted(LinesAt(to))'
    BY <2>2, <2>6, <2>7 DEF Sorted
  <2> QED
    BY <1>4, <1>7, <2>8 DEF InOrder
<1> QED
  BY <1>1, <1>5, <1>6, <1>7, ServedRows
-----------------------------------------------------------------------------
(* The phone. *)

LEMMA PhoneNext ==
  ASSUME Types, NEW T, NEW U, Extends(T, U), used' \in Nat, Grown,
         \A i \in 1..Len(entries') : Named(T, entries'[i]), \A e \in told' : Named(T, e),
         localOrder' # None => localOrder' \in 1..used /\ T[localOrder'] = localOrder',
         IdsTrue(serverIds'), \A r \in late' : Named(T, r.entry) /\ Directed(r.entry, r.to)
  PROVE  PhoneTrue(U)'
<1>1. \A e : Named(T, e) => Named(U, e)'
  BY NamedKept
<1>2. \A e, to : Directed(e, to) => Directed(e, to)'
  BY DirectedKept
<1>3. \A i \in 1..Len(entries') : Named(U, entries[i])'
  BY <1>1
<1>4. \A e \in told' : Named(U, e)'
  BY <1>1
<1>5. localOrder' # None => localOrder' \in 1..used' /\ U[localOrder'] = localOrder'
  BY DEF Extends, Types
<1>6. PICK ids : ids = serverIds'
  OBVIOUS
<1>7. IdsTrue(ids)'
  BY <1>6, IdsKept
<1>8. IdsTrue(serverIds)'
  BY <1>6, <1>7 DEF IdsTrue
<1>9. \A r \in late' : Named(U, r.entry)' /\ Directed(r.entry, r.to)'
  BY <1>1, <1>2
<1> QED
  BY <1>3, <1>4, <1>5, <1>8, <1>9 DEF PhoneTrue

LEMMA FlushesNext ==
  ASSUME Types, NEW T, NEW U, Extends(T, U), used' \in Nat, Grown,
         \A f \in Waiting' : JobTrue(T, flushes'[f])
  PROVE  FlushesTrue(U)'
<1>1. \A j : JobTrue(T, j) => JobTrue(U, j)'
  BY JobKept
<1>2. ASSUME NEW f \in Waiting' PROVE JobTrue(U, flushes[f])'
  <2>1. PICK j : j = flushes'[f]
    OBVIOUS
  <2>2. JobTrue(U, j)'
    BY <1>1, <2>1
  <2>3. (flushes[f])' = j
    BY <2>1
  <2> QED
    BY <2>2, <2>3 DEF JobTrue
<1> QED
  BY <1>2 DEF FlushesTrue

\* The parts of what is true, for steps that make no key and add no row.
LEMMA TrueNext ==
  ASSUME NEW T, True(T), Types', used' = used, orders' = orders, keys' = keys,
         \A i \in 1..Len(entries') : Named(T, entries'[i]), \A e \in told' : Named(T, e),
         localOrder' \in {localOrder, None}, IdsTrue(serverIds'),
         \A r \in late' : Named(T, r.entry) /\ Directed(r.entry, r.to),
         \A f \in Waiting' : JobTrue(T, flushes'[f])
  PROVE  True(T)'
<1>1. Extends(T, T) /\ used' \in Nat /\ Grown /\ Types /\ Names(T) /\ ServerTrue(T)
  BY DEF Extends, True, Types, Grown, Orders
<1>2. Names(T)'
  BY <1>1 DEF Names
<1>3. PhoneTrue(T)'
  <2>1. localOrder' # None => localOrder' \in 1..used /\ T[localOrder'] = localOrder'
    BY DEF True, PhoneTrue
  <2> QED
    BY <1>1, <2>1, PhoneNext
<1>4. FlushesTrue(T)'
  BY <1>1, FlushesNext
<1>5. ServerTrue(T)'
  BY <1>1, ServerKept
<1> QED
  BY <1>2, <1>3, <1>4, <1>5 DEF True

LEMMA QueueAt ==
  ASSUME NEW T, True(T)
  PROVE  /\ Len(entries) \in Nat /\ entries \in Seq(Entry)
         /\ \A i \in 1..Len(entries) : /\ entries[i] \in Entry /\ entries[i].key \in Key
                                       /\ Named(T, entries[i])
<1>1. entries \in Seq(Entry) /\ \A i \in 1..Len(entries) : Named(T, entries[i])
  BY DEF True, Types, PhoneTrue
<1> QED
  BY <1>1 DEF Entry, Named

\* What a flush is at follows what was answered.
LEMMA RestBefore ==
  ASSUME NEW T, True(T), Quiet(T), NEW q, NEW n, Rest(q, n), Len(q) > 0
  PROVE  Before(T, q[1])
<1>1. /\ n \in 1..Len(entries) /\ q[1] = entries[n] /\ \A i \in 1..n - 1 : keys[entries[i].key] # None
      /\ Len(entries) \in Nat
  <2>1. /\ n \in 1..Len(entries) + 1 /\ Len(q) = Len(entries) + 1 - n
        /\ \A i \in 1..Len(q) : q[i] = entries[n + i - 1]
        /\ \A i \in 1..n - 1 : keys[entries[i].key] # None
    BY DEF Rest
  <2>2. Len(entries) \in Nat /\ n \in 1..Len(entries) /\ 1 \in 1..Len(q) /\ n + 1 - 1 = n
    BY <2>1, QueueAt
  <2> QED
    BY <2>1, <2>2
<1>2. SUFFICES ASSUME NEW k \in 1..entries[n].key - 1, T[k] = entries[n].ticket
               PROVE  keys[k] # None \/ GivenUp(entries[n].ticket)
  BY <1>1 DEF Before
<1>3. entries[n].key \in Key /\ entries[n].key <= used /\ used \in Nat
  BY <1>1, QueueAt DEF Named, True, Types
<1>4. k \in 1..used
  BY <1>3 DEF Key
<1>5. Queued(k) \/ keys[k] # None \/ Noticed(k)
  BY <1>4 DEF Quiet
<1>6. CASE Queued(k)
  <2>1. PICK i \in 1..Len(entries) : entries[i].key = k
    BY <1>6 DEF Queued
  <2>2. k < entries[n].key
    BY <1>3 DEF Key
  <2>3. i < n
    <3>1. n < i => entries[n].key < entries[i].key
      BY <1>1 DEF Quiet, Sorted
    <3> QED
      BY <1>1, <1>3, <2>1, <2>2, <3>1 DEF Key
  <2> QED
    BY <1>1, <2>1, <2>3
<1>7. CASE Noticed(k)
  <2>1. PICK e \in told : e.key = k
    BY <1>7 DEF Noticed
  <2>2. e.ticket = T[k]
    BY <2>1 DEF True, PhoneTrue, Named
  <2> QED
    BY <1>2, <2>1, <2>2 DEF GivenUp
<1> QED
  BY <1>5, <1>6, <1>7

\* What a flush keeps of the queue, when it is the only one.
LEMMA QuietRest ==
  ASSUME NEW T, True(T), Quiet(T), NEW n, NEW q, Rest(q, n), entries' = q, Waiting' = {},
         used' = used, told' = told, orders' = orders, keys' = keys,
         \A r \in late' : Named(T, r.entry) /\ Before(T, r.entry)
  PROVE  Quiet(T)'
<1>1. /\ n \in 1..Len(entries) + 1 /\ Len(q) = Len(entries) + 1 - n
      /\ \A i \in 1..Len(q) : q[i] = entries[n + i - 1]
      /\ \A i \in 1..n - 1 : keys[entries[i].key] # None
      /\ Len(entries) \in Nat
  BY QueueAt DEF Rest
<1>2. /\ Types /\ Names(T) /\ ServerTrue(T) /\ Extends(T, T) /\ Grown
      /\ told \subseteq told'
  BY DEF True, Extends, Types, Grown, Orders
<1>3. Sorted(q)
  <2>1. ASSUME NEW i \in 1..Len(q), NEW j \in 1..Len(q), i < j PROVE q[i].key < q[j].key
    <3>1. n + i - 1 \in 1..Len(entries) /\ n + j - 1 \in 1..Len(entries) /\ n + i - 1 < n + j - 1
      BY <1>1, <2>1
    <3> QED
      BY <1>1, <2>1, <3>1 DEF Quiet, Sorted
  <2> QED
    BY <2>1 DEF Sorted
<1>4. Sorted(entries)'
  BY <1>3 DEF Sorted
<1>5. ASSUME NEW k \in 1..used PROVE Queued(k)' \/ keys[k] # None \/ Noticed(k)
  <2>1. CASE Queued(k)
    <3>1. PICK i \in 1..Len(entries) : entries[i].key = k
      BY <2>1 DEF Queued
    <3>2. CASE i < n
      <4>1. i \in 1..n - 1
        BY <1>1, <3>2
      <4> QED
        BY <1>1, <3>1, <4>1
    <3>3. CASE ~(i < n)
      <4>1. i - n + 1 \in 1..Len(q) /\ n + (i - n + 1) - 1 = i
        BY <1>1, <3>3
      <4>2. q[i - n + 1] = entries[i]
        BY <1>1, <4>1
      <4> QED
        BY <3>1, <4>1, <4>2 DEF Queued
    <3> QED
      BY <3>2, <3>3
  <2> QED
    BY <2>1 DEF Quiet
<1>6. ASSUME NEW k \in 1..used' PROVE Queued(k)' \/ keys'[k] # None \/ Noticed(k)'
  BY <1>5 DEF Noticed
<1>7. InOrder(T)'
  BY <1>2, InOrderKept DEF Quiet
<1>8. ASSUME NEW r \in late' PROVE Before(T, r.entry)'
  BY <1>2, BeforeKept
<1> QED
  BY <1>4, <1>6, <1>7, <1>8 DEF Quiet

\* What stays quiet when the queue and what the flushes do with it stay.
LEMMA QuietStays ==
  ASSUME NEW T, True(T), Quiet(T), Grown, InOrder(T)', entries' = entries, used' = used, told' = told,
         \A f \in Waiting' : /\ f \in Waiting
                             /\ flushes'[f].entry = flushes[f].entry
                             /\ flushes'[f].rest = flushes[f].rest,
         late' \subseteq late
  PROVE  Quiet(T)'
<1>1. \A i \in 1..Len(entries) : entries[i].key \in Key
  BY QueueAt
<1>2. ASSUME NEW q, NEW n, Rest(q, n) PROVE Rest(q, n)'
  <2>1. \A i \in 1..n - 1 : i \in 1..Len(entries)
    BY <1>2, QueueAt DEF Rest
  <2> QED
    BY <1>1, <1>2, <2>1 DEF Rest, Grown
<1>3. ASSUME NEW f \in Waiting' PROVE InLine(flushes[f])'
  <2>1. PICK q, n : q = <<flushes[f].entry>> \o flushes[f].rest /\ Rest(q, n)
    BY <1>3 DEF Quiet, InLine
  <2>2. q = <<flushes'[f].entry>> \o flushes'[f].rest
    BY <1>3, <2>1
  <2>3. Rest(q, n)'
    BY <1>2, <2>1
  <2> QED
    BY <2>2, <2>3 DEF InLine, Rest
<1>4. \A f, g \in Waiting' : f = g
  BY DEF Quiet
<1>5. ASSUME NEW k \in 1..used' PROVE Queued(k)' \/ keys'[k] # None \/ Noticed(k)'
  <2>1. k \in Key /\ k \in 1..used
    BY OutboxAssumption DEF True, Types, Key
  <2> QED
    BY <2>1 DEF Queued, Noticed, Quiet, Grown
<1>6. ASSUME NEW r \in late' PROVE Before(T, r.entry)'
  <2>1. Named(T, r.entry) /\ Before(T, r.entry) /\ Types /\ Extends(T, T) /\ told \subseteq told'
    BY DEF True, PhoneTrue, Quiet, Extends, Types
  <2> QED
    BY <2>1, BeforeKept
<1>7. Sorted(entries)'
  BY DEF Quiet, Sorted
<1> QED
  BY <1>3, <1>4, <1>5, <1>6, <1>7 DEF Quiet

\* What stays quiet when the only flush sends the next of the queue.
LEMMA QuietSend ==
  ASSUME NEW T, True(T), Quiet(T), NEW f, NEW q \in Seq(Entry), NEW n, Rest(q, n), q # <<>>,
         entries' = entries, used' = used, told' = told, orders' = orders, keys' = keys, late' = late,
         Waiting' \subseteq {f}, flushes'[f].entry = Head(q), flushes'[f].rest = Tail(q)
  PROVE  Quiet(T)'
<1>1. /\ Types /\ Names(T) /\ ServerTrue(T) /\ Extends(T, T) /\ Grown
      /\ told \subseteq told'
  BY DEF True, Extends, Types, Grown, Orders
<1>2. InOrder(T)'
  BY <1>1, InOrderKept DEF Quiet
<1>3. q = <<Head(q)>> \o Tail(q)
  OBVIOUS
<1>4. Rest(q, n)'
  BY DEF Rest
<1>5. InLine(flushes[f])'
  <2>1. q = <<flushes'[f].entry>> \o flushes'[f].rest
    BY <1>3
  <2> QED
    BY <1>4, <2>1 DEF InLine, Rest
<1>6. ASSUME NEW r \in late' PROVE Before(T, r.entry)'
  <2>1. Named(T, r.entry) /\ Before(T, r.entry)
    BY DEF True, PhoneTrue, Quiet
  <2> QED
    BY <1>1, <2>1, BeforeKept
<1>7. ASSUME NEW k \in 1..used' PROVE Queued(k)' \/ keys'[k] # None \/ Noticed(k)'
  BY DEF Queued, Noticed, Quiet
<1>8. Sorted(entries)'
  BY DEF Quiet, Sorted
<1>9. /\ \A g \in Waiting' : g = f
  OBVIOUS
<1>10. \A g \in Waiting' : InLine(flushes[g])'
  BY <1>5, <1>9
<1>11. \A g, h \in Waiting' : g = h
  BY <1>9
<1> QED
  BY <1>2, <1>6, <1>7, <1>8, <1>10, <1>11 DEF Quiet
-----------------------------------------------------------------------------
(* From one answer to the next request. *)

LEMMA WaitingJob ==
  ASSUME NEW T, True(T), NEW f \in Waiting
  PROVE  /\ flushes[f] \in Job /\ JobTrue(T, flushes[f])
         /\ flushes[f].entry \in Entry /\ flushes[f].rest \in Seq(Entry) /\ flushes[f].ids \in [Key -> Id]
         /\ flushes[f].answer \in Id /\ flushes[f].to \in Id
         /\ flushes[f].entry.key \in Key /\ flushes[f].entry.ticket \in Key
<1>1. flushes[f] \in Job /\ JobTrue(T, flushes[f])
  BY DEF True, Types, Waiting, FlushesTrue
<1>2. flushes[f].entry \in Entry /\ flushes[f].rest \in Seq(Entry) /\ flushes[f].ids \in [Key -> Id]
      /\ flushes[f].answer \in Id /\ flushes[f].to \in Id
  BY <1>1 DEF Job
<1> QED
  BY <1>1, <1>2 DEF Entry

\* What the next request is.
LEMMA SendJob ==
  ASSUME NEW T, True(T), NEW q \in Seq(Entry), \A i \in 1..Len(q) : Named(T, q[i]),
         NEW ids \in [Key -> Id], IdsTrue(ids), MaySend(q, ids), NEW j,
         j = [entry |-> Head(q), rest |-> Tail(q), ids |-> ids, answer |-> None,
              to |-> IF IsOpening(Head(q)) THEN None ELSE ids[Head(q).ticket]]
  PROVE  j \in Job /\ JobTrue(T, j) /\ j.entry = Head(q) /\ j.rest = Tail(q)
<1>1. q # <<>> /\ Head(q) = q[1] /\ Head(q) \in Entry /\ Tail(q) \in Seq(Entry) /\ Len(q) \in Nat
      /\ Len(Tail(q)) = Len(q) - 1 /\ \A i \in 1..Len(Tail(q)) : Tail(q)[i] = q[i + 1]
  BY DEF MaySend
<1>2. Head(q).ticket \in Key
  BY <1>1 DEF Entry
<1>3. PICK to : to = IF IsOpening(Head(q)) THEN None ELSE ids[Head(q).ticket]
  OBVIOUS
<1>4. to \in Id
  BY <1>2, <1>3 DEF Id
<1>5. j = [entry |-> Head(q), rest |-> Tail(q), ids |-> ids, answer |-> None, to |-> to]
  BY <1>3
<1>6. j.entry = Head(q) /\ j.rest = Tail(q) /\ j.ids = ids /\ j.answer = None /\ j.to = to
  BY <1>5
<1>7. j \in Job
  BY <1>1, <1>4, <1>5 DEF Job, Id
<1>8. Directed(j.entry, j.to)
  BY <1>1, <1>2, <1>3, <1>6 DEF Directed, MaySend, IdsTrue
<1>9. Named(T, j.entry)
  <2>1. 1 \in 1..Len(q)
    BY <1>1
  <2> QED
    BY <1>1, <1>6, <2>1
<1>10. \A i \in 1..Len(j.rest) : Named(T, j.rest[i])
  <2>1. ASSUME NEW i \in 1..Len(Tail(q)) PROVE Named(T, Tail(q)[i])
    <3>1. i + 1 \in 1..Len(q)
      BY <1>1
    <3> QED
      BY <1>1, <3>1
  <2> QED
    BY <1>6, <2>1
<1>11. JobTrue(T, j)
  BY <1>6, <1>8, <1>9, <1>10 DEF JobTrue
<1> QED
  BY <1>6, <1>7, <1>11

LEMMA ProceedTrue ==
  ASSUME NEW T, True(T), NEW f \in Flush, NEW q \in Seq(Entry), \A i \in 1..Len(q) : Named(T, q[i]),
         NEW ids \in [Key -> Id], IdsTrue(ids), Proceed(f, q, ids),
         used' = used, orders' = orders, keys' = keys, late' = late, localOrder' = localOrder
  PROVE  True(T)'
<1>1. Types /\ FlushesTrue(T) /\ PhoneTrue(T)
  BY DEF True
<1>2. flushes \in [Flush -> Job \union {None}]
  BY <1>1 DEF Types
<1>3. CASE MaySend(q, ids) /\ Send(f, q, ids)
  <2>1. PICK j : j = [entry |-> Head(q), rest |-> Tail(q), ids |-> ids, answer |-> None,
                      to |-> IF IsOpening(Head(q)) THEN None ELSE ids[Head(q).ticket]]
    OBVIOUS
  <2>2. j \in Job /\ JobTrue(T, j)
    BY <1>3, <2>1, SendJob
  <2>3. flushes' = [flushes EXCEPT ![f] = j] /\ entries' = entries /\ serverIds' = serverIds
        /\ told' = told
    BY <1>3, <2>1 DEF Send
  <2>4. flushes' \in [Flush -> Job \union {None}] /\ flushes'[f] = j
        /\ \A g \in Flush \ {f} : flushes'[g] = flushes[g]
    BY <1>2, <2>2, <2>3
  <2>5. \A g \in Waiting' : JobTrue(T, flushes'[g])
    BY <1>1, <2>2, <2>4 DEF FlushesTrue, Waiting
  <2>6. Types'
    BY <1>1, <2>3, <2>4 DEF Types
  <2> QED
    BY <1>1, <2>3, <2>5, <2>6, TrueNext DEF PhoneTrue
<1>4. CASE Finish(f, q, ids, {})
  <2>1. flushes' = [flushes EXCEPT ![f] = None] /\ entries' = q /\ serverIds' = ids /\ told' = told
    BY <1>4 DEF Finish
  <2>2. flushes' \in [Flush -> Job \union {None}] /\ flushes'[f] = None
        /\ \A g \in Flush \ {f} : flushes'[g] = flushes[g]
    BY <1>2, <2>1
  <2>3. \A g \in Waiting' : JobTrue(T, flushes'[g])
    BY <1>1, <2>2 DEF FlushesTrue, Waiting
  <2>4. Types'
    BY <1>1, <2>1, <2>2 DEF Types
  <2> QED
    BY <1>1, <2>1, <2>3, <2>4, TrueNext DEF PhoneTrue
<1> QED
  BY <1>3, <1>4 DEF Proceed

LEMMA ProceedQuiet ==
  ASSUME NEW T, True(T), Quiet(T), NEW f \in Flush, NEW q \in Seq(Entry), NEW n, Rest(q, n),
         NEW ids, Waiting \subseteq {f}, Proceed(f, q, ids),
         used' = used, orders' = orders, keys' = keys, late' = late
  PROVE  Quiet(T)'
<1>1. flushes \in [Flush -> Job \union {None}]
  BY DEF True, Types
<1>2. CASE MaySend(q, ids) /\ Send(f, q, ids)
  <2>1. PICK to : to = IF IsOpening(Head(q)) THEN None ELSE ids[Head(q).ticket]
    OBVIOUS
  <2>2. flushes' = [flushes EXCEPT ![f] = [entry |-> Head(q), rest |-> Tail(q), ids |-> ids,
                                           answer |-> None, to |-> to]]
        /\ entries' = entries /\ told' = told /\ q # <<>>
    BY <1>2, <2>1 DEF Send, MaySend
  <2>3. flushes'[f] = [entry |-> Head(q), rest |-> Tail(q), ids |-> ids, answer |-> None, to |-> to]
        /\ \A g \in Flush \ {f} : flushes'[g] = flushes[g]
    BY <1>1, <2>2
  <2>4. flushes'[f].entry = Head(q) /\ flushes'[f].rest = Tail(q) /\ Waiting' \subseteq {f}
    BY <2>3 DEF Waiting
  <2> QED
    BY <2>2, <2>4, QuietSend
<1>3. CASE Finish(f, q, ids, {})
  <2>1. flushes' = [flushes EXCEPT ![f] = None] /\ entries' = q /\ told' = told
    BY <1>3 DEF Finish
  <2>2. Waiting' = {}
    BY <1>1, <2>1 DEF Waiting
  <2>3. \A r \in late' : Named(T, r.entry) /\ Before(T, r.entry)
    BY DEF True, PhoneTrue, Quiet
  <2> QED
    BY <2>1, <2>2, <2>3, QuietRest
<1> QED
  BY <1>2, <1>3 DEF Proceed
-----------------------------------------------------------------------------
(* The steps. *)

LEMMA WholeQueue ==
  ASSUME NEW T, True(T)
  PROVE  Rest(entries, 1)
<1>1. Len(entries) \in Nat
  BY QueueAt
<1> QED
  BY <1>1 DEF Rest

LEMMA TapKept ==
  ASSUME NEW T, Kept(T), Tap
  PROVE  Keeping'
<1>1. /\ Types /\ Names(T) /\ PhoneTrue(T) /\ FlushesTrue(T) /\ ServerTrue(T)
      /\ used \in 0..MaxKey /\ MaxKey \in Nat /\ Key = 1..MaxKey
  BY OutboxAssumption DEF Kept, True, Types, Key
<1>2. PICK first : first = IF localOrder = None THEN used + 1 ELSE localOrder
  OBVIOUS
<1>3. PICK last : last = used + (IF localOrder = None THEN 2 ELSE 1)
  OBVIOUS
<1>4. PICK new : new = [i \in 1..(last - used) |-> [ticket |-> first, key |-> used + i]]
  OBVIOUS
<1>5. /\ last <= MaxKey /\ entries' = entries \o new /\ localOrder' = first /\ used' = last
      /\ calm' = (calm /\ Waiting = {})
      /\ serverIds' = serverIds /\ flushes' = flushes /\ told' = told /\ late' = late
      /\ orders' = orders /\ keys' = keys
  BY <1>2, <1>3, <1>4 DEF Tap, server
<1>6. localOrder # None => localOrder \in 1..used /\ T[localOrder] = localOrder
  BY <1>1 DEF PhoneTrue
<1>7. /\ last \in used + 1..MaxKey /\ last - used \in {1, 2} /\ first \in 1..last /\ first <= used + 1
      /\ (localOrder = None => first = used + 1) /\ (localOrder # None => first = localOrder)
  <2>1. CASE localOrder = None
    <3>1. first = used + 1 /\ last = used + 2
      BY <1>2, <1>3, <2>1
    <3> QED
      BY <1>1, <1>5, <2>1, <3>1
  <2>2. CASE localOrder # None
    <3>1. first = localOrder /\ last = used + 1 /\ first \in 1..used
      BY <1>2, <1>3, <1>6, <2>2
    <3> QED
      BY <1>1, <1>5, <2>2, <3>1
  <2> QED
    BY <2>1, <2>2
<1>8. PICK U : U = [k \in Key |-> IF k > used THEN first ELSE T[k]]
  OBVIOUS
<1>9. \A k \in Key : U[k] = IF k > used THEN first ELSE T[k]
  BY <1>8
<1>10. Extends(T, U) /\ used' \in 0..MaxKey /\ used' \in Nat /\ Grown /\ told \subseteq told'
       /\ Orders' = Orders
  <2>1. \A k \in 1..used : k \in Key /\ U[k] = T[k]
    BY <1>1, <1>9
  <2> QED
    BY <1>1, <1>5, <1>7, <2>1 DEF Extends, Grown, Orders
<1>11. Names(U)'
  <2>1. U \in [Key -> Key]
    BY <1>1, <1>7, <1>8 DEF Names
  <2>2. \A k \in 1..used : T[k] <= k /\ T[T[k]] = T[k] /\ T[k] \in Key
    BY <1>1 DEF Names
  <2>3. U[first] = first
    BY <1>1, <1>6, <1>7, <1>9
  <2>4. ASSUME NEW k \in 1..last PROVE U[k] <= k /\ U[U[k]] = U[k]
    <3>1. CASE k <= used
      BY <1>1, <1>9, <2>2, <2>4, <3>1
    <3>2. CASE k > used
      BY <1>1, <1>7, <1>9, <2>3, <2>4, <3>2
    <3> QED
      BY <1>1, <1>7, <2>4, <3>1, <3>2
  <2> QED
    BY <1>5, <2>1, <2>4 DEF Names
<1>12. /\ new \in Seq(Entry) /\ Len(new) = last - used
       /\ \A i \in 1..Len(new) : new[i] = [ticket |-> first, key |-> used + i] /\ used + i \in Key
                                 /\ new[i].ticket = first /\ new[i].key = used + i
  <2>1. \A i \in 1..(last - used) : used + i \in Key /\ [ticket |-> first, key |-> used + i] \in Entry
    BY <1>1, <1>7 DEF Entry
  <2>2. new \in [1..(last - used) -> Entry] /\ last - used \in Nat
    BY <1>4, <1>7, <2>1
  <2>3. new \in Seq(Entry) /\ Len(new) = last - used
    BY <2>2
  <2>4. ASSUME NEW i \in 1..Len(new)
        PROVE  new[i] = [ticket |-> first, key |-> used + i] /\ used + i \in Key
               /\ new[i].ticket = first /\ new[i].key = used + i
    <3>1. new[i] = [ticket |-> first, key |-> used + i] /\ used + i \in Key
      BY <1>4, <2>1, <2>3, <2>4
    <3> QED
      BY <3>1
  <2> QED
    BY <2>3, <2>4
<1>13. \A i \in 1..Len(new) : Named(U, new[i])'
  <2>1. ASSUME NEW i \in 1..Len(new) PROVE Named(U, new[i])'
    <3>1. new[i] \in Entry
      BY <1>12, <2>1
    <3>2. used + i \in Key /\ new[i].ticket = first /\ new[i].key = used + i /\ i \in 1..(last - used)
      BY <1>12, <2>1
    <3>3. used + i > used /\ used + i <= last
      BY <1>1, <1>7, <3>2
    <3>4. U[used + i] = first
      BY <1>9, <3>2, <3>3
    <3> QED
      BY <1>5, <3>1, <3>2, <3>3, <3>4 DEF Named
  <2> QED
    BY <2>1
<1>14. /\ entries' \in Seq(Entry) /\ Len(entries') = Len(entries) + Len(new) /\ Len(entries) \in Nat
       /\ \A i \in 1..Len(entries) : entries'[i] = entries[i]
       /\ \A i \in 1..Len(entries') : i > Len(entries) =>
            i - Len(entries) \in 1..Len(new) /\ entries'[i] = new[i - Len(entries)]
  BY <1>1, <1>5, <1>12 DEF Types
<1>15. \A e : Named(T, e) => Named(U, e)'
  BY <1>1, <1>10, NamedKept
<1>16. ASSUME NEW i \in 1..Len(entries') PROVE Named(U, entries[i])'
  <2>1. PICK e : e = entries'[i]
    OBVIOUS
  <2>2. Named(U, e)'
    <3>1. CASE i <= Len(entries)
      <4>1. e = entries[i] /\ i \in 1..Len(entries)
        BY <1>14, <1>16, <2>1, <3>1
      <4> QED
        BY <1>1, <1>15, <4>1 DEF PhoneTrue
    <3>2. CASE i > Len(entries)
      <4>1. i - Len(entries) \in 1..Len(new) /\ e = new[i - Len(entries)]
        BY <1>14, <1>16, <2>1, <3>2
      <4> QED
        BY <1>13, <4>1
    <3> QED
      BY <1>14, <1>16, <3>1, <3>2
  <2>3. (entries[i])' = e
    BY <2>1
  <2> QED
    BY <2>2, <2>3 DEF Named
<1>17. PhoneTrue(U)'
  <2>1. \A e \in told' : Named(U, e)'
    BY <1>1, <1>5, <1>15 DEF PhoneTrue
  <2>2. localOrder' \in 1..used' /\ U[localOrder'] = localOrder'
    <3>1. U[first] = first
      BY <1>1, <1>6, <1>7, <1>9
    <3> QED
      BY <1>5, <1>7, <3>1
  <2>3. IdsTrue(serverIds)'
    BY <1>1, <1>5, <1>10 DEF PhoneTrue, IdsTrue
  <2>4. \A r \in late' : Named(U, r.entry)' /\ Directed(r.entry, r.to)'
    BY <1>1, <1>5, <1>10, <1>15, DirectedKept DEF PhoneTrue
  <2> QED
    BY <1>16, <2>1, <2>2, <2>3, <2>4 DEF PhoneTrue
<1>18. FlushesTrue(U)'
  <2>1. \A f \in Waiting' : JobTrue(T, flushes'[f])
    BY <1>1, <1>5 DEF FlushesTrue, Waiting
  <2> QED
    BY <1>1, <1>10, <2>1, FlushesNext
<1>19. ServerTrue(U)'
  BY <1>1, <1>5, <1>10, ServerKept
<1>20. Types'
  <2>1. localOrder' \in Key
    BY <1>1, <1>5, <1>7
  <2> QED
    BY <1>1, <1>5, <1>10, <1>14, <2>1 DEF Types
<1>21. True(U)'
  BY <1>11, <1>17, <1>18, <1>19, <1>20 DEF True
<1>22. ASSUME calm' PROVE Quiet(U)'
  <2>1. calm /\ Waiting = {} /\ Quiet(T) /\ Waiting' = {}
    BY <1>5, <1>22 DEF Kept, Waiting
  <2>2. InOrder(U)'
    BY <1>1, <1>5, <1>10, <2>1, InOrderKept DEF Quiet
  <2>3. ASSUME NEW r \in late' PROVE Before(U, r.entry)'
    <3>1. Named(T, r.entry) /\ Before(T, r.entry)
      BY <1>1, <1>5, <2>1 DEF PhoneTrue, Quiet
    <3> QED
      BY <1>1, <1>10, <3>1, BeforeKept
  <2>4. ASSUME NEW k \in 1..used' PROVE Queued(k)' \/ keys'[k] # None \/ Noticed(k)'
    <3>1. CASE k <= used
      <4>1. Queued(k) \/ keys[k] # None \/ Noticed(k)
        BY <1>1, <2>1, <2>4, <3>1 DEF Quiet
      <4>2. Queued(k) => Queued(k)'
        BY <1>12, <1>14 DEF Queued
      <4> QED
        BY <1>5, <4>1, <4>2 DEF Noticed
    <3>2. CASE k > used
      <4>1. k - used \in 1..Len(new) /\ new[k - used].key = k
        BY <1>1, <1>5, <1>7, <1>12, <2>4, <3>2
      <4>2. Len(entries) + (k - used) \in 1..Len(entries') /\ k - used \in Nat
            /\ Len(entries) + (k - used) > Len(entries)
            /\ (Len(entries) + (k - used)) - Len(entries) = k - used
        BY <1>12, <1>14, <4>1
      <4>3. entries'[Len(entries) + (k - used)] = new[k - used]
        BY <1>14, <4>2
      <4> QED
        BY <4>1, <4>2, <4>3 DEF Queued
    <3> QED
      BY <1>1, <1>7, <2>4, <3>1, <3>2
  <2>5. Sorted(entries)'
    <3>1. \A i \in 1..Len(entries) : entries[i].key \in Key /\ entries[i].key <= used
      BY QueueAt DEF Kept, Named
    <3>2. ASSUME NEW i \in 1..Len(entries'), NEW j \in 1..Len(entries'), i < j
          PROVE  entries'[i].key < entries'[j].key
      <4>1. CASE j <= Len(entries)
        <5>1. i \in 1..Len(entries) /\ j \in 1..Len(entries)
          BY <1>14, <3>2, <4>1
        <5> QED
          BY <1>14, <2>1, <3>2, <5>1 DEF Quiet, Sorted
      <4>2. CASE j > Len(entries) /\ i <= Len(entries)
        <5>1. entries'[j].key = used + (j - Len(entries)) /\ j - Len(entries) \in Nat
              /\ j - Len(entries) > 0
          BY <1>12, <1>14, <3>2, <4>2
        <5>2. i \in 1..Len(entries) /\ entries'[i] = entries[i]
          BY <1>14, <3>2, <4>2
        <5> QED
          BY <1>1, <3>1, <5>1, <5>2
      <4>3. CASE j > Len(entries) /\ i > Len(entries)
        <5>1. entries'[j].key = used + (j - Len(entries)) /\ entries'[i].key = used + (i - Len(entries))
          BY <1>12, <1>14, <3>2, <4>3
        <5> QED
          BY <1>1, <1>14, <3>2, <5>1
      <4> QED
        BY <1>14, <3>2, <4>1, <4>2, <4>3
    <3> QED
      BY <3>2 DEF Sorted
  <2> QED
    BY <2>1, <2>2, <2>3, <2>4, <2>5 DEF Quiet
<1>23. Kept(U)'
  BY <1>21, <1>22 DEF Kept
<1> QED
  BY <1>23 DEF Keeping

\* Steps that move neither the queue nor what the server has.
LEMMA ScreenKept ==
  ASSUME NEW T, Kept(T), Adopt \/ Disconnect \/ UNCHANGED vars
  PROVE  Kept(T)'
<1>1. /\ entries' = entries /\ serverIds' = serverIds /\ used' = used /\ flushes' = flushes
      /\ told' = told /\ late' = late /\ orders' = orders /\ keys' = keys /\ calm' = calm
      /\ localOrder' \in {localOrder, None}
  BY DEF Adopt, Disconnect, vars, server
<1>2. True(T) /\ Types /\ Names(T) /\ PhoneTrue(T) /\ FlushesTrue(T) /\ ServerTrue(T)
  BY DEF Kept, True
<1>3. Types'
  BY <1>1, <1>2 DEF Types
<1>4. True(T)'
  <2>1. \A f \in Waiting' : JobTrue(T, flushes'[f])
    BY <1>1, <1>2 DEF FlushesTrue, Waiting
  <2> QED
    BY <1>1, <1>2, <1>3, <2>1, TrueNext DEF PhoneTrue
<1>5. ASSUME calm' PROVE Quiet(T)'
  <2>1. Quiet(T)
    BY <1>1, <1>5 DEF Kept
  <2>2. Extends(T, T) /\ Grown /\ told \subseteq told'
    BY <1>1, <1>2 DEF Extends, Types, Grown, Orders
  <2>3. InOrder(T)'
    BY <1>1, <1>2, <2>1, <2>2, InOrderKept DEF Quiet
  <2>4. \A f \in Waiting' : f \in Waiting /\ flushes'[f] = flushes[f]
    BY <1>1 DEF Waiting
  <2> QED
    BY <1>1, <1>2, <2>1, <2>2, <2>3, <2>4, QuietStays
<1> QED
  BY <1>4, <1>5 DEF Kept

LEMMA ReconnectKept ==
  ASSUME NEW T, Kept(T), NEW f \in Flush, Reconnect(f)
  PROVE  Kept(T)'
<1>1. /\ Proceed(f, entries, serverIds) /\ calm' = (calm /\ Waiting = {})
      /\ localOrder' = localOrder /\ used' = used /\ late' = late /\ orders' = orders /\ keys' = keys
  BY DEF Reconnect, server
<1>2. True(T)
  BY DEF Kept
<1>3. entries \in Seq(Entry) /\ \A i \in 1..Len(entries) : Named(T, entries[i])
  BY <1>2, QueueAt
<1>4. serverIds \in [Key -> Id] /\ IdsTrue(serverIds)
  BY <1>2 DEF True, Types, PhoneTrue
<1>5. True(T)'
  BY <1>1, <1>2, <1>3, <1>4, ProceedTrue
<1>6. ASSUME calm' PROVE Quiet(T)'
  <2>1. Quiet(T) /\ Waiting \subseteq {f}
    BY <1>1, <1>6 DEF Kept
  <2>2. Rest(entries, 1)
    BY <1>2, WholeQueue
  <2> QED
    BY <1>1, <1>2, <1>3, <2>1, <2>2, ProceedQuiet
<1> QED
  BY <1>5, <1>6 DEF Kept

\* What the flush f has in its hands, when the phone is quiet.
LEMMA HandsOn ==
  ASSUME NEW T, True(T), Quiet(T), NEW f \in Waiting
  PROVE  /\ Waiting = {f}
         /\ \E n : Rest(<<flushes[f].entry>> \o flushes[f].rest, n)
         /\ Before(T, flushes[f].entry)
<1>1. PICK q, n : q = <<flushes[f].entry>> \o flushes[f].rest /\ Rest(q, n)
  BY DEF Quiet, InLine
<1>2. flushes[f].entry \in Entry /\ flushes[f].rest \in Seq(Entry)
  BY WaitingJob
<1>3. Len(q) > 0 /\ q[1] = flushes[f].entry
  BY <1>1, <1>2
<1>4. Before(T, flushes[f].entry)
  BY <1>1, <1>3, RestBefore
<1>5. Waiting = {f}
  BY DEF Quiet
<1> QED
  BY <1>1, <1>4, <1>5

LEMMA FailsKept ==
  ASSUME NEW T, Kept(T), NEW f \in Flush, Fails(f)
  PROVE  Kept(T)'
<1>1. PICK q : q = <<flushes[f].entry>> \o flushes[f].rest
  OBVIOUS
<1>2. /\ f \in Waiting /\ flushes' = [flushes EXCEPT ![f] = None] /\ entries' = q
      /\ serverIds' = flushes[f].ids /\ told' = told \union {}
      /\ late' = late \/ late' = late \union {Request(f)}
      /\ localOrder' = localOrder /\ used' = used /\ orders' = orders /\ keys' = keys /\ calm' = calm
  BY <1>1 DEF Fails, Finish, MayComeLate, Waiting, server
<1>3. True(T) /\ Types /\ PhoneTrue(T) /\ FlushesTrue(T)
  BY DEF Kept, True
<1>4. /\ JobTrue(T, flushes[f]) /\ flushes[f].entry \in Entry /\ flushes[f].rest \in Seq(Entry)
      /\ flushes[f].ids \in [Key -> Id] /\ flushes[f].to \in Id
  BY <1>2, <1>3, WaitingJob
<1>5. /\ Request(f).entry = flushes[f].entry /\ Request(f).to = flushes[f].to
      /\ Request(f) \in [entry : Entry, to : Id]
  BY <1>4 DEF Request
<1>6. /\ q \in Seq(Entry) /\ Len(q) = Len(flushes[f].rest) + 1 /\ q[1] = flushes[f].entry
      /\ \A i \in 1..Len(q) : i = 1 \/ (i - 1 \in 1..Len(flushes[f].rest) /\ q[i] = flushes[f].rest[i - 1])
  BY <1>1, <1>4
<1>7. flushes' \in [Flush -> Job \union {None}] /\ flushes'[f] = None
      /\ \A g \in Flush \ {f} : flushes'[g] = flushes[g]
  BY <1>2, <1>3 DEF Types
<1>8. True(T)'
  <2>1. \A g \in Waiting' : JobTrue(T, flushes'[g])
    BY <1>3, <1>7 DEF FlushesTrue, Waiting
  <2>2. \A i \in 1..Len(entries') : Named(T, entries'[i])
    BY <1>2, <1>4, <1>6 DEF JobTrue
  <2>3. \A r \in late' : Named(T, r.entry) /\ Directed(r.entry, r.to)
    BY <1>2, <1>3, <1>4, <1>5 DEF JobTrue, PhoneTrue
  <2>4. late' \in SUBSET [entry : Entry, to : Id]
    BY <1>2, <1>3, <1>5 DEF Types
  <2>5. Types'
    BY <1>2, <1>3, <1>4, <1>6, <1>7, <2>4 DEF Types
  <2>6. IdsTrue(serverIds')
    BY <1>2, <1>4 DEF JobTrue
  <2>7. \A e \in told' : Named(T, e)
    BY <1>2, <1>3 DEF PhoneTrue
  <2> QED
    BY <1>2, <1>3, <2>1, <2>2, <2>3, <2>5, <2>6, <2>7, TrueNext
<1>9. ASSUME calm' PROVE Quiet(T)'
  <2>1. Quiet(T)
    BY <1>2, <1>9 DEF Kept
  <2>2. PICK n : Rest(q, n)
    BY <1>1, <1>2, <1>3, <2>1, HandsOn
  <2>3. Before(T, flushes[f].entry) /\ Waiting = {f}
    BY <1>2, <1>3, <2>1, HandsOn
  <2>4. Waiting' = {}
    BY <1>7, <2>3 DEF Waiting
  <2>5. \A r \in late' : Named(T, r.entry) /\ Before(T, r.entry)
    BY <1>2, <1>3, <1>4, <1>5, <2>1, <2>3 DEF JobTrue, PhoneTrue, Quiet
  <2>6. told' = told
    BY <1>2
  <2> QED
    BY <1>2, <1>3, <2>1, <2>2, <2>4, <2>5, <2>6, QuietRest
<1> QED
  BY <1>8, <1>9 DEF Kept

LEMMA ReloadKept ==
  ASSUME NEW T, Kept(T), Reload
  PROVE  Kept(T)'
<1>1. PICK reaching \in SUBSET {Request(f) : f \in {g \in Waiting : flushes[g].answer = None}} :
        late' = late \union reaching
  BY DEF Reload
<1>2. /\ flushes' = [f \in Flush |-> None] /\ localOrder' = None
      /\ entries' = entries /\ serverIds' = serverIds /\ used' = used /\ told' = told
      /\ orders' = orders /\ keys' = keys /\ calm' = calm
  BY DEF Reload, server
<1>3. True(T) /\ Types /\ PhoneTrue(T)
  BY DEF Kept, True
<1>4. ASSUME NEW r \in late', r \notin late
      PROVE  \E f \in Waiting : r = Request(f)
  BY <1>1, <1>4
<1>5. ASSUME NEW f \in Waiting
      PROVE  /\ Request(f) \in [entry : Entry, to : Id]
             /\ Request(f).entry = flushes[f].entry /\ Request(f).to = flushes[f].to
             /\ Named(T, flushes[f].entry) /\ Directed(flushes[f].entry, flushes[f].to)
  <2>1. JobTrue(T, flushes[f]) /\ flushes[f].entry \in Entry /\ flushes[f].to \in Id
    BY <1>3, <1>5, WaitingJob
  <2> QED
    BY <2>1 DEF Request, JobTrue
<1>6. Waiting' = {}
  BY <1>2 DEF Waiting
<1>7. True(T)'
  <2>1. \A r \in late' : r \in [entry : Entry, to : Id] /\ Named(T, r.entry) /\ Directed(r.entry, r.to)
    <3>1. ASSUME NEW r \in late'
          PROVE r \in [entry : Entry, to : Id] /\ Named(T, r.entry) /\ Directed(r.entry, r.to)
      <4>1. CASE r \in late
        BY <1>3, <4>1 DEF Types, PhoneTrue
      <4>2. CASE r \notin late
        BY <1>4, <1>5, <3>1, <4>2
      <4> QED
        BY <4>1, <4>2
    <3> QED
      BY <3>1
  <2>2. Types'
    BY <1>2, <1>3, <2>1 DEF Types
  <2> QED
    BY <1>2, <1>3, <1>6, <2>1, <2>2, TrueNext DEF PhoneTrue
<1>8. ASSUME calm' PROVE Quiet(T)'
  <2>1. Quiet(T)
    BY <1>2, <1>8 DEF Kept
  <2>2. \A r \in late' : Named(T, r.entry) /\ Before(T, r.entry)
    <3>1. ASSUME NEW r \in late' PROVE Named(T, r.entry) /\ Before(T, r.entry)
      <4>1. CASE r \in late
        BY <1>3, <2>1, <4>1 DEF PhoneTrue, Quiet
      <4>2. CASE r \notin late
        <5>1. PICK f \in Waiting : r = Request(f)
          BY <1>4, <3>1, <4>2
        <5>2. Before(T, flushes[f].entry)
          BY <1>3, <2>1, HandsOn
        <5> QED
          BY <1>5, <5>1, <5>2
      <4> QED
        BY <4>1, <4>2
    <3> QED
      BY <3>1
  <2>3. Rest(entries, 1)
    BY <1>3, WholeQueue
  <2> QED
    BY <1>2, <1>3, <1>6, <2>1, <2>2, <2>3, QuietRest
<1> QED
  BY <1>7, <1>8 DEF Kept

\* An opening that was answered has its order.
LEMMA DoneKept ==
  ASSUME NEW T, Kept(T), NEW f \in Waiting, Done(f)
  PROVE  Kept(T)'
<1>1. PICK j : j = flushes[f]
  OBVIOUS
<1>2. PICK ids : ids = IF IsOpening(j.entry) THEN [j.ids EXCEPT ![j.entry.ticket] = j.answer] ELSE j.ids
  OBVIOUS
<1>3. /\ j.answer \notin {None, Refused} /\ Proceed(f, j.rest, ids)
      /\ localOrder' = localOrder /\ used' = used /\ late' = late
      /\ orders' = orders /\ keys' = keys /\ calm' = calm
  BY <1>1, <1>2 DEF Done, server
<1>4. True(T) /\ Types /\ ServerTrue(T)
  BY DEF Kept, True
<1>5. /\ f \in Flush /\ JobTrue(T, j) /\ j.entry \in Entry /\ j.rest \in Seq(Entry) /\ j.ids \in [Key -> Id]
      /\ j.answer \in Id /\ j.entry.key \in Key /\ j.entry.ticket \in Key
  BY <1>1, <1>4, WaitingJob DEF Waiting
<1>6. keys[j.entry.key] = j.answer /\ j.answer # None
  BY <1>3, <1>5 DEF JobTrue
<1>7. Answered(T, j.entry.key, j.answer)
  BY <1>4, <1>5, <1>6 DEF ServerTrue
<1>8. ids \in [Key -> Id]
  BY <1>2, <1>5
<1>9. IdsTrue(ids)
  <2>1. ASSUME NEW t \in Key, ids[t] # None PROVE ids[t] \in Orders /\ orders[ids[t]].by = t
    <3>1. IdsTrue(j.ids)
      BY <1>5 DEF JobTrue
    <3>2. CASE IsOpening(j.entry) /\ t = j.entry.ticket
      <4>1. ids[t] = j.answer
        BY <1>2, <1>5, <3>2
      <4>2. j.answer \in Orders /\ orders[j.answer].by = T[j.entry.key] /\ t = T[j.entry.key]
        BY <1>5, <1>7, <3>2 DEF Answered, JobTrue, Named
      <4> QED
        BY <4>1, <4>2
    <3>3. CASE ~(IsOpening(j.entry) /\ t = j.entry.ticket)
      <4>1. ids[t] = j.ids[t]
        BY <1>2, <1>5, <3>3
      <4> QED
        BY <2>1, <3>1, <4>1 DEF IdsTrue
    <3> QED
      BY <3>2, <3>3
  <2> QED
    BY <2>1 DEF IdsTrue
<1>10. True(T)'
  <2>1. \A i \in 1..Len(j.rest) : Named(T, j.rest[i])
    BY <1>5 DEF JobTrue
  <2> QED
    BY <1>3, <1>4, <1>5, <1>8, <1>9, <2>1, ProceedTrue
<1>11. ASSUME calm' PROVE Quiet(T)'
  <2>1. Quiet(T)
    BY <1>3, <1>11 DEF Kept
  <2>2. PICK q, n : q = <<j.entry>> \o j.rest /\ Rest(q, n)
    BY <1>1, <1>4, <2>1, HandsOn
  <2>3. Waiting \subseteq {f}
    BY <1>4, <2>1, HandsOn
  <2>4. /\ Len(q) = Len(j.rest) + 1 /\ q[1] = j.entry /\ Len(j.rest) \in Nat
        /\ \A i \in 1..Len(j.rest) : i + 1 \in 1..Len(q) /\ q[i + 1] = j.rest[i]
    BY <1>5, <2>2
  <2>5. /\ n \in 1..Len(entries) + 1 /\ Len(q) = Len(entries) + 1 - n
        /\ \A i \in 1..Len(q) : q[i] = entries[n + i - 1]
        /\ \A i \in 1..n - 1 : keys[entries[i].key] # None
        /\ Len(entries) \in Nat
    BY <1>4, <2>2, QueueAt DEF Rest
  <2>6. n + 1 \in 1..Len(entries) + 1 /\ Len(j.rest) = Len(entries) + 1 - (n + 1)
    BY <2>4, <2>5
  <2>7. entries[n] = j.entry
    <3>1. 1 \in 1..Len(q) /\ n + 1 - 1 = n
      BY <2>4, <2>5
    <3> QED
      BY <2>4, <2>5, <3>1
  <2>8. \A i \in 1..Len(j.rest) : j.rest[i] = entries[(n + 1) + i - 1]
    <3>1. ASSUME NEW i \in 1..Len(j.rest) PROVE j.rest[i] = entries[(n + 1) + i - 1]
      <4>1. i + 1 \in 1..Len(q) /\ q[i + 1] = j.rest[i] /\ n + (i + 1) - 1 = (n + 1) + i - 1
        BY <2>4, <2>5
      <4> QED
        BY <2>5, <4>1
    <3> QED
      BY <3>1
  <2>9. \A i \in 1..(n + 1) - 1 : keys[entries[i].key] # None
    <3>1. ASSUME NEW i \in 1..(n + 1) - 1 PROVE keys[entries[i].key] # None
      <4>1. i \in 1..n - 1 \/ i = n
        BY <2>5
      <4> QED
        BY <1>6, <2>5, <2>7, <4>1
    <3> QED
      BY <3>1
  <2>10. Rest(j.rest, n + 1)
    BY <2>6, <2>8, <2>9 DEF Rest
  <2> QED
    BY <1>3, <1>4, <1>5, <2>1, <2>3, <2>10, ProceedQuiet
<1> QED
  BY <1>10, <1>11 DEF Kept

LEMMA DroppedKept ==
  ASSUME NEW T, Kept(T), NEW f \in Waiting, Dropped(f)
  PROVE  Kept(T)'
<1>1. PICK j : j = flushes[f]
  OBVIOUS
<1>2. PICK ofTicket : ofTicket = {e \in Range(j.rest) : e.ticket = j.entry.ticket}
  OBVIOUS
<1>3. /\ flushes' = [flushes EXCEPT ![f] = None] /\ entries' = <<>> /\ serverIds' = j.ids
      /\ told' = told \union ({j.entry} \union ofTicket)
      /\ calm' = (calm /\ ofTicket = Range(j.rest))
      /\ localOrder' = localOrder /\ used' = used /\ late' = late /\ orders' = orders /\ keys' = keys
  BY <1>1, <1>2 DEF Dropped, Finish, server
<1>4. True(T) /\ Types /\ Names(T) /\ PhoneTrue(T) /\ FlushesTrue(T) /\ ServerTrue(T)
  BY DEF Kept, True
<1>5. /\ JobTrue(T, j) /\ j.entry \in Entry /\ j.rest \in Seq(Entry) /\ j.ids \in [Key -> Id]
  BY <1>1, <1>4, WaitingJob
<1>6. Range(j.rest) = {j.rest[i] : i \in 1..Len(j.rest)} /\ Len(j.rest) \in Nat
  BY <1>5 DEF Range
<1>7. flushes' \in [Flush -> Job \union {None}] /\ flushes'[f] = None
      /\ \A g \in Flush \ {f} : flushes'[g] = flushes[g]
  BY <1>3, <1>4 DEF Types, Waiting
<1>8. \A e \in told' : e \in Entry /\ Named(T, e)
  <2>1. \A e \in told : e \in Entry /\ Named(T, e)
    BY <1>4 DEF Types, PhoneTrue
  <2>2. \A i \in 1..Len(j.rest) : j.rest[i] \in Entry /\ Named(T, j.rest[i])
    BY <1>5 DEF JobTrue
  <2>3. Named(T, j.entry)
    BY <1>5 DEF JobTrue
  <2>4. \A e \in ofTicket : e \in Entry /\ Named(T, e)
    BY <1>2, <1>6, <2>2
  <2> QED
    BY <1>3, <1>5, <2>1, <2>3, <2>4
<1>9. True(T)'
  <2>1. Types'
    BY <1>3, <1>4, <1>5, <1>7, <1>8 DEF Types
  <2>2. \A g \in Waiting' : JobTrue(T, flushes'[g])
    BY <1>4, <1>7 DEF FlushesTrue, Waiting
  <2>3. IdsTrue(serverIds')
    BY <1>3, <1>5 DEF JobTrue
  <2>4. Len(entries') = 0
    BY <1>3
  <2>5. \A i \in 1..Len(entries') : Named(T, entries'[i])
    BY <2>4
  <2>6. \A r \in late' : Named(T, r.entry) /\ Directed(r.entry, r.to)
    BY <1>3, <1>4 DEF PhoneTrue
  <2> QED
    BY <1>3, <1>4, <1>8, <2>1, <2>2, <2>3, <2>5, <2>6, TrueNext
<1>10. ASSUME calm' PROVE Quiet(T)'
  <2>1. Quiet(T) /\ ofTicket = Range(j.rest)
    BY <1>3, <1>10 DEF Kept
  <2>2. PICK q, n : q = <<j.entry>> \o j.rest /\ Rest(q, n)
    BY <1>1, <1>4, <2>1, HandsOn
  <2>3. Waiting' = {}
    BY <1>4, <1>7, <2>1, HandsOn DEF Waiting
  <2>4. /\ Len(q) = Len(j.rest) + 1 /\ q[1] = j.entry
        /\ \A i \in 1..Len(q) : i = 1 \/ (i - 1 \in 1..Len(j.rest) /\ q[i] = j.rest[i - 1])
    BY <1>5, <2>2
  <2>5. /\ n \in 1..Len(entries) + 1 /\ Len(q) = Len(entries) + 1 - n
        /\ \A i \in 1..Len(q) : q[i] = entries[n + i - 1]
        /\ \A i \in 1..n - 1 : keys[entries[i].key] # None
        /\ Len(entries) \in Nat
    BY <1>4, <2>2, QueueAt DEF Rest
  <2>6. \A i \in 1..Len(q) : q[i] \in told'
    <3>1. ASSUME NEW i \in 1..Len(q) PROVE q[i] \in told'
      <4>1. q[i] = j.entry \/ q[i] \in Range(j.rest)
        BY <1>6, <2>4
      <4> QED
        BY <1>3, <2>1, <4>1
    <3> QED
      BY <3>1
  <2>7. ASSUME NEW k \in 1..used' PROVE keys'[k] # None \/ Noticed(k)'
    <3>1. CASE Queued(k)
      <4>1. PICK i \in 1..Len(entries) : entries[i].key = k
        BY <3>1 DEF Queued
      <4>2. CASE i < n
        <5>1. i \in 1..n - 1
          BY <2>5, <4>2
        <5> QED
          BY <1>3, <2>5, <4>1, <5>1
      <4>3. CASE ~(i < n)
        <5>1. i - n + 1 \in 1..Len(q) /\ n + (i - n + 1) - 1 = i
          BY <2>5, <4>3
        <5>2. q[i - n + 1] = entries[i]
          BY <2>5, <5>1
        <5> QED
          BY <2>6, <4>1, <5>1, <5>2 DEF Noticed
      <4> QED
        BY <4>2, <4>3
    <3>2. CASE Noticed(k)
      BY <1>3, <3>2 DEF Noticed
    <3> QED
      BY <1>3, <2>1, <3>1, <3>2 DEF Quiet
  <2>8. Extends(T, T) /\ Grown /\ told \subseteq told'
    BY <1>3, <1>4 DEF Extends, Types, Grown, Orders
  <2>9. InOrder(T)'
    BY <1>3, <1>4, <2>1, <2>8, InOrderKept DEF Quiet
  <2>10. ASSUME NEW r \in late' PROVE Before(T, r.entry)'
    <3>1. Named(T, r.entry) /\ Before(T, r.entry)
      BY <1>3, <1>4, <2>1 DEF PhoneTrue, Quiet
    <3> QED
      BY <1>4, <2>8, <3>1, BeforeKept
  <2>11. Sorted(entries)'
    BY <1>3 DEF Sorted
  <2> QED
    BY <2>3, <2>7, <2>9, <2>10, <2>11 DEF Quiet
<1> QED
  BY <1>9, <1>10 DEF Kept

\* The server answers a request that is named, directed and in its turn.
LEMMA ServeKept ==
  ASSUME NEW T, Kept(T), NEW e, Named(T, e), NEW to, Directed(e, to), calm => Before(T, e),
         NEW answer \in Answers, Serve(e, to, answer),
         entries' = entries, serverIds' = serverIds, localOrder' = localOrder, used' = used,
         told' = told, calm' = calm, late' \subseteq late,
         flushes' \in [Flush -> Job \union {None}],
         FlushesTrue(T)',
         \A f \in Waiting' : /\ f \in Waiting
                             /\ flushes'[f].entry = flushes[f].entry
                             /\ flushes'[f].rest = flushes[f].rest
  PROVE  Kept(T)'
<1>1. True(T) /\ Types /\ Names(T) /\ PhoneTrue(T) /\ ServerTrue(T) /\ e \in Entry
  BY DEF Kept, True, Named
<1>2. Grown /\ Extends(T, T) /\ used' \in Nat
  BY <1>1, ServedGrows DEF Extends, Types
<1>3. ServerTrue(T)'
  BY <1>1, ServedTrue
<1>4. orders' \in Seq(OrderRow) /\ keys' \in [Key -> Id]
  BY <1>1, ServedTypes
<1>5. Types'
  BY <1>1, <1>4 DEF Types
<1>6. Names(T)'
  BY <1>1 DEF Names
<1>7. PhoneTrue(T)'
  BY <1>1, <1>2, PhoneNext DEF PhoneTrue
<1>8. True(T)'
  BY <1>3, <1>5, <1>6, <1>7 DEF True
<1>9. ASSUME calm' PROVE Quiet(T)'
  <2>1. Quiet(T) /\ Before(T, e)
    BY <1>9 DEF Kept
  <2>2. InOrder(T)'
    BY <1>1, <2>1, ServedInOrder DEF Quiet
  <2> QED
    BY <1>1, <1>2, <2>1, <2>2, QuietStays
<1> QED
  BY <1>8, <1>9 DEF Kept

LEMMA ServeOneKept ==
  ASSUME NEW T, Kept(T), NEW f \in Flush, ServeOne(f)
  PROVE  Kept(T)'
<1>1. PICK j : j = flushes[f]
  OBVIOUS
<1>2. f \in Waiting
  BY DEF ServeOne, Waiting
<1>3. PICK answer \in Answers : /\ Serve(j.entry, j.to, answer)
                                /\ flushes' = [flushes EXCEPT ![f].answer = answer]
  BY <1>1 DEF ServeOne
<1>4. /\ entries' = entries /\ serverIds' = serverIds /\ localOrder' = localOrder /\ used' = used
      /\ told' = told /\ late' = late /\ calm' = calm
  BY DEF ServeOne
<1>5. True(T) /\ Types /\ FlushesTrue(T)
  BY DEF Kept, True
<1>6. /\ j \in Job /\ JobTrue(T, j) /\ j.entry \in Entry
  BY <1>1, <1>2, <1>5, WaitingJob
<1>7. Named(T, j.entry) /\ Directed(j.entry, j.to)
  BY <1>6 DEF JobTrue
<1>8. calm => Before(T, j.entry)
  BY <1>1, <1>2, <1>5, HandsOn DEF Kept
<1>9. PICK k : k = [j EXCEPT !.answer = answer]
  OBVIOUS
<1>10. answer \in Id
  BY <1>3, OutboxAssumption DEF Answers, Id
<1>11. /\ k \in Job /\ k.entry = j.entry /\ k.rest = j.rest /\ k.ids = j.ids /\ k.to = j.to
       /\ k.answer = answer
  BY <1>6, <1>9, <1>10 DEF Job
<1>12. /\ flushes' \in [Flush -> Job \union {None}] /\ flushes'[f] = k
       /\ \A g \in Flush \ {f} : flushes'[g] = flushes[g]
  <2>1. flushes' = [flushes EXCEPT ![f] = k]
    BY <1>1, <1>3, <1>9
  <2> QED
    BY <1>5, <1>11, <2>1 DEF Types
<1>13. Extends(T, T) /\ used' \in Nat /\ Grown /\ (answer # Refused => keys'[j.entry.key] = answer)
  BY <1>3, <1>4, <1>5, <1>6, <1>7, ServedGrows DEF Extends, Types
<1>14. JobTrue(T, j)'
  BY <1>5, <1>6, <1>13, JobKept
<1>15. JobTrue(T, k)'
  BY <1>3, <1>11, <1>13, <1>14 DEF JobTrue, Answers
<1>16. ASSUME NEW g \in Waiting' PROVE JobTrue(T, flushes[g])'
  <2>1. CASE g = f
    <3>1. (flushes[g])' = k
      BY <1>12, <2>1
    <3> QED
      BY <1>15, <3>1 DEF JobTrue
  <2>2. CASE g # f
    <3>1. PICK h : h = flushes[g]
      OBVIOUS
    <3>2. (flushes[g])' = h /\ g \in Waiting
      BY <1>12, <1>16, <2>2, <3>1 DEF Waiting
    <3>3. JobTrue(T, h)
      BY <1>5, <3>1, <3>2 DEF FlushesTrue
    <3>4. JobTrue(T, h)'
      BY <1>5, <1>13, <3>3, JobKept
    <3> QED
      BY <3>2, <3>4 DEF JobTrue
  <2> QED
    BY <2>1, <2>2
<1>17. FlushesTrue(T)'
  BY <1>16 DEF FlushesTrue
<1>18. \A g \in Waiting' : /\ g \in Waiting
                           /\ flushes'[g].entry = flushes[g].entry
                           /\ flushes'[g].rest = flushes[g].rest
  BY <1>1, <1>2, <1>11, <1>12 DEF Waiting
<1>19. late' \subseteq late
  BY <1>4
<1> QED
  BY <1>3, <1>4, <1>7, <1>8, <1>12, <1>17, <1>18, <1>19, ServeKept

LEMMA ServeLateKept ==
  ASSUME NEW T, Kept(T), NEW r \in late, ServeLate(r)
  PROVE  Kept(T)'
<1>1. PICK answer \in Answers : Serve(r.entry, r.to, answer)
  BY DEF ServeLate
<1>2. /\ entries' = entries /\ serverIds' = serverIds /\ localOrder' = localOrder /\ used' = used
      /\ told' = told /\ flushes' = flushes /\ calm' = calm /\ late' \subseteq late
  BY DEF ServeLate, phone
<1>3. True(T) /\ Types /\ FlushesTrue(T) /\ PhoneTrue(T)
  BY DEF Kept, True
<1>4. Named(T, r.entry) /\ Directed(r.entry, r.to)
  BY <1>3 DEF PhoneTrue
<1>5. calm => Before(T, r.entry)
  BY DEF Kept, Quiet
<1>6. Extends(T, T) /\ used' \in Nat /\ Grown
  BY <1>1, <1>2, <1>3, <1>4, ServedGrows DEF Extends, Types, Named
<1>7. \A f \in Waiting' : f \in Waiting /\ flushes'[f] = flushes[f]
  BY <1>2 DEF Waiting
<1>8. FlushesTrue(T)'
  <2>1. \A f \in Waiting' : JobTrue(T, flushes'[f])
    BY <1>3, <1>7 DEF FlushesTrue
  <2> QED
    BY <1>3, <1>6, <2>1, FlushesNext
<1>9. flushes' \in [Flush -> Job \union {None}]
  BY <1>2, <1>3 DEF Types
<1> QED
  BY <1>1, <1>2, <1>4, <1>5, <1>7, <1>8, <1>9, ServeKept

LEMMA KeepingNext == Keeping /\ [Next]_vars => Keeping'
<1> SUFFICES ASSUME NEW T, Kept(T), [Next]_vars PROVE Keeping'
  BY DEF Keeping
<1>1. ASSUME Kept(T)' PROVE Keeping'
  BY <1>1 DEF Keeping
<1>2. CASE Tap
  BY <1>2, TapKept
<1>3. CASE Adopt \/ Disconnect \/ UNCHANGED vars
  BY <1>1, <1>3, ScreenKept
<1>4. CASE Reload
  BY <1>1, <1>4, ReloadKept
<1>5. ASSUME NEW f \in Flush, Reconnect(f) \/ Fails(f) \/ ServeOne(f) PROVE Keeping'
  BY <1>1, <1>5, ReconnectKept, FailsKept, ServeOneKept
<1>6. ASSUME NEW f \in Waiting, Done(f) \/ Dropped(f) PROVE Keeping'
  BY <1>1, <1>6, DoneKept, DroppedKept
<1>7. ASSUME NEW r \in late, ServeLate(r) PROVE Keeping'
  BY <1>1, <1>7, ServeLateKept
<1> QED
  BY <1>2, <1>3, <1>4, <1>5, <1>6, <1>7 DEF Next

\* The phone, the flushes, the requests that are late and the server agree on
\* the tickets of the keys.
THEOREM KeepingHolds == Spec => []Keeping
BY KeepingInit, KeepingNext, PTL DEF Spec

-----------------------------------------------------------------------------
(* The properties. *)

LEMMA AtMostOne ==
  ASSUME NEW S, \A p, q \in S : p = q
  PROVE  Cardinality(S) <= 1
<1>1. CASE S = {}
  BY <1>1, FS_EmptySet
<1>2. CASE S # {}
  <2>1. PICK p \in S : TRUE
    BY <1>2
  <2>2. S = {p}
    BY <2>1
  <2>3. Cardinality({p}) = 1
    BY ONLY FS_Singleton
  <2> QED
    BY <2>2, <2>3
<1> QED
  BY <1>1, <1>2

\* outbox.ts, flush, with the Idempotency-Key of each entry: for any number of
\* flushes, keys and late requests, an opening makes one order and a line is on
\* one order once.
THEOREM SentOnceHolds == Spec => []SentOnce
<1>1. Keeping => SentOnce
  <2> SUFFICES ASSUME NEW T, Kept(T), NEW k \in Key
               PROVE /\ Cardinality({o \in Orders : orders[o].by = k}) <= 1
                     /\ Cardinality({p \in Orders \X Key :
                          p[2] \in DOMAIN LinesAt(p[1]) /\ LinesAt(p[1])[p[2]].key = k}) <= 1
    BY DEF Keeping, SentOnce
  <2>1. Types /\ Names(T) /\ ServerTrue(T)
    BY DEF Kept, True
  <2>2. \A o, p \in {o \in Orders : orders[o].by = k} : o = p
    BY <2>1 DEF ServerTrue, Opened
  <2>3. PICK S : S = {p \in Orders \X Key :
                   p[2] \in DOMAIN LinesAt(p[1]) /\ LinesAt(p[1])[p[2]].key = k}
    OBVIOUS
  <2>4. ASSUME NEW p \in S
        PROVE  /\ p = <<p[1], p[2]>> /\ p[1] \in Orders /\ p[2] \in 1..Len(LinesAt(p[1]))
               /\ LinesAt(p[1])[p[2]].key = k
    <3>1. p \in Orders \X Key /\ p[2] \in DOMAIN LinesAt(p[1]) /\ LinesAt(p[1])[p[2]].key = k
      BY <2>3, <2>4
    <3>2. p = <<p[1], p[2]>> /\ p[1] \in Orders
      BY <3>1
    <3>3. LinesAt(p[1]) \in Seq(Entry)
      BY <2>1, <3>2, OrderAt
    <3> QED
      BY <3>1, <3>2, <3>3
  <2>5. ASSUME NEW p \in S, NEW q \in S PROVE p = q
    <3>1. p[1] = keys[k] /\ q[1] = keys[k]
      BY <2>1, <2>4, <2>5, LineNamed
    <3>2. Once(p[1])
      BY <2>1, <2>4, <2>5 DEF ServerTrue
    <3>3. p[2] = q[2]
      BY <2>4, <2>5, <3>1, <3>2 DEF Once
    <3> QED
      BY <2>4, <2>5, <3>1, <3>3
  <2>6. Cardinality(S) <= 1
    <3>1. \A p, q \in S : p = q
      BY <2>5
    <3> QED
      BY <3>1, AtMostOne
  <2> QED
    BY <2>2, <2>3, <2>6, AtMostOne
<1> QED
  BY <1>1, KeepingHolds, PTL

\* TicketScreen and flush: the lines of an order are those of the ticket whose
\* opening made it; in the order of the taps as long as the phone is calm and
\* nothing of the ticket was given up.
THEOREM TicketsAsTappedHolds == Spec => []TicketsAsTapped
<1>1. Keeping => TicketsAsTapped
  <2> SUFFICES ASSUME NEW T, Kept(T), NEW o \in Orders
               PROVE /\ \A i \in DOMAIN LinesAt(o) : LinesAt(o)[i].ticket = orders[o].by
                     /\ \A i, j \in DOMAIN LinesAt(o) :
                          calm /\ i < j /\ ~GivenUp(orders[o].by)
                            => LinesAt(o)[i].key < LinesAt(o)[j].key
    BY DEF Keeping, TicketsAsTapped
  <2>1. Types /\ ServerTrue(T) /\ DOMAIN LinesAt(o) = 1..Len(LinesAt(o))
    BY OrderAt DEF Kept, True
  <2>2. \A i \in 1..Len(LinesAt(o)) : LinesAt(o)[i].ticket = orders[o].by
    BY <2>1 DEF ServerTrue, Once
  <2>3. calm /\ ~GivenUp(orders[o].by) => Sorted(LinesAt(o))
    BY DEF Kept, Quiet, InOrder
  <2> QED
    BY <2>1, <2>2, <2>3 DEF Sorted
<1> QED
  BY <1>1, KeepingHolds, PTL

\* outbox.ts, flush: whatever answers are lost and wherever the page reloads,
\* what was tapped is queued, on the server or given up with a notice, as long
\* as the phone is calm.
THEOREM KeptOrToldHolds == Spec => []KeptOrTold
<1>1. Keeping => KeptOrTold
  <2> SUFFICES ASSUME NEW T, Kept(T), calm, NEW k \in 1..used
               PROVE  k \in KeysIn(entries) \cup Arrived \cup {e.key : e \in told}
    BY DEF Keeping, KeptOrTold, Accounted
  <2>1. True(T) /\ Types /\ Names(T) /\ ServerTrue(T) /\ k \in Key
    BY OutboxAssumption DEF Kept, True, Types, Key
  <2>2. CASE Queued(k)
    BY <2>1, <2>2, QueueAt DEF Queued, KeysIn, Range
  <2>3. CASE keys[k] # None
    <3>1. PICK o : o = keys[k]
      OBVIOUS
    <3>2. Answered(T, k, o) /\ o \in Orders
      BY <2>1, <2>3, <3>1 DEF ServerTrue, Answered
    <3>3. CASE k = T[k]
      BY <3>2, <3>3 DEF Answered, Arrived
    <3>4. CASE k # T[k]
      <4>1. PICK i \in 1..Len(LinesAt(o)) : LinesAt(o)[i].key = k
        BY <3>2, <3>4 DEF Answered
      <4>2. k \in KeysIn(LinesAt(o))
        <5>1. DOMAIN LinesAt(o) = 1..Len(LinesAt(o))
          BY <2>1, <3>2, OrderAt
        <5> QED
          BY <4>1, <5>1 DEF KeysIn, Range
      <4> QED
        BY <3>2, <4>2 DEF Arrived
    <3> QED
      BY <3>3, <3>4
  <2>4. CASE Noticed(k)
    BY <2>4 DEF Noticed
  <2> QED
    BY <2>2, <2>3, <2>4 DEF Kept, Quiet
<1> QED
  BY <1>1, KeepingHolds, PTL

=============================================================================
