---------------------------- MODULE FloorProofs ----------------------------
(***************************************************************************)
(* What the dining room promises, for any number of workers, tables,       *)
(* orders and lines and any requests: no ring of waiting moves, no line of *)
(* a paid ticket touched, and no unit lost or doubled by a move.           *)
(***************************************************************************)
EXTENDS Floor, Sums, SequenceTheorems

Statement ==
  {<<"read">>, <<"source">>, <<"target">>, <<"commit">>}
    \union {<<"table", t>> : t \in Table} \union {<<"slot", t>> : t \in Table}
    \union {<<"order", o>> : o \in Order}

-----------------------------------------------------------------------------
(* Numbers. *)

LEMMA MinIsLeast ==
  ASSUME NEW S, S \subseteq Nat, S # {}
  PROVE  Min(S) \in S /\ \A x \in S : Min(S) <= x
<1> DEFINE R == OpToRel(<, Nat)
<1>1. PICK m \in S : \A n \in S : <<n, m>> \notin R
  BY ONLY WFMin, NatLessThanWellFounded, S \subseteq Nat, S # {}
<1>2. ASSUME NEW n \in S PROVE m <= n
  <2>1. ~(n < m)
    BY <1>1 DEF OpToRel
  <2> QED
    BY <2>1
<1> QED
  BY <1>2 DEF Min

LEMMA MinMaxPair ==
  ASSUME NEW a \in Int, NEW b \in Int
  PROVE  /\ Min({a, b}) = IF a <= b THEN a ELSE b
         /\ Max({a, b}) = IF a <= b THEN b ELSE a
<1> DEFINE lo == IF a <= b THEN a ELSE b
           hi == IF a <= b THEN b ELSE a
<1>1. lo \in {a, b} /\ \A y \in {a, b} : lo <= y
  OBVIOUS
<1>2. hi \in {a, b} /\ \A y \in {a, b} : hi >= y
  OBVIOUS
<1>3. \A x \in {a, b} : (\A y \in {a, b} : x <= y) => x = lo
  OBVIOUS
<1>4. \A x \in {a, b} : (\A y \in {a, b} : x >= y) => x = hi
  OBVIOUS
<1> HIDE DEF lo, hi
<1>5. Min({a, b}) = lo
  BY <1>1, <1>3 DEF Min
<1>6. Max({a, b}) = hi
  BY <1>2, <1>4 DEF Max
<1> QED
  BY <1>5, <1>6 DEF lo, hi

-----------------------------------------------------------------------------
(* The statements of a request. *)

LEMMA AfterTwo ==
  ASSUME NEW S, NEW x \in Seq(S), Len(x) = 2, NEW t \in Seq(S)
  PROVE  /\ x \o t \in Seq(S) /\ Len(x \o t) = Len(t) + 2
         /\ (x \o t)[1] = x[1] /\ (x \o t)[2] = x[2]
         /\ \A i \in 1..Len(t) : (x \o t)[i + 2] = t[i]
<1>1. PICK z : z = x \o t
  OBVIOUS
<1>2. Len(t) \in Nat
  BY LenProperties
<1>3. /\ x \o t \in Seq(S) /\ Len(x \o t) = Len(x) + Len(t)
      /\ \A i \in 1..(Len(x) + Len(t)) : (x \o t)[i] = IF i <= Len(x) THEN x[i] ELSE t[i - Len(x)]
  BY ConcatProperties
<1>4. /\ z \in Seq(S) /\ Len(z) = Len(t) + 2
      /\ \A i \in 1..(2 + Len(t)) : z[i] = IF i <= 2 THEN x[i] ELSE t[i - 2]
  BY <1>1, <1>2, <1>3
<1>5. z[1] = x[1] /\ z[2] = x[2]
  BY <1>2, <1>4
<1>6. ASSUME NEW i \in 1..Len(t) PROVE z[i + 2] = t[i]
  <2>1. i + 2 \in 1..(2 + Len(t)) /\ ~(i + 2 <= 2) /\ (i + 2) - 2 = i
    BY <1>2
  <2> QED
    BY <1>4, <2>1
<1>7. z \in Seq(S) /\ Len(z) = Len(t) + 2
  BY <1>4
<1> QED
  BY ONLY <1>1, <1>5, <1>6, <1>7

\* D is what a request runs, statement by statement.
Planned(r, D) ==
  /\ D \in Seq(Statement) /\ Len(D) \in 1..6 /\ D[Len(D)] = <<"commit">>
  /\ r.op \in OrderOp => Len(D) = 2 /\ D[1] = <<"order", r.order>>
  /\ r.op = "update_table" => Len(D) = 2 /\ D[1] = <<"table", r.table>>
  /\ r.op = "open_table" =>
       /\ Len(D) = 4 /\ D[1] = <<"read">> /\ D[2] = <<"slot", r.table>>
       /\ D[3] = <<"table", r.table>>
  /\ r.op = "create_zone" => Len(D) = 1
  /\ r.op \in {"update_zone", "create_table"} => Len(D) = 2 /\ D[1] = <<"read">>
  /\ r.op \in MoveOp =>
       /\ D[1] = <<"table", Lo(r)>> /\ D[2] = <<"table", Hi(r)>>
       /\ D[3] = <<"source">> /\ D[4] = <<"target">>
  /\ r.op \in {"transfer_table", "split_table"} => Len(D) = 6 /\ D[5] = <<"slot", r.target>>
  /\ r.op = "merge_tables" => Len(D) = 5

LEMMA LoHi ==
  ASSUME NEW r \in Request, r.op \in MoveOp
  PROVE  /\ r.table \in Table /\ r.target \in Table
         /\ Lo(r) \in Table /\ Hi(r) \in Table /\ Lo(r) <= Hi(r)
         /\ r.table # r.target => Lo(r) < Hi(r)
         /\ {Lo(r), Hi(r)} = {r.table, r.target}
<1>1. r.table \in Table /\ r.target \in Table
  BY RequestAssumption DEF WellFormed
<1>2. r.table \in Int /\ r.target \in Int
  BY <1>1 DEF Table
<1>3. /\ Lo(r) = IF r.table <= r.target THEN r.table ELSE r.target
      /\ Hi(r) = IF r.table <= r.target THEN r.target ELSE r.table
  BY <1>2, MinMaxPair DEF Lo, Hi
<1> QED
  BY <1>1, <1>2, <1>3

LEMMA Plans ==
  ASSUME NEW r \in Request
  PROVE  Planned(r, Steps(r))
<1>1. WellFormed(r)
  BY RequestAssumption
<1>2. r.op \in OrderOp \union MoveOp \union SetupOp \union {"open_table"}
  BY <1>1 DEF WellFormed
<1>3. CASE r.op \in OrderOp
  <2>1. Steps(r) = <<<<"order", r.order>>, <<"commit">>>>
    BY <1>3 DEF Steps, OrderOp
  <2>2. r.order \in Order
    BY <1>1, <1>3 DEF WellFormed
  <2>3. <<"order", r.order>> \in Statement /\ <<"commit">> \in Statement
    BY <2>2 DEF Statement
  <2> QED
    BY <1>3, <2>1, <2>3 DEF Planned, OrderOp, MoveOp
<1>4. CASE r.op \in {"transfer_table", "split_table"}
  <2>1. Steps(r) = LockTwo(r) \o <<<<"source">>, <<"target">>, <<"slot", r.target>>, <<"commit">>>>
    BY <1>4 DEF Steps, OrderOp
  <2> DEFINE t == <<<<"source">>, <<"target">>, <<"slot", r.target>>, <<"commit">>>>
  <2>2. Lo(r) \in Table /\ Hi(r) \in Table /\ r.target \in Table
    BY <1>4, LoHi DEF MoveOp
  <2>3. <<"table", Lo(r)>> \in Statement /\ <<"table", Hi(r)>> \in Statement
    BY <2>2 DEF Statement
  <2>4. /\ <<"source">> \in Statement /\ <<"target">> \in Statement
        /\ <<"slot", r.target>> \in Statement /\ <<"commit">> \in Statement
    BY <2>2 DEF Statement
  <2>5. /\ t \in Seq(Statement) /\ Len(t) = 4
        /\ t[1] = <<"source">> /\ t[2] = <<"target">> /\ t[3] = <<"slot", r.target>>
        /\ t[4] = <<"commit">>
    BY <2>4
  <2>6. PICK z : z = Steps(r)
    OBVIOUS
  <2>a. PICK x : x = LockTwo(r)
    OBVIOUS
  <2>b. /\ x \in Seq(Statement) /\ Len(x) = 2
        /\ x[1] = <<"table", Lo(r)>> /\ x[2] = <<"table", Hi(r)>>
    BY <2>3, <2>a DEF LockTwo
  <2>7. z = x \o t
    BY <2>1, <2>6, <2>a
  <2> HIDE DEF t
  <2>c. t \in Seq(Statement) /\ x \in Seq(Statement) /\ Len(x) = 2
    BY <2>5, <2>b
  <2>d. /\ x \o t \in Seq(Statement) /\ Len(x \o t) = Len(t) + 2
        /\ (x \o t)[1] = x[1] /\ (x \o t)[2] = x[2]
        /\ \A i \in 1..Len(t) : (x \o t)[i + 2] = t[i]
    BY ONLY <2>c, AfterTwo
  <2>8. /\ z \in Seq(Statement) /\ Len(z) = Len(t) + 2
        /\ z[1] = x[1] /\ z[2] = x[2]
        /\ \A i \in 1..Len(t) : z[i + 2] = t[i]
    BY ONLY <2>7, <2>d
  <2>9. z[3] = t[1] /\ z[4] = t[2] /\ z[5] = t[3] /\ z[6] = t[4]
    <3>1. z[1 + 2] = t[1] /\ z[2 + 2] = t[2] /\ z[3 + 2] = t[3] /\ z[4 + 2] = t[4]
      BY <2>5, <2>8
    <3> QED
      BY <3>1
  <2> QED
    BY <1>4, <2>5, <2>6, <2>8, <2>9, <2>b DEF Planned, OrderOp, MoveOp
<1>5. CASE r.op = "merge_tables"
  <2>1. Steps(r) = LockTwo(r) \o <<<<"source">>, <<"target">>, <<"commit">>>>
    BY <1>5 DEF Steps, OrderOp
  <2> DEFINE t == <<<<"source">>, <<"target">>, <<"commit">>>>
  <2>2. Lo(r) \in Table /\ Hi(r) \in Table
    BY <1>5, LoHi DEF MoveOp
  <2>3. <<"table", Lo(r)>> \in Statement /\ <<"table", Hi(r)>> \in Statement
    BY <2>2 DEF Statement
  <2>4. <<"source">> \in Statement /\ <<"target">> \in Statement /\ <<"commit">> \in Statement
    BY DEF Statement
  <2>5. /\ t \in Seq(Statement) /\ Len(t) = 3
        /\ t[1] = <<"source">> /\ t[2] = <<"target">> /\ t[3] = <<"commit">>
    BY <2>4
  <2>6. PICK z : z = Steps(r)
    OBVIOUS
  <2>a. PICK x : x = LockTwo(r)
    OBVIOUS
  <2>b. /\ x \in Seq(Statement) /\ Len(x) = 2
        /\ x[1] = <<"table", Lo(r)>> /\ x[2] = <<"table", Hi(r)>>
    BY <2>3, <2>a DEF LockTwo
  <2>7. z = x \o t
    BY <2>1, <2>6, <2>a
  <2> HIDE DEF t
  <2>c. t \in Seq(Statement) /\ x \in Seq(Statement) /\ Len(x) = 2
    BY <2>5, <2>b
  <2>d. /\ x \o t \in Seq(Statement) /\ Len(x \o t) = Len(t) + 2
        /\ (x \o t)[1] = x[1] /\ (x \o t)[2] = x[2]
        /\ \A i \in 1..Len(t) : (x \o t)[i + 2] = t[i]
    BY ONLY <2>c, AfterTwo
  <2>8. /\ z \in Seq(Statement) /\ Len(z) = Len(t) + 2
        /\ z[1] = x[1] /\ z[2] = x[2]
        /\ \A i \in 1..Len(t) : z[i + 2] = t[i]
    BY ONLY <2>7, <2>d
  <2>9. z[3] = t[1] /\ z[4] = t[2] /\ z[5] = t[3]
    <3>1. z[1 + 2] = t[1] /\ z[2 + 2] = t[2] /\ z[3 + 2] = t[3]
      BY <2>5, <2>8
    <3> QED
      BY <3>1
  <2> QED
    BY <1>5, <2>5, <2>6, <2>8, <2>9, <2>b DEF Planned, OrderOp, MoveOp
<1>6. CASE r.op = "update_table"
  <2>1. Steps(r) = <<<<"table", r.table>>, <<"commit">>>>
    BY <1>6 DEF Steps, OrderOp
  <2>2. <<"table", r.table>> \in Statement /\ <<"commit">> \in Statement
    BY <1>1, <1>6 DEF WellFormed, Statement
  <2> QED
    BY <1>6, <2>1, <2>2 DEF Planned, OrderOp, MoveOp
<1>7. CASE r.op = "open_table"
  <2>1. Steps(r) = <<<<"read">>, <<"slot", r.table>>, <<"table", r.table>>, <<"commit">>>>
    BY <1>7 DEF Steps, OrderOp
  <2>2. /\ <<"table", r.table>> \in Statement /\ <<"commit">> \in Statement
        /\ <<"slot", r.table>> \in Statement /\ <<"read">> \in Statement
    BY <1>1, <1>7 DEF WellFormed, Statement
  <2> QED
    BY <1>7, <2>1, <2>2 DEF Planned, OrderOp, MoveOp
<1>8. CASE r.op = "create_zone"
  <2>1. Steps(r) = <<<<"commit">>>> /\ <<"commit">> \in Statement
    BY <1>8 DEF Steps, OrderOp, Statement
  <2> QED
    BY <1>8, <2>1 DEF Planned, OrderOp, MoveOp
<1>9. CASE r.op \in {"update_zone", "create_table"}
  <2>1. /\ Steps(r) = <<<<"read">>, <<"commit">>>>
        /\ <<"commit">> \in Statement /\ <<"read">> \in Statement
    BY <1>9 DEF Steps, OrderOp, Statement
  <2> QED
    BY <1>9, <2>1 DEF Planned, OrderOp, MoveOp
<1> QED
  BY <1>2, <1>3, <1>4, <1>5, <1>6, <1>7, <1>8, <1>9 DEF MoveOp, SetupOp

-----------------------------------------------------------------------------
(* The inductive invariant. *)

OrderRow == [status : {"none", "draft", "paid", "voided"}, table : Table \union {None},
             bill : BOOLEAN, guests : Nat, why : {None, "void", "move"}]
LineRow  == [order : Order \union {None}, qty : Nat]

SaleTypes ==
  /\ orders \in [Order -> OrderRow]
  /\ \A o \in Order : orders[o].status = "none" <=> orders[o].table = None
  /\ \A o \in Order : orders[o].status = "voided" <=> orders[o].why # None
  /\ lines \in [Line -> LineRow]
  /\ ordered \in Nat

WorkTypes ==
  /\ scene \subseteq Request /\ req \in [Worker -> Request \union {None}]
  /\ todo \in [Worker -> Seq(Statement)]
  /\ held \in [Worker -> SUBSET Statement]
  /\ src \in [Worker -> Order \union {None}] /\ dst \in [Worker -> Order \union {None}]
  /\ seen \in [Worker -> SUBSET Line]

Locks == {"table", "order", "slot"}

\* The statement a worker is at is the k-th of its request.
Doing(w, r, k) ==
  /\ Len(todo[w]) = Len(Steps(r)) - k + 1
  /\ \A i \in 1..Len(todo[w]) : todo[w][i] = Steps(r)[k + i - 1]

\* It holds what the statements before it locked: the rows they name, and the
\* drafts of its two tables.
Took(w, r, k) ==
  /\ \A i \in 1..k - 1 : Steps(r)[i][1] \in Locks => Steps(r)[i] \in held[w]
  /\ \A row \in held[w] :
       \/ \E i \in 1..k - 1 : row = Steps(r)[i]
       \/ /\ r.op \in MoveOp /\ k >= 4
          /\ \E o \in Order : /\ row = <<"order", o>> /\ orders[o].status = "draft"
                              /\ orders[o].table \in {r.table, r.target}

\* What those statements checked is still true.
Found(w, r, k) ==
  /\ r.op \in OrderOp /\ k = 2 => OrderCheck(r)
  /\ r.op \in MoveOp /\ k >= 4 =>
       r.table # r.target /\ src[w] \in Drafts(r.table) /\ <<"order", src[w]>> \in held[w]
  /\ r.op \in MoveOp /\ k >= 5 => seen[w] = LinesOf(src[w])
  /\ r.op = "merge_tables" /\ k >= 5 =>
       dst[w] \in Drafts(r.target) /\ <<"order", dst[w]>> \in held[w]
  /\ r.op = "split_table" /\ k >= 5 => SplitCheck(r, src[w])
  /\ \A t \in Table : <<"slot", t>> \in held[w] => Drafts(t) = {}

OnItsWay(w) ==
  IF req[w] = None THEN held[w] = {} /\ todo[w] = <<>>
  ELSE \E k \in 1..Len(Steps(req[w])) :
         Doing(w, req[w], k) /\ Took(w, req[w], k) /\ Found(w, req[w], k)

RowsExclusive == \A w, v \in Worker : w # v => held[w] \intersect held[v] = {}

OneDraft == \A t \in Table : \A o, p \in Drafts(t) : o = p

Working ==
  /\ SaleTypes /\ WorkTypes /\ (\A w \in Worker : OnItsWay(w)) /\ RowsExclusive /\ OneDraft

LEMMA FiniteLines == IsFiniteSet(Line) /\ \A S \in SUBSET Line : IsFiniteSet(S)
<1>1. IsFiniteSet(Line)
  BY FS_Interval, RoomAssumption DEF Line
<1> QED
  BY <1>1, FS_Subset

LEMMA FiniteOrders == IsFiniteSet(Order) /\ \A S \in SUBSET Order : IsFiniteSet(S)
<1>1. IsFiniteSet(Order)
  BY FS_Interval, RoomAssumption DEF Order
<1> QED
  BY <1>1, FS_Subset

LEMMA NewRow == NoOrder \in OrderRow /\ NoLine \in LineRow
BY DEF NoOrder, NoLine, OrderRow, LineRow

LEMMA WorkingInit == Init => Working
<1> SUFFICES ASSUME Init PROVE Working
  OBVIOUS
<1>1. /\ orders = [o \in Order |-> NoOrder] /\ lines = [l \in Line |-> NoLine] /\ ordered = 0
      /\ scene \in Scene
      /\ req = [w \in Worker |-> None] /\ todo = [w \in Worker |-> <<>>]
      /\ held = [w \in Worker |-> {}] /\ src = [w \in Worker |-> None]
      /\ dst = [w \in Worker |-> None] /\ seen = [w \in Worker |-> {}]
  BY DEF Init
<1>2. SaleTypes
  <2>1. \A o \in Order : orders[o].status = "none" /\ orders[o].table = None /\ orders[o].why = None
    BY <1>1 DEF NoOrder
  <2> QED
    BY <1>1, <2>1, NewRow DEF SaleTypes
<1>3. WorkTypes
  BY <1>1 DEF WorkTypes, Request
<1>4. OneDraft
  <2>1. \A o \in Order : orders[o].status # "draft"
    BY <1>1 DEF NoOrder
  <2> QED
    BY <2>1 DEF OneDraft, Drafts
<1> QED
  BY <1>1, <1>2, <1>3, <1>4 DEF Working, OnItsWay, RowsExclusive

-----------------------------------------------------------------------------
(* What a step leaves to the other workers. *)

\* Their orders, the lines of these, and the tables they hold the slot of.
Untouched(v) ==
  /\ req'[v] = req[v] /\ todo'[v] = todo[v] /\ held'[v] = held[v]
  /\ src'[v] = src[v] /\ dst'[v] = dst[v] /\ seen'[v] = seen[v]
  /\ \A o \in Order : <<"order", o>> \in held[v] =>
       /\ orders'[o] = orders[o]
       /\ \A l \in Line : lines[l].order = o \/ lines'[l].order = o => lines'[l] = lines[l]
  /\ \A t \in Table : <<"slot", t>> \in held[v] => Drafts(t)' = {}

LEMMA OthersStay ==
  ASSUME SaleTypes, SaleTypes', NEW v \in Worker, req[v] \in Request \union {None},
         OnItsWay(v), Untouched(v)
  PROVE  OnItsWay(v)'
<1>0. /\ req'[v] = req[v] /\ todo'[v] = todo[v] /\ held'[v] = held[v]
      /\ src'[v] = src[v] /\ dst'[v] = dst[v] /\ seen'[v] = seen[v]
  BY DEF Untouched
<1>1. CASE req[v] = None
  BY <1>0, <1>1 DEF OnItsWay
<1>2. CASE req[v] # None
  <2>1. PICK r \in Request : r = req[v] /\ r # None
    BY <1>2
  <2>2. PICK D : D = Steps(r)
    OBVIOUS
  <2>3. Planned(r, D) /\ WellFormed(r)
    BY <2>1, <2>2, Plans, RequestAssumption
  <2>4. PICK k \in 1..Len(D) : Doing(v, r, k) /\ Took(v, r, k) /\ Found(v, r, k)
    BY <1>2, <2>1, <2>2 DEF OnItsWay
  <2>5. Doing(v, r, k)'
    BY <1>0, <2>4 DEF Doing
  <2>6. Took(v, r, k)'
    <3>1. ASSUME NEW o \in Order, <<"order", o>> \in held[v] PROVE orders'[o] = orders[o]
      BY <3>1 DEF Untouched
    <3> QED
      BY <1>0, <2>4, <3>1 DEF Took
  <2>7. ASSUME NEW o \in Order, <<"order", o>> \in held[v]
        PROVE  /\ orders'[o] = orders[o] /\ LinesOf(o)' = LinesOf(o)
               /\ \A l \in LinesOf(o) : lines'[l] = lines[l]
    <3>1. /\ orders'[o] = orders[o]
          /\ \A l \in Line : lines[l].order = o \/ lines'[l].order = o => lines'[l] = lines[l]
      BY <2>7 DEF Untouched
    <3> QED
      BY <3>1 DEF LinesOf
  <2>8. ASSUME r.op \in OrderOp, k = 2 PROVE OrderCheck(r)'
    <3>1. D[1] = <<"order", r.order>> /\ r.order \in Order
      BY <2>3, <2>8 DEF Planned, WellFormed
    <3>2. <<"order", r.order>> \in held[v]
      BY <2>2, <2>4, <2>8, <3>1 DEF Took, Locks
    <3>3. orders'[r.order] = orders[r.order] /\ LinesOf(r.order)' = LinesOf(r.order)
      BY <2>7, <3>1, <3>2
    <3>4. OrderCheck(r)
      BY <2>4, <2>8 DEF Found
    <3> QED
      BY <3>3, <3>4 DEF OrderCheck
  <2>9. ASSUME NEW o \in Order, <<"order", o>> \in held[v], NEW t, o \in Drafts(t)
        PROVE  o \in Drafts(t)'
    BY <2>7, <2>9 DEF Drafts
  <2>10. ASSUME r.op \in MoveOp, k >= 4
         PROVE  src[v] \in Drafts(r.table) /\ src[v] \in Order /\ <<"order", src[v]>> \in held[v]
                /\ r.table # r.target
    BY <2>4, <2>10 DEF Found, Drafts
  <2>11. ASSUME r.op = "split_table", k >= 5 PROVE SplitCheck(r, src[v])'
    <3>1. SplitCheck(r, src[v])
      BY <2>4, <2>11 DEF Found
    <3>2. PICK o \in Order : o = src[v] /\ <<"order", o>> \in held[v]
      BY <2>10, <2>11 DEF MoveOp
    <3>3. LinesOf(o)' = LinesOf(o) /\ \A l \in LinesOf(o) : lines'[l] = lines[l]
      BY <2>7, <3>2
    <3>4. Units(o)' = Units(o)
      <4> DEFINE f == [l \in Line |-> lines[l].qty]
                 g == [l \in Line |-> lines'[l].qty]
      <4>1. PICK S \in SUBSET Line : S = LinesOf(o)
        BY DEF LinesOf
      <4>2. IsFiniteSet(S) /\ \A l \in S : f[l] = g[l]
        BY <3>3, <4>1, FiniteLines
      <4> HIDE DEF f, g
      <4>3. SumFunctionOnSet(f, S) = SumFunctionOnSet(g, S)
        BY ONLY <4>2, SumSame
      <4> QED
        BY <3>3, <4>1, <4>3 DEF Units, f, g
    <3>5. \A l \in DOMAIN r.parts : l \in Line
      BY <2>3, <2>11 DEF WellFormed
    <3>6. \A l \in DOMAIN r.parts : lines[l].order = o /\ r.parts[l] <= lines[l].qty
      BY <3>1, <3>2 DEF SplitCheck
    <3>7. \A l \in DOMAIN r.parts : lines'[l] = lines[l]
      BY <3>3, <3>5, <3>6 DEF LinesOf
    <3> QED
      BY <1>0, <3>1, <3>2, <3>4, <3>6, <3>7 DEF SplitCheck
  <2>12. ASSUME r.op \in MoveOp, k >= 5 PROVE (seen[v] = LinesOf(src[v]))'
    <3>1. PICK o \in Order : o = src[v] /\ <<"order", o>> \in held[v]
      BY <2>10, <2>12
    <3>2. LinesOf(o)' = LinesOf(o) /\ seen[v] = LinesOf(o)
      BY <2>4, <2>7, <2>12, <3>1 DEF Found
    <3>3. seen'[v] = LinesOf(o)' /\ src'[v] = o
      BY <1>0, <3>1, <3>2
    <3> QED
      BY <3>3 DEF LinesOf
  <2>13. ASSUME r.op = "merge_tables", k >= 5
         PROVE  dst[v] \in Drafts(r.target)' /\ <<"order", dst[v]>> \in held[v]
    <3>1. dst[v] \in Drafts(r.target) /\ <<"order", dst[v]>> \in held[v] /\ dst[v] \in Order
      BY <2>4, <2>13 DEF Found, Drafts
    <3> QED
      BY <2>9, <3>1
  <2>14. ASSUME r.op \in MoveOp, k >= 4 PROVE src[v] \in Drafts(r.table)'
    BY <2>9, <2>10, <2>14
  <2>15. \A t \in Table : <<"slot", t>> \in held[v] => Drafts(t)' = {}
    BY DEF Untouched
  <2>16. Found(v, r, k)'
    <3>1. r.op \in OrderOp /\ k = 2 => OrderCheck(r)'
      BY <2>8
    <3>2. r.op \in MoveOp /\ k >= 4 =>
            r.table # r.target /\ src'[v] \in Drafts(r.table)' /\ <<"order", src'[v]>> \in held'[v]
      BY <1>0, <2>10, <2>14
    <3>3. r.op \in MoveOp /\ k >= 5 => (seen[v] = LinesOf(src[v]))'
      BY <2>12
    <3>4. r.op = "merge_tables" /\ k >= 5 =>
            dst'[v] \in Drafts(r.target)' /\ <<"order", dst'[v]>> \in held'[v]
      BY <1>0, <2>13
    <3>5. r.op = "split_table" /\ k >= 5 => SplitCheck(r, src[v])'
      BY <2>11
    <3> QED
      BY <1>0, <2>15, <3>1, <3>2, <3>3, <3>4, <3>5 DEF Found
  <2>17. Doing(v, req[v], k)' /\ Took(v, req[v], k)' /\ Found(v, req[v], k)' /\ req'[v] # None
    BY <1>0, <2>1, <2>5, <2>6, <2>16
  <2>18. k \in 1..Len(Steps(req[v]))'
    BY <1>0, <2>1, <2>2
  <2> QED
    BY <2>17, <2>18 DEF OnItsWay
<1> QED
  BY <1>1, <1>2

-----------------------------------------------------------------------------
(* A request begins, runs a statement, ends without a trace. *)

\* The sale is as it was, and one worker moved.
LEMMA OnlyOneMoved ==
  ASSUME Working, NEW w \in Worker,
         UNCHANGED <<orders, lines, ordered>>,
         WorkTypes', OnItsWay(w)',
         \A v \in Worker \ {w} :
           /\ req'[v] = req[v] /\ todo'[v] = todo[v] /\ held'[v] = held[v]
           /\ src'[v] = src[v] /\ dst'[v] = dst[v] /\ seen'[v] = seen[v],
         \A v \in Worker \ {w} : held'[w] \intersect held[v] = {}
  PROVE  Working'
<1>1. SaleTypes' /\ OneDraft'
  BY DEF Working, SaleTypes, OneDraft, Drafts
<1>2. ASSUME NEW v \in Worker \ {w} PROVE OnItsWay(v)'
  <2>1. OnItsWay(v) /\ req[v] \in Request \union {None} /\ SaleTypes /\ WorkTypes
    BY DEF Working, WorkTypes
  <2>2. ASSUME NEW t \in Table, <<"slot", t>> \in held[v] PROVE Drafts(t)' = {}
    <3>1. held[v] # {}
      BY <2>2
    <3>2. Drafts(t) = {}
      BY <2>1, <2>2, <3>1 DEF OnItsWay, Found
    <3> QED
      BY <3>2 DEF Drafts
  <2>3. Untouched(v)
    BY <2>2 DEF Untouched
  <2> QED
    BY <1>1, <2>1, <2>3, OthersStay
<1>3. RowsExclusive'
  <2> SUFFICES ASSUME NEW u \in Worker, NEW v \in Worker, u # v
               PROVE  held'[u] \intersect held'[v] = {}
    BY DEF RowsExclusive
  <2>1. u # w /\ v # w => held[u] \intersect held[v] = {}
    BY DEF Working, RowsExclusive
  <2> QED
    BY <2>1
<1> QED
  BY <1>1, <1>2, <1>3 DEF Working

LEMMA BeginStep ==
  ASSUME Working, NEW w \in Worker, NEW r \in Request, Begin(w, r)
  PROVE  Working'
<1>1. WorkTypes /\ OnItsWay(w) /\ RowsExclusive
  BY DEF Working
<1>2. /\ req[w] = None /\ r \in scene /\ req' = [req EXCEPT ![w] = r]
      /\ todo' = [todo EXCEPT ![w] = Steps(r)]
      /\ UNCHANGED <<scene, held, src, dst, seen, orders, lines, ordered>>
  BY DEF Begin, saleVars
<1>3. Planned(r, Steps(r)) /\ r # None
  BY Plans, RequestAssumption
<1>4. WorkTypes'
  BY <1>1, <1>2, <1>3 DEF WorkTypes, Planned
<1>5. held'[w] = {} /\ req'[w] = r /\ todo'[w] = Steps(r)
  BY <1>1, <1>2 DEF OnItsWay, WorkTypes
<1>6. OnItsWay(w)'
  <2>1. Doing(w, r, 1)'
    BY <1>3, <1>5 DEF Doing, Planned
  <2>2. Took(w, r, 1)'
    BY <1>5 DEF Took
  <2>3. Found(w, r, 1)'
    BY <1>5 DEF Found
  <2>4. 1 \in 1..Len(Steps(r))
    BY <1>3 DEF Planned
  <2>5. 1 \in 1..Len(Steps(req[w]))' /\ Doing(w, req[w], 1)' /\ Took(w, req[w], 1)'
        /\ Found(w, req[w], 1)'
    BY <1>5, <2>1, <2>2, <2>3, <2>4
  <2> QED
    BY <1>3, <1>5, <2>5 DEF OnItsWay
<1>7. \A v \in Worker \ {w} :
        /\ req'[v] = req[v] /\ todo'[v] = todo[v] /\ held'[v] = held[v]
        /\ src'[v] = src[v] /\ dst'[v] = dst[v] /\ seen'[v] = seen[v]
  BY <1>1, <1>2 DEF WorkTypes
<1> QED
  BY <1>2, <1>4, <1>5, <1>6, <1>7, OnlyOneMoved

LEMMA LeaveShape ==
  ASSUME WorkTypes, NEW w \in Worker, Leave(w)
  PROVE  /\ WorkTypes' /\ OnItsWay(w)' /\ held'[w] = {}
         /\ \A v \in Worker \ {w} :
              /\ req'[v] = req[v] /\ todo'[v] = todo[v] /\ held'[v] = held[v]
              /\ src'[v] = src[v] /\ dst'[v] = dst[v] /\ seen'[v] = seen[v]
<1>1. /\ req' = [req EXCEPT ![w] = None] /\ todo' = [todo EXCEPT ![w] = <<>>]
      /\ held' = [held EXCEPT ![w] = {}] /\ src' = [src EXCEPT ![w] = None]
      /\ dst' = [dst EXCEPT ![w] = None] /\ seen' = [seen EXCEPT ![w] = {}] /\ scene' = scene
  BY DEF Leave
<1>2. WorkTypes'
  BY <1>1 DEF WorkTypes
<1>3. req'[w] = None /\ held'[w] = {} /\ todo'[w] = <<>>
  BY <1>1 DEF WorkTypes
<1> QED
  BY <1>1, <1>2, <1>3 DEF WorkTypes, OnItsWay

LEMMA GoneStep ==
  ASSUME Working, NEW w \in Worker, Refuse(w) \/ Abort(w)
  PROVE  Working'
<1>1. Leave(w) /\ UNCHANGED <<orders, lines, ordered>>
  BY DEF Refuse, Abort, saleVars
<1>2. WorkTypes
  BY DEF Working
<1> QED
  BY <1>1, <1>2, LeaveShape, OnlyOneMoved

\* Where a worker is, and what is next.
LEMMA NextStatement ==
  ASSUME Working, NEW w \in Worker, NEW r, r = req[w], r # None
  PROVE  /\ r \in Request /\ WellFormed(r) /\ Planned(r, Steps(r))
         /\ \E k \in 1..Len(Steps(r)) :
              /\ Doing(w, r, k) /\ Took(w, r, k) /\ Found(w, r, k)
              /\ Head(todo[w]) = Steps(r)[k] /\ todo[w] # <<>>
              /\ Len(Tail(todo[w])) = Len(Steps(r)) - k
              /\ \A i \in 1..Len(Tail(todo[w])) : Tail(todo[w])[i] = Steps(r)[k + i]
<1>1. WorkTypes /\ OnItsWay(w)
  BY DEF Working
<1>2. r \in Request /\ WellFormed(r) /\ Planned(r, Steps(r))
  BY <1>1, Plans, RequestAssumption DEF WorkTypes
<1>3. PICK k \in 1..Len(Steps(r)) : Doing(w, r, k) /\ Took(w, r, k) /\ Found(w, r, k)
  BY <1>1 DEF OnItsWay
<1>4. PICK D : D = Steps(r)
  OBVIOUS
<1>5. PICK td : td = todo[w]
  OBVIOUS
<1>6. td \in Seq(Statement) /\ Len(td) = Len(D) - k + 1 /\ Len(D) \in Nat /\ k \in 1..Len(D)
      /\ \A i \in 1..Len(td) : td[i] = D[k + i - 1]
  BY <1>1, <1>2, <1>3, <1>4, <1>5 DEF WorkTypes, Doing, Planned
<1>7. Len(td) \in Nat \ {0} /\ td # <<>>
  BY <1>6
<1>8. Head(td) = D[k]
  <2>1. Head(td) = td[1] /\ 1 \in 1..Len(td) /\ k + 1 - 1 = k
    BY <1>6, <1>7
  <2> QED
    BY <1>6, <2>1
<1>9. Len(Tail(td)) = Len(D) - k /\ \A i \in 1..Len(Tail(td)) : Tail(td)[i] = td[i + 1]
  BY <1>6, <1>7
<1>10. ASSUME NEW i \in 1..Len(Tail(td)) PROVE Tail(td)[i] = D[k + i]
  <2>1. i + 1 \in 1..Len(td) /\ k + (i + 1) - 1 = k + i
    BY <1>6, <1>9
  <2> QED
    BY <1>6, <1>9, <2>1
<1> QED
  BY <1>2, <1>3, <1>4, <1>5, <1>7, <1>8, <1>9, <1>10


\* Which statement is where.
Placed(r, s, k, n) ==
  /\ s[1] \in {"read", "source", "target", "commit", "table", "slot", "order"}
  /\ s[1] = "commit" <=> k = n
  /\ s[1] = "source" => r.op \in MoveOp /\ k = 3
  /\ s[1] = "target" => r.op \in MoveOp /\ k = 4
  /\ s[1] = "order" => r.op \in OrderOp /\ k = 1 /\ s = <<"order", r.order>>
  /\ s[1] = "slot" =>
       \/ r.op = "open_table" /\ k = 2 /\ s = <<"slot", r.table>>
       \/ r.op \in {"transfer_table", "split_table"} /\ k = 5 /\ s = <<"slot", r.target>>
  /\ s[1] = "table" =>
       \/ r.op \in {"open_table", "update_table"} /\ s = <<"table", r.table>>
       \/ r.op \in MoveOp /\ k = 1 /\ s = <<"table", Lo(r)>>
       \/ r.op \in MoveOp /\ k = 2 /\ s = <<"table", Hi(r)>>

LEMMA Places ==
  ASSUME NEW r \in Request, NEW k \in 1..Len(Steps(r))
  PROVE  Placed(r, Steps(r)[k], k, Len(Steps(r)))
<1>1. PICK D : D = Steps(r)
  OBVIOUS
<1>2. Planned(r, D) /\ WellFormed(r)
  BY <1>1, Plans, RequestAssumption
<1>3. /\ D \in Seq(Statement) /\ Len(D) \in 1..6 /\ D[Len(D)] = <<"commit">>
      /\ k \in 1..Len(D)
  BY <1>1, <1>2 DEF Planned
<1>4. PICK s : s = D[k]
  OBVIOUS
<1>5. PICK n \in 1..6 : n = Len(D)
  BY <1>3
<1>6. r.op \in OrderOp \union MoveOp \union SetupOp \union {"open_table"}
  BY <1>2 DEF WellFormed
<1>c. CASE k = n
  <2>1. s = <<"commit">> /\ s[1] = "commit"
    BY <1>3, <1>4, <1>5, <1>c
  <2> QED
    BY <1>1, <1>4, <1>5, <1>c, <2>1 DEF Placed
<1>7. CASE k # n /\ r.op \in OrderOp
  <2>1. k = 1 /\ s = <<"order", r.order>> /\ s[1] = "order"
    BY <1>2, <1>3, <1>4, <1>5, <1>7 DEF Planned
  <2> QED
    BY <1>1, <1>4, <1>5, <1>7, <2>1 DEF Placed
<1>8. CASE k # n /\ r.op \in {"transfer_table", "split_table"}
  <2>0. r.op \in MoveOp /\ n = 6 /\ k \in 1..5
    BY <1>2, <1>3, <1>5, <1>8 DEF Planned, MoveOp
  <2>1. /\ D[1] = <<"table", Lo(r)>> /\ D[2] = <<"table", Hi(r)>>
        /\ D[3] = <<"source">> /\ D[4] = <<"target">> /\ D[5] = <<"slot", r.target>>
    BY <1>2, <1>8, <2>0 DEF Planned
  <2>2. CASE k = 1
    BY <1>1, <1>4, <1>5, <1>8, <2>0, <2>1, <2>2 DEF Placed
  <2>3. CASE k = 2
    BY <1>1, <1>4, <1>5, <1>8, <2>0, <2>1, <2>3 DEF Placed
  <2>4. CASE k = 3
    BY <1>1, <1>4, <1>5, <1>8, <2>0, <2>1, <2>4 DEF Placed
  <2>5. CASE k = 4
    BY <1>1, <1>4, <1>5, <1>8, <2>0, <2>1, <2>5 DEF Placed
  <2>6. CASE k = 5
    BY <1>1, <1>4, <1>5, <1>8, <2>0, <2>1, <2>6 DEF Placed
  <2> QED
    BY <2>0, <2>2, <2>3, <2>4, <2>5, <2>6
<1>9. CASE k # n /\ r.op = "merge_tables"
  <2>0. r.op \in MoveOp /\ n = 5 /\ k \in 1..4
    BY <1>2, <1>3, <1>5, <1>9 DEF Planned, MoveOp
  <2>1. /\ D[1] = <<"table", Lo(r)>> /\ D[2] = <<"table", Hi(r)>>
        /\ D[3] = <<"source">> /\ D[4] = <<"target">>
    BY <1>2, <1>9, <2>0 DEF Planned
  <2>2. CASE k = 1
    BY <1>1, <1>4, <1>5, <1>9, <2>0, <2>1, <2>2 DEF Placed
  <2>3. CASE k = 2
    BY <1>1, <1>4, <1>5, <1>9, <2>0, <2>1, <2>3 DEF Placed
  <2>4. CASE k = 3
    BY <1>1, <1>4, <1>5, <1>9, <2>0, <2>1, <2>4 DEF Placed
  <2>5. CASE k = 4
    BY <1>1, <1>4, <1>5, <1>9, <2>0, <2>1, <2>5 DEF Placed
  <2> QED
    BY <2>0, <2>2, <2>3, <2>4, <2>5
<1>10. CASE k # n /\ r.op = "open_table"
  <2>1. /\ n = 4 /\ k \in 1..3 /\ D[1] = <<"read">> /\ D[2] = <<"slot", r.table>>
        /\ D[3] = <<"table", r.table>>
    BY <1>2, <1>3, <1>5, <1>10 DEF Planned
  <2>2. CASE k = 1
    BY <1>1, <1>4, <1>5, <1>10, <2>1, <2>2 DEF Placed
  <2>3. CASE k = 2
    BY <1>1, <1>4, <1>5, <1>10, <2>1, <2>3 DEF Placed
  <2>4. CASE k = 3
    BY <1>1, <1>4, <1>5, <1>10, <2>1, <2>4 DEF Placed
  <2> QED
    BY <2>1, <2>2, <2>3, <2>4
<1>11. CASE k # n /\ r.op = "update_table"
  <2>1. k = 1 /\ s = <<"table", r.table>> /\ s[1] = "table"
    BY <1>2, <1>3, <1>4, <1>5, <1>11 DEF Planned
  <2> QED
    BY <1>1, <1>4, <1>5, <1>11, <2>1 DEF Placed
<1>12. CASE k # n /\ r.op \in {"create_zone", "update_zone", "create_table"}
  <2>1. k = 1 /\ s = <<"read">> /\ s[1] = "read"
    BY <1>2, <1>3, <1>4, <1>5, <1>12 DEF Planned
  <2> QED
    BY <1>1, <1>4, <1>5, <1>12, <2>1 DEF Placed
<1> QED
  BY <1>6, <1>c, <1>7, <1>8, <1>9, <1>10, <1>11, <1>12 DEF MoveOp, SetupOp

LEMMA OneOf == ASSUME NEW S, S # {} PROVE Only(S) \in S
BY DEF Only

LEMMA AdvanceStep ==
  ASSUME Working, NEW w \in Worker, Advance(w)
  PROVE  Working'
<1>1. SaleTypes /\ WorkTypes /\ RowsExclusive
  BY DEF Working
<1>2. PICK r : r = req[w]
  OBVIOUS
<1>3. PICK D : D = Steps(r)
  OBVIOUS
<1>4. r # None
  BY <1>2 DEF Advance
<1>5. r \in Request /\ WellFormed(r) /\ Planned(r, D)
  BY <1>2, <1>3, <1>4, NextStatement
<1>6. PICK k \in 1..Len(D) :
        /\ Doing(w, r, k) /\ Took(w, r, k) /\ Found(w, r, k)
        /\ Head(todo[w]) = D[k] /\ todo[w] # <<>>
        /\ Len(Tail(todo[w])) = Len(D) - k
        /\ \A i \in 1..Len(Tail(todo[w])) : Tail(todo[w])[i] = D[k + i]
  BY <1>2, <1>3, <1>4, NextStatement
<1>7. PICK s : s = D[k]
  OBVIOUS
<1>8. Placed(r, s, k, Len(D)) /\ Len(D) \in 1..6 /\ s \in Statement
  BY <1>3, <1>5, <1>6, <1>7, Places DEF Planned
<1>9. /\ s[1] # "commit" /\ Granted(w) /\ Check(w)
      /\ todo' = [todo EXCEPT ![w] = Tail(@)]
      /\ held' = [held EXCEPT ![w] = @ \union Rows(w)]
      /\ src'  = [src EXCEPT ![w] = IF s[1] = "source" THEN Only(Drafts(r.table)) ELSE @]
      /\ dst'  = [dst EXCEPT ![w] = IF s[1] = "target" THEN Only(Drafts(r.target)) ELSE @]
      /\ seen' = [seen EXCEPT ![w] = IF s[1] = "target" THEN LinesOf(src[w]) ELSE @]
      /\ UNCHANGED <<scene, req, orders, lines, ordered>>
  BY <1>2, <1>6, <1>7 DEF Advance, saleVars
<1>10. k + 1 \in 1..Len(D) /\ k < Len(D)
  BY <1>6, <1>8, <1>9 DEF Placed
<1>11. /\ todo'[w] = Tail(todo[w]) /\ held'[w] = held[w] \union Rows(w) /\ req'[w] = r
       /\ src'[w] = IF s[1] = "source" THEN Only(Drafts(r.table)) ELSE src[w]
       /\ dst'[w] = IF s[1] = "target" THEN Only(Drafts(r.target)) ELSE dst[w]
       /\ seen'[w] = IF s[1] = "target" THEN LinesOf(src[w]) ELSE seen[w]
  BY <1>1, <1>2, <1>9 DEF WorkTypes
<1>12. /\ s[1] \in {"table", "order", "slot"} => Rows(w) = {s}
       /\ s[1] = "source" => Rows(w) = {<<"order", o>> : o \in Drafts(r.table)}
       /\ s[1] = "target" => Rows(w) = {<<"order", o>> : o \in Drafts(r.target)}
       /\ s[1] \notin {"table", "order", "slot", "source", "target"} => Rows(w) = {}
  BY <1>2, <1>6, <1>7 DEF Rows
<1>13. /\ s[1] = "order"  => OrderCheck(r)
       /\ s[1] = "source" => ValidateMoveTarget(r) /\ Drafts(r.table) # {}
       /\ s[1] = "target" => TargetCheck(w)
       /\ s[1] = "slot"   => Drafts(s[2]) = {}
  BY <1>2, <1>6, <1>7, <1>9 DEF Check
<1>14. /\ \A t : Drafts(t)' = Drafts(t) /\ Drafts(t) \subseteq Order
       /\ \A o : LinesOf(o)' = LinesOf(o) /\ LinesOf(o) \subseteq Line
  BY <1>9 DEF Drafts, LinesOf
<1>15. Rows(w) \subseteq Statement
  <2>1. \A o \in Order : <<"order", o>> \in Statement
    BY DEF Statement
  <2>2. \A t : {<<"order", o>> : o \in Drafts(t)} \subseteq Statement
    BY <1>14, <2>1
  <2> QED
    BY <1>8, <1>12, <2>2
<1>16. WorkTypes'
  <2>1. Tail(todo[w]) \in Seq(Statement)
    BY <1>1, <1>6 DEF WorkTypes
  <2>2. src'[w] \in Order \union {None} /\ dst'[w] \in Order \union {None}
    BY <1>1, <1>11, <1>14 DEF WorkTypes, Only
  <2>3. seen'[w] \in SUBSET Line
    BY <1>1, <1>11, <1>14 DEF WorkTypes
  <2>4. scene' \subseteq Request /\ req' \in [Worker -> Request \union {None}]
    BY <1>1, <1>9 DEF WorkTypes
  <2>5. todo' \in [Worker -> Seq(Statement)]
    BY <1>1, <1>9, <2>1 DEF WorkTypes
  <2>6. held' \in [Worker -> SUBSET Statement]
    BY <1>1, <1>9, <1>15 DEF WorkTypes
  <2>7. src' \in [Worker -> Order \union {None}] /\ dst' \in [Worker -> Order \union {None}]
    BY <1>1, <1>9, <1>11, <2>2 DEF WorkTypes
  <2>8. seen' \in [Worker -> SUBSET Line]
    BY <1>1, <1>9, <1>11, <2>3 DEF WorkTypes
  <2> QED
    BY <2>4, <2>5, <2>6, <2>7, <2>8 DEF WorkTypes
<1>17. Doing(w, r, k + 1)'
  <2>1. Len(Tail(todo[w])) = Len(D) - (k + 1) + 1
    BY <1>6, <1>8
  <2>2. ASSUME NEW i \in 1..Len(Tail(todo[w])) PROVE Tail(todo[w])[i] = D[(k + 1) + i - 1]
    <3>1. (k + 1) + i - 1 = k + i
      OBVIOUS
    <3> QED
      BY <1>6, <3>1
  <2> QED
    BY <1>3, <1>11, <2>1, <2>2 DEF Doing
<1>18. Took(w, r, k + 1)'
  <2>1. ASSUME NEW i \in 1..(k + 1) - 1, D[i][1] \in Locks PROVE D[i] \in held'[w]
    <3>1. CASE i = k
      BY <1>7, <1>11, <1>12, <2>1, <3>1 DEF Locks
    <3>2. CASE i # k
      <4>1. i \in 1..k - 1
        BY <3>2
      <4> QED
        BY <1>3, <1>6, <1>11, <2>1, <4>1 DEF Took
    <3> QED
      BY <3>1, <3>2
  <2>2. ASSUME NEW row \in held'[w]
        PROVE  \/ \E i \in 1..(k + 1) - 1 : row = D[i]
               \/ /\ r.op \in MoveOp /\ k + 1 >= 4
                  /\ \E o \in Order : /\ row = <<"order", o>> /\ orders'[o].status = "draft"
                                      /\ orders'[o].table \in {r.table, r.target}
    <3>1. CASE row \in held[w]
      <4>1. \/ \E i \in 1..k - 1 : row = D[i]
            \/ /\ r.op \in MoveOp /\ k >= 4
               /\ \E o \in Order : /\ row = <<"order", o>> /\ orders[o].status = "draft"
                                   /\ orders[o].table \in {r.table, r.target}
        BY <1>3, <1>6, <3>1 DEF Took
      <4>2. 1..k - 1 \subseteq 1..(k + 1) - 1
        OBVIOUS
      <4> QED
        BY <1>9, <4>1, <4>2
    <3>2. CASE row \in Rows(w)
      <4>1. CASE s[1] \in {"table", "order", "slot"}
        <5>1. row = D[k] /\ k \in 1..(k + 1) - 1
          BY <1>7, <1>12, <3>2, <4>1
        <5> QED
          BY <5>1
      <4>2. CASE s[1] = "source"
        <5>1. PICK o \in Drafts(r.table) : row = <<"order", o>>
          BY <1>12, <3>2, <4>2
        <5>2. o \in Order /\ orders[o].status = "draft" /\ orders[o].table = r.table
          BY DEF Drafts
        <5> QED
          BY <1>8, <1>9, <4>2, <5>1, <5>2 DEF Placed
      <4>3. CASE s[1] = "target"
        <5>1. PICK o \in Drafts(r.target) : row = <<"order", o>>
          BY <1>12, <3>2, <4>3
        <5>2. o \in Order /\ orders[o].status = "draft" /\ orders[o].table = r.target
          BY DEF Drafts
        <5> QED
          BY <1>8, <1>9, <4>3, <5>1, <5>2 DEF Placed
      <4> QED
        BY <1>12, <3>2, <4>1, <4>2, <4>3
    <3> QED
      BY <1>11, <2>2, <3>1, <3>2
  <2> QED
    BY <1>3, <2>1, <2>2 DEF Took
<1>19. Found(w, r, k + 1)'
  <2>1. r.op \in OrderOp /\ k + 1 = 2 => OrderCheck(r)'
    <3>1. r.op \in OrderOp /\ k = 1 => s = <<"order", r.order>>
      BY <1>5, <1>7 DEF Planned
    <3>2. r.op \in OrderOp /\ k = 1 => OrderCheck(r)
      BY <1>13, <3>1
    <3> QED
      BY <1>9, <1>14, <3>2 DEF OrderCheck
  <2>2. r.op \in MoveOp => D[3] = <<"source">> /\ D[4] = <<"target">> /\ (k > 4 => s[1] \notin {"source", "target"})
    BY <1>5, <1>8 DEF Planned, Placed
  <2>3. ASSUME r.op \in MoveOp, k + 1 >= 4
        PROVE  r.table # r.target /\ src'[w] \in Drafts(r.table) /\ <<"order", src'[w]>> \in held'[w]
    <3>1. CASE k = 3
      <4>1. s[1] = "source"
        BY <1>7, <2>2, <2>3, <3>1
      <4>2. src'[w] \in Drafts(r.table)
        BY <1>11, <1>13, <4>1, OneOf
      <4>3. <<"order", src'[w]>> \in Rows(w)
        BY <1>12, <4>1, <4>2
      <4> QED
        BY <1>11, <1>13, <4>1, <4>2, <4>3 DEF ValidateMoveTarget
    <3>2. CASE k >= 4
      <4>1. s[1] # "source"
        BY <1>8, <3>2 DEF Placed
      <4>2. r.table # r.target /\ src[w] \in Drafts(r.table) /\ <<"order", src[w]>> \in held[w]
        BY <1>6, <2>3, <3>2 DEF Found
      <4> QED
        BY <1>11, <4>1, <4>2
    <3> QED
      BY <2>3, <3>1, <3>2
  <2>4. ASSUME r.op \in MoveOp, k + 1 >= 5
        PROVE  /\ seen'[w] = LinesOf(src'[w])
               /\ r.op = "split_table" => SplitCheck(r, src'[w])
               /\ r.op = "merge_tables" =>
                    dst'[w] \in Drafts(r.target) /\ <<"order", dst'[w]>> \in held'[w]
    <3>0. s[1] # "source" /\ src'[w] = src[w]
      BY <1>8, <1>11, <2>4 DEF Placed
    <3>1. CASE k = 4
      <4>1. s[1] = "target"
        BY <1>7, <2>2, <2>4, <3>1
      <4>2. seen'[w] = LinesOf(src[w])
        BY <1>11, <4>1
      <4>3. TargetCheck(w)
        BY <1>13, <4>1
      <4>4. r.op = "split_table" => SplitCheck(r, src[w])
        BY <1>2, <4>3 DEF TargetCheck
      <4>5. r.op = "merge_tables" => Drafts(r.target) # {}
        BY <1>2, <4>3 DEF TargetCheck
      <4>6. r.op = "merge_tables" => dst'[w] \in Drafts(r.target)
        BY <1>11, <4>1, <4>5, OneOf
      <4>7. r.op = "merge_tables" => <<"order", dst'[w]>> \in held'[w]
        BY <1>11, <1>12, <4>1, <4>6
      <4> QED
        BY <3>0, <4>2, <4>4, <4>6, <4>7
    <3>2. CASE k >= 5
      <4>1. s[1] # "target" /\ dst'[w] = dst[w] /\ seen'[w] = seen[w]
        BY <1>8, <1>11, <3>2 DEF Placed
      <4>2. /\ seen[w] = LinesOf(src[w])
            /\ r.op = "split_table" => SplitCheck(r, src[w])
            /\ r.op = "merge_tables" => dst[w] \in Drafts(r.target) /\ <<"order", dst[w]>> \in held[w]
        BY <1>6, <2>4, <3>2 DEF Found
      <4> QED
        BY <1>11, <3>0, <4>1, <4>2
    <3> QED
      BY <2>4, <3>1, <3>2
  <2>5. ASSUME NEW t \in Table, <<"slot", t>> \in held'[w] PROVE Drafts(t) = {}
    <3>1. CASE <<"slot", t>> \in held[w]
      BY <1>6, <3>1 DEF Found
    <3>2. CASE <<"slot", t>> \in Rows(w)
      <4>1. s[1] \notin {"source", "target"}
        BY <1>12, <3>2
      <4>2. s = <<"slot", t>>
        BY <1>12, <3>2, <4>1
      <4>3. s[1] = "slot" /\ s[2] = t
        BY <4>2
      <4> QED
        BY <1>13, <4>3
    <3> QED
      BY <1>11, <2>5, <3>1, <3>2
  <2>6. ASSUME NEW o, SplitCheck(r, o) PROVE SplitCheck(r, o)'
    BY <1>9, <2>6 DEF SplitCheck, Units, LinesOf
  <2>7. r.op \in MoveOp /\ k + 1 >= 4 =>
          r.table # r.target /\ src'[w] \in Drafts(r.table)' /\ <<"order", src'[w]>> \in held'[w]
    BY <1>14, <2>3
  <2>8. r.op \in MoveOp /\ k + 1 >= 5 => (seen[w] = LinesOf(src[w]))'
    <3>1. PICK o : o = src'[w]
      OBVIOUS
    <3>2. r.op \in MoveOp /\ k + 1 >= 5 => seen'[w] = LinesOf(o)
      BY <2>4, <3>1
    <3> QED
      BY <1>9, <3>1, <3>2 DEF LinesOf
  <2>9. r.op = "merge_tables" /\ k + 1 >= 5 =>
          dst'[w] \in Drafts(r.target)' /\ <<"order", dst'[w]>> \in held'[w]
    BY <1>14, <2>4 DEF MoveOp
  <2>10. r.op = "split_table" /\ k + 1 >= 5 => SplitCheck(r, src[w])'
    <3>1. PICK o : o = src'[w]
      OBVIOUS
    <3>2. r.op = "split_table" /\ k + 1 >= 5 => SplitCheck(r, o)'
      BY <2>4, <2>6, <3>1 DEF MoveOp
    <3> QED
      BY <1>9, <3>1, <3>2 DEF SplitCheck, Units, LinesOf
  <2> QED
    BY <1>14, <2>1, <2>5, <2>7, <2>8, <2>9, <2>10 DEF Found
<1>20. OnItsWay(w)'
  <2>1. k + 1 \in 1..Len(Steps(req[w]))' /\ Doing(w, req[w], k + 1)' /\ Took(w, req[w], k + 1)'
        /\ Found(w, req[w], k + 1)'
    BY <1>3, <1>10, <1>11, <1>17, <1>18, <1>19
  <2> QED
    BY <1>4, <1>11, <2>1 DEF OnItsWay
<1>21. \A v \in Worker \ {w} :
        /\ req'[v] = req[v] /\ todo'[v] = todo[v] /\ held'[v] = held[v]
        /\ src'[v] = src[v] /\ dst'[v] = dst[v] /\ seen'[v] = seen[v]
  BY <1>1, <1>9 DEF WorkTypes
<1>22. \A v \in Worker \ {w} : held'[w] \intersect held[v] = {}
  BY <1>1, <1>9, <1>11 DEF RowsExclusive, Granted, Free
<1> QED
  BY <1>9, <1>16, <1>20, <1>21, <1>22, OnlyOneMoved

-----------------------------------------------------------------------------
(* A request commits. *)

\* What it holds and has found by then.
LEMMA AtCommit ==
  ASSUME Working, NEW w \in Worker, NEW r, r = req[w], At(w, "commit")
  PROVE  /\ r \in Request /\ WellFormed(r) /\ Planned(r, Steps(r)) /\ r # None
         /\ Took(w, r, Len(Steps(r))) /\ Found(w, r, Len(Steps(r)))
<1>1. r # None /\ Head(todo[w])[1] = "commit"
  BY DEF At
<1>2. PICK D : D = Steps(r)
  OBVIOUS
<1>3. r \in Request /\ WellFormed(r) /\ Planned(r, D)
  BY <1>1, <1>2, NextStatement
<1>4. PICK k \in 1..Len(D) : Took(w, r, k) /\ Found(w, r, k) /\ Head(todo[w]) = D[k]
  BY <1>1, <1>2, NextStatement
<1>5. Placed(r, D[k], k, Len(D))
  BY <1>2, <1>3, <1>4, Places
<1>6. k = Len(D)
  BY <1>1, <1>4, <1>5 DEF Placed
<1> QED
  BY <1>1, <1>2, <1>3, <1>4, <1>6

LEMMA HoldsOrder ==
  ASSUME Working, NEW w \in Worker, NEW r, r = req[w], At(w, "commit"), r.op \in OrderOp
  PROVE  r.order \in Order /\ <<"order", r.order>> \in held[w] /\ OrderCheck(r)
<1>1. /\ WellFormed(r) /\ Planned(r, Steps(r))
      /\ Took(w, r, Len(Steps(r))) /\ Found(w, r, Len(Steps(r)))
  BY AtCommit
<1>2. Len(Steps(r)) = 2 /\ Steps(r)[1] = <<"order", r.order>>
  BY <1>1 DEF Planned
<1>3. OrderCheck(r)
  BY <1>1, <1>2 DEF Found
<1>4. Steps(r)[1][1] \in Locks => Steps(r)[1] \in held[w]
  BY <1>1, <1>2 DEF Took
<1> QED
  BY <1>1, <1>2, <1>3, <1>4 DEF WellFormed, Locks

LEMMA HoldsDrafts ==
  ASSUME Working, NEW w \in Worker, NEW r, r = req[w], At(w, "commit"), r.op \in MoveOp
  PROVE  /\ r.table \in Table /\ r.target \in Table /\ r.table # r.target
         /\ src[w] \in Drafts(r.table) /\ <<"order", src[w]>> \in held[w]
         /\ seen[w] = LinesOf(src[w])
         /\ r.op = "merge_tables" => dst[w] \in Drafts(r.target) /\ <<"order", dst[w]>> \in held[w]
         /\ r.op = "split_table" => SplitCheck(r, src[w])
         /\ r.op \in {"transfer_table", "split_table"} =>
              <<"slot", r.target>> \in held[w] /\ Drafts(r.target) = {}
<1>1. /\ WellFormed(r) /\ Planned(r, Steps(r))
      /\ Took(w, r, Len(Steps(r))) /\ Found(w, r, Len(Steps(r)))
  BY AtCommit
<1>2. Len(Steps(r)) >= 4 /\ Len(Steps(r)) >= 5
  BY <1>1 DEF Planned, MoveOp
<1>3. /\ r.table # r.target /\ src[w] \in Drafts(r.table) /\ <<"order", src[w]>> \in held[w]
      /\ seen[w] = LinesOf(src[w])
      /\ r.op = "merge_tables" => dst[w] \in Drafts(r.target) /\ <<"order", dst[w]>> \in held[w]
      /\ r.op = "split_table" => SplitCheck(r, src[w])
  BY <1>1, <1>2 DEF Found
<1>4. r.table \in Table /\ r.target \in Table
  BY <1>1 DEF WellFormed
<1>5. ASSUME r.op \in {"transfer_table", "split_table"}
      PROVE  <<"slot", r.target>> \in held[w] /\ Drafts(r.target) = {}
  <2>1. Len(Steps(r)) = 6 /\ Steps(r)[5] = <<"slot", r.target>>
    BY <1>1, <1>5 DEF Planned
  <2>2. Steps(r)[5][1] \in Locks => Steps(r)[5] \in held[w]
    BY <1>1, <2>1 DEF Took
  <2>3. <<"slot", r.target>> \in held[w]
    BY <2>1, <2>2 DEF Locks
  <2> QED
    BY <1>1, <1>4, <2>3 DEF Found
<1> QED
  BY <1>3, <1>4, <1>5

LEMMA HoldsSlot ==
  ASSUME Working, NEW w \in Worker, NEW r, r = req[w], At(w, "commit"), r.op = "open_table"
  PROVE  r.table \in Table /\ <<"slot", r.table>> \in held[w] /\ Drafts(r.table) = {}
<1>1. /\ WellFormed(r) /\ Planned(r, Steps(r))
      /\ Took(w, r, Len(Steps(r))) /\ Found(w, r, Len(Steps(r)))
  BY AtCommit
<1>2. Len(Steps(r)) = 4 /\ Steps(r)[2] = <<"slot", r.table>>
  BY <1>1 DEF Planned
<1>3. Steps(r)[2][1] \in Locks => Steps(r)[2] \in held[w]
  BY <1>1, <1>2 DEF Took
<1>4. <<"slot", r.table>> \in held[w] /\ r.table \in Table
  BY <1>1, <1>2, <1>3 DEF Locks, WellFormed
<1> QED
  BY <1>1, <1>4 DEF Found

LEMMA HeldIsThere ==
  ASSUME Working, NEW v \in Worker, NEW o \in Order, <<"order", o>> \in held[v]
  PROVE  orders[o].status # "none"
<1>1. OnItsWay(v)
  BY DEF Working
<1>2. PICK r : r = req[v]
  OBVIOUS
<1>3. r # None
  BY <1>1, <1>2 DEF OnItsWay
<1>4. r \in Request /\ Planned(r, Steps(r))
  BY <1>2, <1>3, NextStatement
<1>5. PICK k \in 1..Len(Steps(r)) : Took(v, r, k) /\ Found(v, r, k)
  BY <1>2, <1>3, NextStatement
<1>6. CASE \E i \in 1..k - 1 : <<"order", o>> = Steps(r)[i]
  <2>1. PICK i \in 1..k - 1 : <<"order", o>> = Steps(r)[i]
    BY <1>6
  <2>2. i \in 1..Len(Steps(r))
    BY <1>4, <1>5 DEF Planned
  <2>3. Placed(r, Steps(r)[i], i, Len(Steps(r))) /\ Steps(r)[i][1] = "order"
    BY <1>4, <2>1, <2>2, Places
  <2>4. r.op \in OrderOp /\ <<"order", o>> = <<"order", r.order>>
    BY <2>1, <2>3 DEF Placed
  <2>5. o = r.order
    BY <2>4
  <2>6. k = 2
    BY <1>4, <1>5, <2>1, <2>4 DEF Planned
  <2>7. OrderCheck(r)
    BY <1>5, <2>4, <2>6 DEF Found
  <2> QED
    BY <2>5, <2>7 DEF OrderCheck
<1>7. CASE \E p \in Order : <<"order", o>> = <<"order", p>> /\ orders[p].status = "draft"
  BY <1>7
<1> QED
  BY <1>5, <1>6, <1>7 DEF Took

\* What a commit may change: the order rows it holds, and lines that no order
\* had and none gets but a draft it holds.
Loose(w, o) ==
  \/ o = None
  \/ o \in Order /\ orders[o].status = "none"
  \/ o \in Order /\ orders[o].status = "draft" /\ <<"order", o>> \in held[w]

OrdersKept(w) ==
  \A o \in Order : \/ orders'[o] = orders[o] \/ orders[o].status = "none"
                   \/ <<"order", o>> \in held[w]
LinesKept(w) ==
  \A l \in Line : \/ lines'[l] = lines[l]
                  \/ Loose(w, lines[l].order) /\ Loose(w, lines'[l].order)
DraftsKept(w) ==
  \A t \in Table : \/ Drafts(t)' \subseteq Drafts(t)
                   \/ <<"slot", t>> \in held[w] /\ \E n : Drafts(t)' \subseteq {n}

Effect(w) == SaleTypes' /\ OrdersKept(w) /\ LinesKept(w) /\ DraftsKept(w)

LEMMA EffectKeeps ==
  ASSUME Working, NEW w \in Worker, Leave(w), Effect(w)
  PROVE  Working'
<1>1. SaleTypes /\ WorkTypes /\ RowsExclusive /\ OneDraft /\ \A v \in Worker : OnItsWay(v)
  BY DEF Working
<1>2. /\ WorkTypes' /\ OnItsWay(w)' /\ held'[w] = {}
      /\ \A v \in Worker \ {w} :
           /\ req'[v] = req[v] /\ todo'[v] = todo[v] /\ held'[v] = held[v]
           /\ src'[v] = src[v] /\ dst'[v] = dst[v] /\ seen'[v] = seen[v]
  BY <1>1, LeaveShape
<1>3. OneDraft'
  BY <1>1 DEF OneDraft, Effect, DraftsKept
<1>4. RowsExclusive'
  <2> SUFFICES ASSUME NEW u \in Worker, NEW v \in Worker, u # v
               PROVE  held'[u] \intersect held'[v] = {}
    BY DEF RowsExclusive
  <2>1. u # w /\ v # w => held[u] \intersect held[v] = {}
    BY <1>1 DEF RowsExclusive
  <2> QED
    BY <1>2, <2>1
<1>5. ASSUME NEW v \in Worker \ {w} PROVE OnItsWay(v)'
  <2>1. held[w] \intersect held[v] = {}
    BY <1>1 DEF RowsExclusive
  <2>2. ASSUME NEW o \in Order, <<"order", o>> \in held[v]
        PROVE  /\ orders'[o] = orders[o] /\ ~Loose(w, o)
    <3>1. orders[o].status # "none" /\ <<"order", o>> \notin held[w] /\ o # None
      BY <2>1, <2>2, HeldIsThere, RoomAssumption
    <3> QED
      BY <3>1 DEF Effect, OrdersKept, Loose
  <2>3. ASSUME NEW o \in Order, <<"order", o>> \in held[v], NEW l \in Line,
               lines[l].order = o \/ lines'[l].order = o
        PROVE  lines'[l] = lines[l]
    BY <2>2, <2>3 DEF Effect, LinesKept
  <2>4. ASSUME NEW t \in Table, <<"slot", t>> \in held[v] PROVE Drafts(t)' = {}
    <3>1. held[v] # {} /\ <<"slot", t>> \notin held[w]
      BY <2>1, <2>4
    <3>2. Drafts(t) = {}
      BY <1>1, <2>4, <3>1 DEF OnItsWay, Found
    <3>3. Drafts(t)' \subseteq Drafts(t)
      BY <3>1 DEF Effect, DraftsKept
    <3> QED
      BY <3>2, <3>3
  <2>5. Untouched(v)
    BY <1>2, <2>2, <2>3, <2>4 DEF Untouched
  <2>6. req[v] \in Request \union {None} /\ SaleTypes'
    BY <1>1 DEF WorkTypes, Effect
  <2> QED
    BY <1>1, <2>5, <2>6, OthersStay
<1> QED
  BY <1>2, <1>3, <1>4, <1>5 DEF Working, Effect

LEMMA OneOrderTyped ==
  ASSUME SaleTypes, NEW o \in Order, NEW x \in OrderRow, orders' = [orders EXCEPT ![o] = x],
         x.status = "none" <=> x.table = None, x.status = "voided" <=> x.why # None,
         lines' \in [Line -> LineRow], ordered' \in Nat
  PROVE  SaleTypes'
<1>1. orders \in [Order -> OrderRow]
  BY DEF SaleTypes
<1>2. orders' \in [Order -> OrderRow]
  BY <1>1
<1>3. \A p \in Order : orders'[p] = IF p = o THEN x ELSE orders[p]
  BY <1>1
<1> QED
  BY <1>2, <1>3 DEF SaleTypes

\* An order of its own is all that changed, and it is no more a draft than
\* it was.
LEMMA OwnOrderEffect ==
  ASSUME Working, NEW w \in Worker, NEW o \in Order, <<"order", o>> \in held[w],
         NEW x \in OrderRow, orders' = [orders EXCEPT ![o] = x],
         x.status = "none" <=> x.table = None, x.status = "voided" <=> x.why # None,
         x.status = "draft" => orders[o].status = "draft" /\ x.table = orders[o].table,
         LinesKept(w), lines' \in [Line -> LineRow], ordered' \in Nat
  PROVE  Effect(w)
<1>1. SaleTypes /\ orders \in [Order -> OrderRow]
  BY DEF Working, SaleTypes
<1>2. SaleTypes'
  BY <1>1, OneOrderTyped
<1>3. \A p \in Order : orders'[p] = IF p = o THEN x ELSE orders[p]
  BY <1>1
<1>4. \A t : Drafts(t)' \subseteq Drafts(t)
  BY <1>3 DEF Drafts
<1> QED
  BY <1>2, <1>3, <1>4 DEF Effect, OrdersKept, DraftsKept

LEMMA SameLines == ASSUME Working, NEW w \in Worker, lines' = lines
                   PROVE  LinesKept(w) /\ lines' \in [Line -> LineRow]
BY DEF Working, SaleTypes, LinesKept

LEMMA RoomEffect ==
  ASSUME Working, NEW w \in Worker,
         CreateZone(w) \/ UpdateZone(w) \/ CreateTable(w) \/ UpdateTable(w)
  PROVE  Effect(w)
<1>1. UNCHANGED saleVars
  BY DEF CreateZone, UpdateZone, CreateTable, UpdateTable
<1>2. UNCHANGED <<orders, lines, ordered>>
  BY <1>1 DEF saleVars
<1> QED
  BY <1>2 DEF Working, SaleTypes, Effect, OrdersKept, LinesKept, DraftsKept, Drafts

\* The first row id that is free.
LEMMA FirstFree ==
  /\ FreshOrders # {} => Min(FreshOrders) \in FreshOrders
  /\ FreshLines # {} => Min(FreshLines) \in FreshLines
<1>1. FreshOrders \subseteq Nat /\ FreshLines \subseteq Nat
  BY RoomAssumption DEF FreshOrders, FreshLines, Order, Line
<1> QED
  BY <1>1, MinIsLeast

LEMMA NewOrderRow ==
  ASSUME NEW t \in Table, NEW n \in Nat, NEW o
  PROVE  NewOrder(o, t, n) \in OrderRow
         /\ NewOrder(o, t, n).status = "draft" /\ NewOrder(o, t, n).table = t
         /\ NewOrder(o, t, n).why = None
BY DEF NewOrder, NoOrder, OrderRow

LEMMA OpenTableEffect ==
  ASSUME Working, NEW w \in Worker, OpenTable(w)
  PROVE  Effect(w)
<1>1. PICK r : r = req[w]
  OBVIOUS
<1>2. At(w, "commit") /\ r.op = "open_table" /\ Check(w)
  BY <1>1 DEF OpenTable, Committing
<1>3. r.table \in Table /\ <<"slot", r.table>> \in held[w] /\ Drafts(r.table) = {}
  BY <1>1, <1>2, HoldsSlot
<1>4. r \in Request /\ WellFormed(r)
  BY <1>1, <1>2, AtCommit
<1>5. r.guests \in Nat
  BY <1>2, <1>4 DEF WellFormed
<1>6. CommitCheck(r)
  BY <1>1, <1>2 DEF Check, At
<1>7. PICK n : n = Min(FreshOrders)
  OBVIOUS
<1>8. n \in Order /\ orders[n].status = "none"
  BY <1>2, <1>6, <1>7, FirstFree DEF CommitCheck, FreshOrders
<1>9. PICK x : x = NewOrder(orders[n], r.table, r.guests)
  OBVIOUS
<1>10. x \in OrderRow /\ x.status = "draft" /\ x.table = r.table /\ x.why = None
  BY <1>3, <1>5, <1>9, NewOrderRow
<1>11. orders' = [orders EXCEPT ![n] = x] /\ UNCHANGED <<lines, ordered>>
  BY <1>1, <1>7, <1>9 DEF OpenTable
<1>12. SaleTypes /\ orders \in [Order -> OrderRow] /\ ordered \in Nat
  BY DEF Working, SaleTypes
<1>13. SaleTypes'
  BY <1>3, <1>8, <1>10, <1>11, <1>12, SameLines, OneOrderTyped, RoomAssumption
<1>14. \A p \in Order : orders'[p] = IF p = n THEN x ELSE orders[p]
  BY <1>11, <1>12
<1>15. OrdersKept(w)
  BY <1>8, <1>14 DEF OrdersKept
<1>16. DraftsKept(w)
  <2>1. ASSUME NEW t \in Table, t # r.table PROVE Drafts(t)' \subseteq Drafts(t)
    BY <1>10, <1>14, <2>1 DEF Drafts
  <2>2. Drafts(r.table)' \subseteq {n}
    BY <1>3, <1>14 DEF Drafts
  <2> QED
    BY <1>3, <2>1, <2>2 DEF DraftsKept
<1> QED
  BY <1>11, <1>13, <1>15, <1>16, SameLines DEF Effect

LEMMA OrderEffect ==
  ASSUME Working, NEW w \in Worker,
         UpdateSession(w) \/ RequestBill(w) \/ CancelBill(w) \/ CloseOrder(w) \/ VoidOrder(w)
  PROVE  Effect(w)
<1>1. PICK r : r = req[w]
  OBVIOUS
<1>2. At(w, "commit") /\ r.op \in {"update_session", "request_bill", "cancel_bill",
                                   "close_order", "void_order"}
  BY <1>1 DEF UpdateSession, RequestBill, CancelBill, CloseOrder, VoidOrder, Committing
<1>3. PICK o : o = r.order
  OBVIOUS
<1>4. o \in Order /\ <<"order", o>> \in held[w] /\ OrderCheck(r)
  BY <1>1, <1>2, <1>3, HoldsOrder DEF OrderOp
<1>5. SaleTypes /\ orders \in [Order -> OrderRow] /\ ordered \in Nat
  BY DEF Working, SaleTypes
<1>6. orders[o] \in OrderRow /\ orders[o].status \in {"draft", "paid"}
  BY <1>3, <1>4, <1>5 DEF OrderCheck
<1>7. /\ orders[o].status = "none" <=> orders[o].table = None
      /\ orders[o].status = "voided" <=> orders[o].why # None
  BY <1>4, <1>5 DEF SaleTypes
<1>8. UNCHANGED <<lines, ordered>>
  BY DEF UpdateSession, RequestBill, CancelBill, CloseOrder, VoidOrder
<1>9. CASE UpdateSession(w)
  <2>1. r.guests \in Nat
    BY <1>1, <1>2, <1>9, AtCommit DEF WellFormed, UpdateSession, Committing
  <2>2. PICK x : x = [orders[o] EXCEPT !.guests = r.guests]
    OBVIOUS
  <2>3. /\ x \in OrderRow /\ x.status = orders[o].status /\ x.table = orders[o].table
        /\ x.why = orders[o].why
    BY <1>6, <2>1, <2>2 DEF OrderRow
  <2>4. orders' = [orders EXCEPT ![o] = x]
    BY <1>1, <1>3, <1>9, <2>2 DEF UpdateSession
  <2> QED
    BY <1>4, <1>5, <1>7, <1>8, <2>3, <2>4, SameLines, OwnOrderEffect
<1>10. CASE RequestBill(w) \/ CancelBill(w)
  <2>1. PICK b \in BOOLEAN : orders' = [orders EXCEPT ![o].bill = b]
    BY <1>1, <1>3, <1>10 DEF RequestBill, CancelBill
  <2>2. PICK x : x = [orders[o] EXCEPT !.bill = b]
    OBVIOUS
  <2>3. /\ x \in OrderRow /\ x.status = orders[o].status /\ x.table = orders[o].table
        /\ x.why = orders[o].why
    BY <1>6, <2>2 DEF OrderRow
  <2>4. orders' = [orders EXCEPT ![o] = x]
    BY <2>1, <2>2
  <2> QED
    BY <1>4, <1>5, <1>7, <1>8, <2>3, <2>4, SameLines, OwnOrderEffect
<1>11. CASE CloseOrder(w)
  <2>1. PICK x : x = [orders[o] EXCEPT !.status = "paid"]
    OBVIOUS
  <2>2. x \in OrderRow /\ x.status = "paid" /\ x.table = orders[o].table /\ x.why = orders[o].why
    BY <1>6, <2>1 DEF OrderRow
  <2>3. orders' = [orders EXCEPT ![o] = x]
    BY <1>1, <1>3, <1>11, <2>1 DEF CloseOrder
  <2> QED
    BY <1>4, <1>5, <1>6, <1>7, <1>8, <2>2, <2>3, SameLines, OwnOrderEffect
<1>12. CASE VoidOrder(w)
  <2>1. PICK x : x = Voided(o, "void")
    OBVIOUS
  <2>2. x \in OrderRow /\ x.status = "voided" /\ x.table = orders[o].table /\ x.why = "void"
    BY <1>6, <2>1 DEF OrderRow, Voided
  <2>3. orders' = [orders EXCEPT ![o] = x]
    BY <1>1, <1>3, <1>12, <2>1 DEF VoidOrder
  <2> QED
    BY <1>4, <1>5, <1>6, <1>7, <1>8, <2>2, <2>3, SameLines, OwnOrderEffect, RoomAssumption
<1> QED
  BY <1>9, <1>10, <1>11, <1>12

LEMMA AddLineEffect ==
  ASSUME Working, NEW w \in Worker, AddLine(w)
  PROVE  Effect(w)
<1>1. PICK r : r = req[w]
  OBVIOUS
<1>2. At(w, "commit") /\ r.op = "add_line" /\ Check(w)
  BY <1>1 DEF AddLine, Committing
<1>3. r.order \in Order /\ <<"order", r.order>> \in held[w] /\ OrderCheck(r)
  BY <1>1, <1>2, HoldsOrder DEF OrderOp
<1>4. r.qty \in Nat \ {0}
  BY <1>1, <1>2, AtCommit DEF WellFormed
<1>5. CommitCheck(r)
  BY <1>1, <1>2 DEF Check, At
<1>6. PICK n : n = Min(FreshLines)
  OBVIOUS
<1>7. n \in Line /\ lines[n].order = None
  BY <1>2, <1>5, <1>6, FirstFree DEF CommitCheck, FreshLines
<1>8. PICK x : x = [order |-> r.order, qty |-> r.qty]
  OBVIOUS
<1>9. x \in LineRow /\ x.order = r.order
  BY <1>3, <1>4, <1>8 DEF LineRow
<1>10. lines' = [lines EXCEPT ![n] = x] /\ ordered' = ordered + r.qty /\ orders' = orders
  BY <1>1, <1>6, <1>8 DEF AddLine
<1>11. SaleTypes /\ lines \in [Line -> LineRow] /\ ordered \in Nat
  BY DEF Working, SaleTypes
<1>12. SaleTypes'
  <2>1. lines' \in [Line -> LineRow]
    BY <1>9, <1>10, <1>11
  <2>2. ordered' \in Nat
    BY <1>4, <1>10, <1>11
  <2> QED
    BY <1>10, <1>11, <2>1, <2>2 DEF SaleTypes
<1>13. orders[r.order].status = "draft"
  BY <1>2, <1>3 DEF OrderCheck
<1>14. LinesKept(w)
  BY <1>3, <1>7, <1>9, <1>10, <1>11, <1>13 DEF LinesKept, Loose
<1> QED
  BY <1>10, <1>12, <1>14 DEF Effect, OrdersKept, DraftsKept, Drafts

LEMMA TransferEffect ==
  ASSUME Working, NEW w \in Worker, TransferTable(w)
  PROVE  Effect(w)
<1>1. PICK r : r = req[w]
  OBVIOUS
<1>2. At(w, "commit") /\ r.op = "transfer_table"
  BY <1>1 DEF TransferTable, Committing
<1>3. PICK o : o = src[w]
  OBVIOUS
<1>4. /\ r.target \in Table /\ o \in Drafts(r.table) /\ <<"order", o>> \in held[w]
      /\ <<"slot", r.target>> \in held[w] /\ Drafts(r.target) = {}
  BY <1>1, <1>2, <1>3, HoldsDrafts DEF MoveOp
<1>5. o \in Order /\ orders[o].status = "draft"
  BY <1>4 DEF Drafts
<1>6. SaleTypes /\ orders \in [Order -> OrderRow] /\ ordered \in Nat
  BY DEF Working, SaleTypes
<1>7. PICK x : x = [orders[o] EXCEPT !.table = r.target]
  OBVIOUS
<1>8. x \in OrderRow /\ x.status = "draft" /\ x.table = r.target /\ x.why = orders[o].why
  BY <1>4, <1>5, <1>6, <1>7 DEF OrderRow
<1>9. orders' = [orders EXCEPT ![o] = x] /\ UNCHANGED <<lines, ordered>>
  BY <1>1, <1>3, <1>7 DEF TransferTable
<1>10. orders[o].why = None /\ x.table # None
  BY <1>4, <1>5, <1>6, <1>8, RoomAssumption DEF SaleTypes
<1>11. SaleTypes'
  BY <1>5, <1>6, <1>8, <1>9, <1>10, SameLines, OneOrderTyped
<1>12. \A p \in Order : orders'[p] = IF p = o THEN x ELSE orders[p]
  BY <1>6, <1>9
<1>13. DraftsKept(w)
  <2>1. ASSUME NEW t \in Table, t # r.target PROVE Drafts(t)' \subseteq Drafts(t)
    BY <1>8, <1>12, <2>1 DEF Drafts
  <2>2. Drafts(r.target)' \subseteq {o}
    BY <1>4, <1>12 DEF Drafts
  <2> QED
    BY <1>4, <2>1, <2>2 DEF DraftsKept
<1> QED
  BY <1>4, <1>9, <1>11, <1>12, <1>13, SameLines DEF Effect, OrdersKept

LEMMA MergeEffect ==
  ASSUME Working, NEW w \in Worker, MergeTables(w)
  PROVE  Effect(w)
<1>1. PICK r : r = req[w]
  OBVIOUS
<1>2. At(w, "commit") /\ r.op = "merge_tables"
  BY <1>1 DEF MergeTables, Committing
<1>3. PICK from : from = src[w]
  OBVIOUS
<1>4. PICK to : to = dst[w]
  OBVIOUS
<1>5. /\ r.table # r.target /\ seen[w] = LinesOf(from)
      /\ from \in Drafts(r.table) /\ <<"order", from>> \in held[w]
      /\ to \in Drafts(r.target) /\ <<"order", to>> \in held[w]
  BY <1>1, <1>2, <1>3, <1>4, HoldsDrafts DEF MoveOp
<1>6. /\ from \in Order /\ orders[from].status = "draft"
      /\ to \in Order /\ orders[to].status = "draft" /\ from # to
  BY <1>5 DEF Drafts
<1>7. SaleTypes /\ orders \in [Order -> OrderRow] /\ lines \in [Line -> LineRow] /\ ordered \in Nat
  BY DEF Working, SaleTypes
<1>8. PICK x : x = Voided(from, "move")
  OBVIOUS
<1>9. x \in OrderRow /\ x.status = "voided" /\ x.table = orders[from].table /\ x.why = "move"
  BY <1>6, <1>7, <1>8 DEF OrderRow, Voided
<1>10. PICK y : y = [orders[to] EXCEPT !.guests = IF @ = 0 THEN orders[from].guests ELSE @]
  OBVIOUS
<1>11. /\ y \in OrderRow /\ y.status = "draft" /\ y.table = orders[to].table
       /\ y.why = orders[to].why
  BY <1>6, <1>7, <1>10 DEF OrderRow
<1>12. orders' = [orders EXCEPT ![from] = x, ![to] = y] /\ ordered' = ordered
  BY <1>3, <1>4, <1>6, <1>7, <1>8, <1>10 DEF MergeTables
<1>13. \A p \in Order : orders'[p] = IF p = to THEN y ELSE IF p = from THEN x ELSE orders[p]
  BY <1>6, <1>7, <1>12
<1>14. lines' = [l \in Line |-> IF l \in LinesOf(from) THEN [lines[l] EXCEPT !.order = to] ELSE lines[l]]
  BY <1>3, <1>4, <1>5 DEF MergeTables
<1>15. \A l \in Line : lines'[l] = IF lines[l].order = from THEN [lines[l] EXCEPT !.order = to]
                                                         ELSE lines[l]
  BY <1>14 DEF LinesOf
<1>16. \A l \in Line : [lines[l] EXCEPT !.order = to] \in LineRow
                       /\ [lines[l] EXCEPT !.order = to].order = to
  BY <1>6, <1>7 DEF LineRow
<1>17. lines' \in [Line -> LineRow]
  BY <1>7, <1>14, <1>16
<1>18. orders' \in [Order -> OrderRow]
  BY <1>7, <1>9, <1>11, <1>12
<1>19. SaleTypes'
  BY <1>6, <1>7, <1>9, <1>11, <1>12, <1>13, <1>17, <1>18, RoomAssumption DEF SaleTypes
<1>20. OrdersKept(w)
  BY <1>5, <1>13 DEF OrdersKept
<1>21. LinesKept(w)
  BY <1>5, <1>6, <1>15, <1>16 DEF LinesKept, Loose
<1>22. \A t : Drafts(t)' \subseteq Drafts(t)
  BY <1>6, <1>9, <1>11, <1>13 DEF Drafts
<1> QED
  BY <1>19, <1>20, <1>21, <1>22 DEF Effect, DraftsKept

LEMMA RoomFor ==
  ASSUME NEW S, NEW T, IsFiniteSet(S), IsFiniteSet(T), Cardinality(S) <= Cardinality(T)
  PROVE  \E f \in Injection(S, T) : TRUE
<1>1. /\ Cardinality(S) \in Nat /\ ExistsBijection(1..Cardinality(S), S)
      /\ Cardinality(T) \in Nat /\ ExistsBijection(1..Cardinality(T), T)
  BY FS_CardinalityType
<1>2. PICK m \in Nat, n \in Nat : m = Cardinality(S) /\ n = Cardinality(T) /\ m <= n
  BY <1>1
<1>3. PICK a \in Bijection(1..m, S), b \in Bijection(1..n, T) : TRUE
  BY <1>1, <1>2 DEF ExistsBijection
<1>4. /\ a \in [1..m -> S] /\ \A s \in S : \E i \in 1..m : a[i] = s
      /\ b \in [1..n -> T] /\ \A i, j \in 1..n : b[i] = b[j] => i = j
  BY <1>3 DEF Bijection, Injection, Surjection, IsInjective
<1> DEFINE place(s) == CHOOSE i \in 1..m : a[i] = s
           f == [s \in S |-> b[place(s)]]
<1>5. \A s \in S : place(s) \in 1..m /\ a[place(s)] = s
  BY <1>4
<1>6. \A s \in S : place(s) \in 1..n
  BY <1>2, <1>5
<1> HIDE DEF place
<1>7. f \in [S -> T]
  BY <1>4, <1>6
<1>8. \A s, t \in S : f[s] = f[t] => s = t
  BY <1>4, <1>5, <1>6
<1>9. f \in Injection(S, T)
  BY <1>7, <1>8 DEF Injection, IsInjective
<1> QED
  BY <1>9

\* The lines after a split of the order "from" into "new": P stay with what is
\* left of them, and the row of each gets what goes.
Parted(from, new, D, P, parts, row) ==
  \A l \in Line :
    /\ l \in P => lines'[l] = [order |-> from, qty |-> lines[l].qty - parts[l]]
    /\ l \in D \ P => lines'[l] = [order |-> new, qty |-> lines[l].qty]
    /\ \A p \in P : row[p] = l => lines'[l] = [order |-> new, qty |-> parts[p]]
    /\ l \notin D /\ (\A p \in P : row[p] # l) => lines'[l] = lines[l]

LEMMA SplitShape ==
  ASSUME Working, NEW w \in Worker, SplitTable(w),
         NEW r, r = req[w], NEW from, from = src[w], NEW new, new = Min(FreshOrders)
  PROVE  /\ new \in Order /\ orders[new].status = "none" /\ from # new
         /\ from \in Order /\ orders[from].status = "draft"
         /\ \E P \in SUBSET Line, D \in SUBSET Line :
              \E row \in [P -> FreshLines], parts \in [D -> Nat \ {0}] :
                /\ P \subseteq D /\ D \subseteq LinesOf(from)
                /\ \A p, q \in P : row[p] = row[q] => p = q
                /\ \A l \in D : parts[l] <= lines[l].qty
                /\ Parted(from, new, D, P, parts, row)
<1>1. At(w, "commit") /\ r.op = "split_table" /\ Check(w)
  BY DEF SplitTable, Committing
<1>2. /\ from \in Drafts(r.table) /\ SplitCheck(r, from)
  BY <1>1, HoldsDrafts DEF MoveOp
<1>3. from \in Order /\ orders[from].status = "draft"
  BY <1>2 DEF Drafts
<1>4. CommitCheck(r)
  BY <1>1 DEF Check, At
<1>5. new \in Order /\ orders[new].status = "none" /\ from # new
  BY <1>1, <1>3, <1>4, FirstFree DEF CommitCheck, FreshOrders
<1>6. WellFormed(r)
  BY <1>1, AtCommit
<1>7. PICK D \in SUBSET Line : D = DOMAIN r.parts
  BY <1>1, <1>6 DEF WellFormed
<1>8. PICK P \in SUBSET Line : P = Partial(r)
  BY <1>7 DEF Partial
<1>9. P \subseteq D
  BY <1>7, <1>8 DEF Partial
<1>10. \A l \in D : r.parts[l] \in Nat \ {0} /\ lines[l].order = from /\ r.parts[l] <= lines[l].qty
  BY <1>1, <1>2, <1>6, <1>7 DEF WellFormed, SplitCheck
<1>11. D \subseteq LinesOf(from)
  BY <1>10 DEF LinesOf
<1>12. FreshLines \in SUBSET Line /\ Cardinality(P) <= Cardinality(FreshLines)
  BY <1>1, <1>4, <1>8 DEF FreshLines, CommitCheck
<1>13. IsFiniteSet(P) /\ IsFiniteSet(FreshLines)
  BY <1>12, FiniteLines
<1>14. PICK row : row = CHOOSE f \in Injection(P, FreshLines) : TRUE
  OBVIOUS
<1>15. row \in Injection(P, FreshLines)
  <2>1. \E f \in Injection(P, FreshLines) : TRUE
    BY <1>12, <1>13, RoomFor
  <2> QED
    BY <1>14, <2>1
<1>16. row \in [P -> FreshLines] /\ \A p, q \in P : row[p] = row[q] => p = q
  BY <1>15 DEF Injection, IsInjective
<1>17. lines' = SplitLines(r, new)
  BY DEF SplitTable
<1>18. lines' = [l \in Line |->
          IF l \in P THEN [lines[l] EXCEPT !.qty = @ - r.parts[l]]
          ELSE IF l \in D THEN [lines[l] EXCEPT !.order = new]
          ELSE IF \E p \in P : row[p] = l
            THEN [order |-> new, qty |-> r.parts[CHOOSE p \in P : row[p] = l]]
          ELSE lines[l]]
  BY <1>7, <1>8, <1>14, <1>17 DEF SplitLines
<1>19. \A l \in Line : lines[l] \in LineRow
  BY DEF Working, SaleTypes
<1>20. PICK parts \in [D -> Nat \ {0}] : \A l \in D : parts[l] = r.parts[l]
  <2> DEFINE f == [l \in D |-> r.parts[l]]
  <2>1. f \in [D -> Nat \ {0}] /\ \A l \in D : f[l] = r.parts[l]
    BY <1>10
  <2> QED
    BY <2>1
<1>21. Parted(from, new, D, P, parts, row)
  <2> SUFFICES ASSUME NEW l \in Line
      PROVE /\ l \in P => lines'[l] = [order |-> from, qty |-> lines[l].qty - parts[l]]
            /\ l \in D \ P => lines'[l] = [order |-> new, qty |-> lines[l].qty]
            /\ \A p \in P : row[p] = l => lines'[l] = [order |-> new, qty |-> parts[p]]
            /\ l \notin D /\ (\A p \in P : row[p] # l) => lines'[l] = lines[l]
    BY DEF Parted
  <2>1. lines'[l] = IF l \in P THEN [lines[l] EXCEPT !.qty = @ - r.parts[l]]
                    ELSE IF l \in D THEN [lines[l] EXCEPT !.order = new]
                    ELSE IF \E p \in P : row[p] = l
                      THEN [order |-> new, qty |-> r.parts[CHOOSE p \in P : row[p] = l]]
                    ELSE lines[l]
    BY <1>18
  <2>2. PICK o, q : lines[l] = [order |-> o, qty |-> q]
    BY <1>19 DEF LineRow
  <2>3. lines[l].order = o /\ lines[l].qty = q
    BY <2>2
  <2>4. l \in P => o = from /\ parts[l] = r.parts[l]
    BY <1>9, <1>10, <1>20, <2>3
  <2>5. l \in P => lines'[l] = [order |-> from, qty |-> lines[l].qty - parts[l]]
    BY <2>1, <2>2, <2>3, <2>4
  <2>6. l \in D \ P => lines'[l] = [order |-> new, qty |-> lines[l].qty]
    BY <2>1, <2>2, <2>3
  <2>7. ASSUME NEW p \in P, row[p] = l PROVE lines'[l] = [order |-> new, qty |-> parts[p]]
    <3>1. l \in FreshLines
      BY <1>16, <2>7
    <3>2. l \notin D
      BY <1>3, <1>10, <3>1, RoomAssumption DEF FreshLines
    <3>3. (CHOOSE q1 \in P : row[q1] = l) = p
      BY <1>16, <2>7
    <3>4. parts[p] = r.parts[p]
      BY <1>9, <1>20
    <3> QED
      BY <1>9, <2>1, <2>7, <3>2, <3>3, <3>4
  <2>8. l \notin D /\ (\A p \in P : row[p] # l) => lines'[l] = lines[l]
    BY <1>9, <2>1
  <2> QED
    BY <2>5, <2>6, <2>7, <2>8
<1>22. \A l \in D : parts[l] <= lines[l].qty
  BY <1>10, <1>20
<1> QED
  BY <1>3, <1>5, <1>9, <1>11, <1>16, <1>21, <1>22

LEMMA SplitEffect ==
  ASSUME Working, NEW w \in Worker, SplitTable(w)
  PROVE  Effect(w)
<1>1. PICK r : r = req[w]
  OBVIOUS
<1>2. PICK from : from = src[w]
  OBVIOUS
<1>3. PICK new : new = Min(FreshOrders)
  OBVIOUS
<1>4. At(w, "commit") /\ r.op = "split_table"
  BY <1>1 DEF SplitTable, Committing
<1>5. /\ r.target \in Table /\ r.table # r.target /\ from \in Drafts(r.table)
      /\ <<"order", from>> \in held[w]
      /\ <<"slot", r.target>> \in held[w] /\ Drafts(r.target) = {}
  BY <1>1, <1>2, <1>4, HoldsDrafts DEF MoveOp
<1>6. /\ new \in Order /\ orders[new].status = "none" /\ from # new
      /\ from \in Order /\ orders[from].status = "draft"
  BY <1>1, <1>2, <1>3, SplitShape
<1>7. PICK P \in SUBSET Line, D \in SUBSET Line :
        \E row \in [P -> FreshLines], parts \in [D -> Nat \ {0}] :
          /\ P \subseteq D /\ D \subseteq LinesOf(from)
          /\ \A p, q \in P : row[p] = row[q] => p = q
          /\ \A l \in D : parts[l] <= lines[l].qty
          /\ Parted(from, new, D, P, parts, row)
  BY <1>1, <1>2, <1>3, SplitShape
<1>8. PICK row \in [P -> FreshLines], parts \in [D -> Nat \ {0}] :
        /\ P \subseteq D /\ D \subseteq LinesOf(from)
        /\ \A p, q \in P : row[p] = row[q] => p = q
        /\ \A l \in D : parts[l] <= lines[l].qty
        /\ Parted(from, new, D, P, parts, row)
  BY <1>7
<1>9. SaleTypes /\ orders \in [Order -> OrderRow] /\ lines \in [Line -> LineRow] /\ ordered \in Nat
  BY DEF Working, SaleTypes
<1>10. ASSUME NEW l \in Line
       PROVE  /\ lines'[l] \in LineRow
              /\ \/ lines'[l] = lines[l]
                 \/ Loose(w, lines[l].order) /\ Loose(w, lines'[l].order)
  <2>0. lines[l].qty \in Nat
    BY <1>9 DEF LineRow
  <2>1. CASE l \in P
    <3>1. lines[l].order = from
      BY <1>8, <2>1 DEF LinesOf
    <3>2. lines'[l] = [order |-> from, qty |-> lines[l].qty - parts[l]]
      BY <1>8, <2>1 DEF Parted
    <3>3. lines[l].qty - parts[l] \in Nat
      <4>1. parts[l] \in Nat /\ parts[l] <= lines[l].qty
        BY <1>8, <2>1
      <4> QED
        BY <2>0, <4>1
    <3>4. lines'[l] \in LineRow /\ lines'[l].order = from
      BY <1>6, <3>2, <3>3 DEF LineRow
    <3> QED
      BY <1>5, <1>6, <3>1, <3>4 DEF Loose
  <2>2. CASE l \in D \ P
    <3>1. lines[l].order = from
      BY <1>8, <2>2 DEF LinesOf
    <3>2. lines'[l] = [order |-> new, qty |-> lines[l].qty]
      BY <1>8, <2>2 DEF Parted
    <3>3. lines'[l] \in LineRow /\ lines'[l].order = new
      BY <1>6, <2>0, <3>2 DEF LineRow
    <3> QED
      BY <1>5, <1>6, <3>1, <3>3 DEF Loose
  <2>3. ASSUME NEW p \in P, row[p] = l
        PROVE  /\ lines'[l] \in LineRow
               /\ Loose(w, lines[l].order) /\ Loose(w, lines'[l].order)
    <3>1. lines[l].order = None
      BY <1>8, <2>3 DEF FreshLines
    <3>2. lines'[l] = [order |-> new, qty |-> parts[p]]
      BY <1>8, <2>3 DEF Parted
    <3>3. parts[p] \in Nat
      BY <1>8
    <3>4. lines'[l] \in LineRow /\ lines'[l].order = new
      BY <1>6, <3>2, <3>3 DEF LineRow
    <3> QED
      BY <1>6, <3>1, <3>4 DEF Loose
  <2>4. CASE l \notin D /\ \A p \in P : row[p] # l
    BY <1>8, <1>9, <2>4 DEF Parted
  <2> QED
    BY <2>1, <2>2, <2>3, <2>4
<1>11. lines' \in [Line -> LineRow]
  <2>1. lines' = SplitLines(r, new)
    BY <1>1, <1>3 DEF SplitTable
  <2>2. lines' = [l \in Line |-> lines'[l]]
    BY ONLY <2>1 DEF SplitLines
  <2> QED
    BY <1>10, <2>2
<1>12. LinesKept(w)
  BY <1>10 DEF LinesKept
<1>13. PICK x : x = NewOrder(orders[new], r.target, 0)
  OBVIOUS
<1>14. x \in OrderRow /\ x.status = "draft" /\ x.table = r.target /\ x.why = None
  BY <1>5, <1>13, NewOrderRow
<1>15. PICK y : y = IF \E l \in Line : lines'[l].order = from THEN orders[from]
                                                            ELSE Voided(from, "move")
  OBVIOUS
<1>16. /\ y \in OrderRow /\ y.table = orders[from].table
       /\ y.status \in {"draft", "voided"}
       /\ y.status = "voided" <=> y.why # None
  <2>1. orders[from] \in OrderRow /\ orders[from].why = None
    BY <1>6, <1>9 DEF SaleTypes
  <2>2. /\ Voided(from, "move") \in OrderRow /\ Voided(from, "move").table = orders[from].table
        /\ Voided(from, "move").status = "voided" /\ Voided(from, "move").why = "move"
    BY <2>1 DEF Voided, OrderRow
  <2> QED
    BY <1>6, <1>15, <2>1, <2>2, RoomAssumption
<1>17. orders' = [orders EXCEPT ![new] = x, ![from] = y] /\ ordered' = ordered
  BY <1>1, <1>2, <1>3, <1>6, <1>9, <1>13, <1>15 DEF SplitTable
<1>18. \A p \in Order : orders'[p] = IF p = from THEN y ELSE IF p = new THEN x ELSE orders[p]
  BY <1>6, <1>9, <1>17
<1>19. orders' \in [Order -> OrderRow]
  BY <1>9, <1>14, <1>16, <1>17
<1>20. SaleTypes'
  <2>1. x.status # "none" /\ x.table # None /\ x.status # "voided"
    BY <1>5, <1>14, RoomAssumption
  <2>2. y.status # "none" /\ y.table # None
    BY <1>6, <1>9, <1>16 DEF SaleTypes
  <2>3. \A p \in Order : /\ orders'[p].status = "none" <=> orders'[p].table = None
                         /\ orders'[p].status = "voided" <=> orders'[p].why # None
    BY <1>9, <1>14, <1>16, <1>18, <2>1, <2>2 DEF SaleTypes
  <2> QED
    BY <1>9, <1>11, <1>17, <1>19, <2>3 DEF SaleTypes
<1>21. OrdersKept(w)
  BY <1>5, <1>6, <1>18 DEF OrdersKept
<1>22. DraftsKept(w)
  <2>1. ASSUME NEW t \in Table, t # r.target PROVE Drafts(t)' \subseteq Drafts(t)
    BY <1>6, <1>14, <1>16, <1>18, <2>1 DEF Drafts
  <2>2. Drafts(r.target)' \subseteq {new}
    <3>1. \A p \in Order \ {new, from} : p \notin Drafts(r.target)'
      BY <1>5, <1>18 DEF Drafts
    <3>2. from \notin Drafts(r.target)'
      BY <1>5, <1>6, <1>16, <1>18 DEF Drafts
    <3> QED
      BY <3>1, <3>2 DEF Drafts
  <2> QED
    BY <1>5, <2>1, <2>2 DEF DraftsKept
<1> QED
  BY <1>12, <1>20, <1>21, <1>22 DEF Effect

LEMMA CommitEffect ==
  ASSUME Working, NEW w \in Worker, Commit(w)
  PROVE  Leave(w) /\ Effect(w)
<1>1. Leave(w)
  BY DEF Commit, CreateZone, UpdateZone, CreateTable, UpdateTable, OpenTable, UpdateSession,
         RequestBill, CancelBill, AddLine, CloseOrder, VoidOrder, TransferTable, MergeTables,
         SplitTable, Committing
<1>2. Effect(w)
  BY RoomEffect, OpenTableEffect, OrderEffect, AddLineEffect, TransferEffect, MergeEffect,
     SplitEffect DEF Commit
<1> QED
  BY <1>1, <1>2

LEMMA WorkingStep ==
  ASSUME Working, [Next]_vars
  PROVE  Working'
<1>1. CASE Next
  <2>1. PICK w \in Worker : \/ \E r \in Request : Begin(w, r)
                            \/ Advance(w) \/ Refuse(w) \/ Abort(w) \/ Commit(w)
    BY <1>1 DEF Next
  <2> QED
    BY <2>1, BeginStep, AdvanceStep, GoneStep, CommitEffect, EffectKeeps
<1>2. CASE UNCHANGED vars
  <2>1. UNCHANGED <<orders, lines, ordered, scene, req, todo, held, src, dst, seen>>
    BY <1>2 DEF vars, saleVars, workVars
  <2>2. SaleTypes' /\ WorkTypes' /\ RowsExclusive' /\ OneDraft'
    BY <2>1 DEF Working, SaleTypes, WorkTypes, RowsExclusive, OneDraft, Drafts
  <2>3. ASSUME NEW v \in Worker PROVE OnItsWay(v)'
    <3>1. OnItsWay(v) /\ req[v] \in Request \union {None} /\ SaleTypes
      BY DEF Working, WorkTypes
    <3>2. \A t \in Table : <<"slot", t>> \in held[v] => Drafts(t) = {}
      BY <3>1 DEF OnItsWay, Found
    <3>3. Untouched(v)
      BY <2>1, <3>2 DEF Untouched, Drafts
    <3> QED
      BY <2>2, <3>1, <3>3, OthersStay
  <2> QED
    BY <2>2, <2>3 DEF Working
<1> QED
  BY <1>1, <1>2

\* In every state the transactions under way hold and have found what the
\* code counts on: the base of the theorems below.
THEOREM WorkingHolds == Spec => []Working
<1> QED
  BY WorkingInit, WorkingStep, PTL DEF Spec

-----------------------------------------------------------------------------
(* Paid tickets. *)

\* No move changes a line of an order that was charged: the moves and
\* close_order lock its row (_find_table_and_draft, get_order_for_update).
THEOREM PaidKeepsLinesHolds == Spec => PaidKeepsLines
<1> DEFINE Kept == \A o \in Order : orders[o].status = "paid" =>
                     \A l \in Line : (lines[l].order = o \/ lines'[l].order = o) => lines'[l] = lines[l]
<1>1. ASSUME Working, [Next]_vars PROVE [Kept]_vars
  <2>1. ASSUME NEW w \in Worker, Commit(w) PROVE Kept
    <3>1. LinesKept(w)
      BY <1>1, <2>1, CommitEffect DEF Effect
    <3>2. ASSUME NEW o \in Order, orders[o].status = "paid" PROVE ~Loose(w, o)
      BY <3>2, RoomAssumption DEF Loose
    <3> QED
      BY <3>1, <3>2 DEF LinesKept
  <2>2. ASSUME NEW w \in Worker,
               (\E r \in Request : Begin(w, r)) \/ Advance(w) \/ Refuse(w) \/ Abort(w)
        PROVE  Kept
    <3>1. lines' = lines
      BY <2>2 DEF Begin, Advance, Refuse, Abort, saleVars
    <3> QED
      BY <3>1
  <2>3. CASE Next
    BY <2>1, <2>2, <2>3 DEF Next
  <2> HIDE DEF Kept
  <2> QED
    BY <1>1, <2>3
<1>2. Working /\ [Next]_vars => [Kept]_vars
  BY <1>1
<1>3. Spec => [][Kept]_vars
  BY <1>2, WorkingHolds, PTL DEF Spec
<1> QED
  BY <1>3 DEF PaidKeepsLines

-----------------------------------------------------------------------------
(* Waiting. *)

\* A request that is not opening a table, and where it is.
MovingAt(w, r, k) ==
  /\ r = req[w] /\ r # None /\ r \in Request /\ r.op # "open_table"
  /\ k \in 1..Len(Steps(r)) /\ Head(todo[w]) = Steps(r)[k]
  /\ Took(w, r, k) /\ Placed(r, Steps(r)[k], k, Len(Steps(r)))

LEMMA Whereabouts ==
  ASSUME Working, NEW w \in Worker, req[w] # None, req[w].op # "open_table"
  PROVE  \E r, k : MovingAt(w, r, k)
<1>1. PICK r : r = req[w]
  OBVIOUS
<1>2. r \in Request
  BY <1>1, NextStatement
<1>3. PICK k \in 1..Len(Steps(r)) : Took(w, r, k) /\ Head(todo[w]) = Steps(r)[k]
  BY <1>1, NextStatement
<1>4. Placed(r, Steps(r)[k], k, Len(Steps(r)))
  BY <1>2, Places
<1>5. MovingAt(w, r, k)
  BY <1>1, <1>2, <1>3, <1>4 DEF MovingAt
<1> QED
  BY <1>5

\* A move past its second statement has both its tables.
LEMMA HoldsTables ==
  ASSUME NEW w \in Worker, NEW r, NEW k, MovingAt(w, r, k), r.op \in MoveOp, k >= 3,
         NEW t \in {r.table, r.target}
  PROVE  <<"table", t>> \in held[w]
<1>1. Planned(r, Steps(r)) /\ r \in Request /\ Took(w, r, k) /\ k \in 1..Len(Steps(r))
  BY Plans DEF MovingAt
<1>2. Steps(r)[1] = <<"table", Lo(r)>> /\ Steps(r)[2] = <<"table", Hi(r)>>
  BY <1>1 DEF Planned
<1>3. 1 \in 1..k - 1 /\ 2 \in 1..k - 1
  BY <1>1 DEF Planned
<1>4. <<"table", Lo(r)>> \in held[w] /\ <<"table", Hi(r)>> \in held[w]
  BY <1>1, <1>2, <1>3 DEF Took, Locks
<1> QED
  BY <1>1, <1>4, LoHi

\* Who has a row, and how far it is.
LEMMA TableHolder ==
  ASSUME NEW v \in Worker, NEW r, NEW k, MovingAt(v, r, k), NEW t, <<"table", t>> \in held[v]
  PROVE  \/ k = Len(Steps(r))
         \/ r.op \in MoveOp /\ k >= 3
         \/ r.op \in MoveOp /\ k = 2 /\ t = Lo(r)
<1>1. r \in Request /\ Took(v, r, k) /\ k \in 1..Len(Steps(r)) /\ r.op # "open_table"
  BY DEF MovingAt
<1>2. Planned(r, Steps(r))
  BY <1>1, Plans
<1>3. \A o : <<"table", t>> # <<"order", o>>
  OBVIOUS
<1>4. PICK i \in 1..k - 1 : <<"table", t>> = Steps(r)[i]
  BY <1>1, <1>3 DEF Took
<1>5. Placed(r, Steps(r)[i], i, Len(Steps(r))) /\ Steps(r)[i][1] = "table"
  <2>1. i \in 1..Len(Steps(r))
    BY <1>1, <1>2 DEF Planned
  <2> QED
    BY <1>1, <1>4, <2>1, Places
<1>6. CASE r.op = "update_table"
  <2>1. Len(Steps(r)) = 2
    BY <1>2, <1>6 DEF Planned
  <2>2. k = 2
    BY <1>1, <1>4, <2>1
  <2> QED
    BY <2>1, <2>2
<1>7. CASE r.op \in MoveOp /\ i = 1 /\ <<"table", t>> = <<"table", Lo(r)>>
  <2>1. t = Lo(r) /\ k >= 2
    BY <1>1, <1>2, <1>7 DEF Planned
  <2> QED
    BY <1>1, <1>2, <1>7, <2>1 DEF Planned
<1>8. CASE r.op \in MoveOp /\ i = 2
  BY <1>1, <1>2, <1>8 DEF Planned
<1> QED
  BY <1>1, <1>4, <1>5, <1>6, <1>7, <1>8 DEF Placed

LEMMA OrderHolder ==
  ASSUME NEW v \in Worker, NEW r, NEW k, MovingAt(v, r, k), NEW o, <<"order", o>> \in held[v]
  PROVE  \/ k = Len(Steps(r))
         \/ r.op \in MoveOp /\ k >= 4 /\ orders[o].table \in {r.table, r.target}
<1>1. r \in Request /\ Took(v, r, k) /\ k \in 1..Len(Steps(r))
  BY DEF MovingAt
<1>2. Planned(r, Steps(r))
  BY <1>1, Plans
<1>3. CASE \E i \in 1..k - 1 : <<"order", o>> = Steps(r)[i]
  <2>1. PICK i \in 1..k - 1 : <<"order", o>> = Steps(r)[i]
    BY <1>3
  <2>2. i \in 1..Len(Steps(r))
    BY <1>1, <1>2 DEF Planned
  <2>3. Placed(r, Steps(r)[i], i, Len(Steps(r))) /\ Steps(r)[i][1] = "order"
    BY <1>1, <2>1, <2>2, Places
  <2>4. r.op \in OrderOp
    BY <2>3 DEF Placed
  <2> QED
    BY <1>1, <1>2, <2>1, <2>4 DEF Planned
<1>4. CASE r.op \in MoveOp /\ k >= 4
           /\ \E p \in Order : /\ <<"order", o>> = <<"order", p>> /\ orders[p].status = "draft"
                               /\ orders[p].table \in {r.table, r.target}
  <2>1. PICK p \in Order : <<"order", o>> = <<"order", p>> /\ orders[p].table \in {r.table, r.target}
    BY <1>4
  <2>2. o = p
    BY <2>1
  <2> QED
    BY <1>4, <2>1, <2>2
<1> QED
  BY <1>1, <1>3, <1>4 DEF Took

LEMMA SlotHolder ==
  ASSUME NEW v \in Worker, NEW r, NEW k, MovingAt(v, r, k), NEW t, <<"slot", t>> \in held[v]
  PROVE  r.op \in MoveOp /\ k >= 3 /\ t = r.target
<1>1. r \in Request /\ Took(v, r, k) /\ k \in 1..Len(Steps(r)) /\ r.op # "open_table"
  BY DEF MovingAt
<1>2. Planned(r, Steps(r))
  BY <1>1, Plans
<1>3. \A o : <<"slot", t>> # <<"order", o>>
  OBVIOUS
<1>4. PICK i \in 1..k - 1 : <<"slot", t>> = Steps(r)[i]
  BY <1>1, <1>3 DEF Took
<1>5. Placed(r, Steps(r)[i], i, Len(Steps(r))) /\ Steps(r)[i][1] = "slot"
  <2>1. i \in 1..Len(Steps(r))
    BY <1>1, <1>2 DEF Planned
  <2> QED
    BY <1>1, <1>4, <2>1, Places
<1>6. r.op \in MoveOp /\ i = 5 /\ <<"slot", t>> = <<"slot", r.target>>
  BY <1>1, <1>4, <1>5 DEF Placed, MoveOp
<1>7. t = r.target /\ k >= 3
  BY <1>1, <1>2, <1>6 DEF Planned
<1> QED
  BY <1>6, <1>7

\* The order of what a request waits for: tables in id order, then the row of
\* an order, then what a move finds on its tables.
RankOf(w) ==
  LET s == Head(todo[w])
  IN  IF s[1] = "table" THEN s[2] ELSE IF s[1] = "order" THEN NTables + 1 ELSE NTables + 2

LEMMA RankIsNat ==
  ASSUME NEW w \in Worker, NEW r, NEW k, MovingAt(w, r, k)
  PROVE  RankOf(w) \in 1..NTables + 2
<1>1. r \in Request /\ Placed(r, Head(todo[w]), k, Len(Steps(r))) /\ NTables \in Nat
      /\ r.op # "open_table"
  BY RoomAssumption DEF MovingAt
<1>2. PICK s : s = Head(todo[w])
  OBVIOUS
<1>3. ASSUME s[1] = "table" PROVE s[2] \in 1..NTables
  <2>1. r.op = "update_table" => r.table \in Table
    BY <1>1, RequestAssumption DEF WellFormed
  <2>2. r.op \in MoveOp => Lo(r) \in Table /\ Hi(r) \in Table
    BY <1>1, LoHi
  <2>3. \E t \in Table : s = <<"table", t>>
    BY <1>1, <1>2, <1>3, <2>1, <2>2 DEF Placed
  <2> QED
    BY <2>3 DEF Table
<1>4. \A t \in 1..NTables : t \in 1..NTables + 2
  BY <1>1
<1>5. NTables + 1 \in 1..NTables + 2 /\ NTables + 2 \in 1..NTables + 2
  BY <1>1
<1>6. RankOf(w) = IF s[1] = "table" THEN s[2] ELSE IF s[1] = "order" THEN NTables + 1 ELSE NTables + 2
  BY <1>2 DEF RankOf
<1> QED
  BY <1>3, <1>4, <1>5, <1>6

\* Whoever one waits for waits for something later, if it waits at all.
LEMMA WaitsUp ==
  ASSUME Working, NEW w \in Worker, NEW v \in Worker, NEW u \in Worker, w # v, v # u,
         NEW r, NEW k, MovingAt(w, r, k), NEW q, NEW j, MovingAt(v, q, j),
         Waits(w, v), Waits(v, u)
  PROVE  RankOf(w) < RankOf(v)
<1>1. PICK s : s = Head(todo[w])
  OBVIOUS
<1>2. PICK z : z = Head(todo[v])
  OBVIOUS
<1>3. /\ Placed(r, s, k, Len(Steps(r))) /\ Placed(q, z, j, Len(Steps(q)))
      /\ r = req[w] /\ q = req[v] /\ r \in Request /\ q \in Request
      /\ k \in 1..Len(Steps(r)) /\ j \in 1..Len(Steps(q))
  BY <1>1, <1>2 DEF MovingAt
<1>4. held[w] \intersect held[v] = {} /\ held[v] \intersect held[u] = {}
  BY DEF Working, RowsExclusive
<1>5. PICK row \in Rows(w) : row \in held[v]
  BY DEF Waits
<1>6. PICK last \in Rows(v) : last \in held[u]
  BY DEF Waits
<1>7. z[1] # "commit" /\ j # Len(Steps(q))
  <2>1. z[1] = "commit" => Rows(v) = {}
    BY <1>2 DEF Rows
  <2> QED
    BY <1>3, <1>6, <2>1 DEF Placed
<1>8. NTables \in Nat /\ RankOf(w) \in 1..NTables + 2 /\ RankOf(v) \in 1..NTables + 2
  BY RankIsNat, RoomAssumption
<1>9. /\ RankOf(w) = IF s[1] = "table" THEN s[2]
                     ELSE IF s[1] = "order" THEN NTables + 1 ELSE NTables + 2
      /\ RankOf(v) = IF z[1] = "table" THEN z[2]
                     ELSE IF z[1] = "order" THEN NTables + 1 ELSE NTables + 2
  BY <1>1, <1>2 DEF RankOf
<1>10. /\ s[1] \in {"table", "order", "slot"} => row = s
       /\ s[1] = "source" => row \in {<<"order", o>> : o \in Drafts(r.table)}
       /\ s[1] = "target" => row \in {<<"order", o>> : o \in Drafts(r.target)}
       /\ s[1] \notin {"table", "order", "slot", "source", "target"} => FALSE
  BY <1>1, <1>3, <1>5 DEF Rows
<1>11. z[1] \in {"table", "order", "slot"} => last = z
  BY <1>2, <1>6 DEF Rows
\* Two moves never meet past their tables.
<1>12. ASSUME r.op \in MoveOp, k >= 3, q.op \in MoveOp, j >= 3,
              NEW t, t \in {r.table, r.target}, t \in {q.table, q.target}
       PROVE  FALSE
  <2>1. <<"table", t>> \in held[w] /\ <<"table", t>> \in held[v]
    BY <1>12, HoldsTables
  <2> QED
    BY <1>4, <2>1
<1>13. CASE s[1] = "table"
  <2>1. PICK t : s = <<"table", t>> /\ t \in Table
    <3>1. r.op \in {"open_table", "update_table"} => r.table \in Table
      BY <1>3, RequestAssumption DEF WellFormed
    <3>2. r.op \in MoveOp => Lo(r) \in Table /\ Hi(r) \in Table
      BY <1>3, LoHi
    <3> QED
      BY <1>3, <1>13, <3>1, <3>2 DEF Placed
  <2>2. RankOf(w) = t /\ t \in 1..NTables
    BY <1>9, <1>13, <2>1 DEF Table
  <2>3. <<"table", t>> \in held[v]
    BY <1>5, <1>10, <1>13, <2>1
  <2>4. \/ q.op \in MoveOp /\ j >= 3
        \/ q.op \in MoveOp /\ j = 2 /\ t = Lo(q)
    BY <1>7, <2>3, TableHolder
  <2>5. CASE q.op \in MoveOp /\ j >= 3
    <3>1. z[1] # "table"
      BY <1>3, <2>5 DEF Placed, MoveOp
    <3> QED
      BY <1>8, <1>9, <2>2, <3>1
  <2>6. CASE q.op \in MoveOp /\ j = 2 /\ t = Lo(q)
    <3>1. z = <<"table", Hi(q)>>
      <4>1. Planned(q, Steps(q)) /\ z = Steps(q)[j]
        BY <1>2, <1>3, Plans DEF MovingAt
      <4> QED
        BY <2>6, <4>1 DEF Planned
    <3>2. z[1] = "table" /\ z[2] = Hi(q)
      BY <3>1
    <3>3. last = z
      BY <1>11, <3>2
    <3>4. Hi(q) # t
      BY <1>4, <1>6, <2>3, <3>1, <3>3
    <3>5. Lo(q) <= Hi(q) /\ Lo(q) \in 1..NTables /\ Hi(q) \in 1..NTables
      BY <1>3, <2>6, LoHi DEF Table
    <3>6. RankOf(v) = Hi(q)
      BY <1>9, <3>2
    <3>7. t < Hi(q)
      BY <2>6, <3>4, <3>5
    <3> QED
      BY <2>2, <3>6, <3>7
  <2> QED
    BY <2>4, <2>5, <2>6
<1>14. CASE s[1] = "order"
  <2>1. <<"order", r.order>> \in held[v]
    BY <1>3, <1>5, <1>10, <1>14 DEF Placed
  <2>2. q.op \in MoveOp /\ j >= 4
    BY <1>7, <2>1, OrderHolder
  <2>3. z[1] # "table" /\ z[1] # "order"
    BY <1>3, <2>2 DEF Placed, MoveOp
  <2> QED
    BY <1>8, <1>9, <1>14, <2>3
<1>15. CASE s[1] \in {"source", "target"}
  <2>1. r.op \in MoveOp /\ k >= 3
    BY <1>3, <1>15 DEF Placed
  <2>2. PICK t \in {r.table, r.target} : row \in {<<"order", o>> : o \in Drafts(t)}
    BY <1>10, <1>15
  <2>3. PICK o \in Drafts(t) : row = <<"order", o>>
    BY <2>2
  <2>4. orders[o].table = t
    BY DEF Drafts
  <2>5. q.op \in MoveOp /\ j >= 4 /\ orders[o].table \in {q.table, q.target}
    BY <1>5, <1>7, <2>3, OrderHolder
  <2>6. j >= 3
    BY <1>3, <2>5
  <2> QED
    BY <1>12, <2>1, <2>4, <2>5, <2>6
<1>16. CASE s[1] = "slot"
  <2>1. r.op \in MoveOp /\ k >= 3 /\ s = <<"slot", r.target>>
    BY <1>3, <1>16 DEF Placed, MoveOp, MovingAt
  <2>2. <<"slot", r.target>> \in held[v]
    BY <1>5, <1>10, <1>16, <2>1
  <2>3. q.op \in MoveOp /\ j >= 3 /\ r.target = q.target
    BY <2>2, SlotHolder
  <2> QED
    BY <1>12, <2>1, <2>3
<1> QED
  BY <1>10, <1>13, <1>14, <1>15, <1>16

LEMMA WorkingNoRing == Working => MovesNeverDeadlock
<1> SUFFICES ASSUME Working,
                    NEW S \in SUBSET {w \in Worker : req[w] # None /\ req[w].op # "open_table"},
                    S # {}, \A w \in S : \E v \in S \ {w} : Waits(w, v)
             PROVE  FALSE
  BY DEF MovesNeverDeadlock
<1>1. \A w \in S : w \in Worker /\ \E r, k : MovingAt(w, r, k)
  BY Whereabouts
<1>2. \A w \in S : RankOf(w) \in 1..NTables + 2
  BY <1>1, RankIsNat
<1>3. ASSUME NEW w \in S PROVE \E v \in S : RankOf(w) < RankOf(v)
  <2>1. PICK v \in S \ {w} : Waits(w, v)
    OBVIOUS
  <2>2. PICK u \in S \ {v} : Waits(v, u)
    OBVIOUS
  <2>3. PICK r, k : MovingAt(w, r, k)
    BY <1>1
  <2>4. PICK q, j : MovingAt(v, q, j)
    BY <1>1
  <2>5. RankOf(w) < RankOf(v)
    BY <1>1, <2>1, <2>2, <2>3, <2>4, WaitsUp
  <2> QED
    BY <2>5
<1> DEFINE T == {n \in Nat : \E w \in S : RankOf(w) >= n}
<1>4. 0 \in T
  BY <1>2, RoomAssumption
<1>5. ASSUME NEW n \in T PROVE n + 1 \in T
  <2>1. PICK w \in S : RankOf(w) >= n
    OBVIOUS
  <2>2. PICK v \in S : RankOf(w) < RankOf(v)
    BY <1>3
  <2>3. RankOf(v) >= n + 1
    BY <1>2, <2>1, <2>2, RoomAssumption
  <2> QED
    BY <2>3
<1>6. Nat \subseteq T
  BY ONLY <1>4, <1>5, T \subseteq Nat, NatSetInduction
<1>7. NTables + 3 \in T
  BY <1>6, RoomAssumption
<1> QED
  BY <1>2, <1>7, RoomAssumption

\* However many requests run, those that open no table never wait in a ring:
\* _lock_two_tables takes tables in id order, and an order row after them.
THEOREM MovesNeverDeadlockHolds == Spec => []MovesNeverDeadlock
<1> QED
  BY WorkingHolds, WorkingNoRing, PTL

-----------------------------------------------------------------------------
(* Types. *)

TableRow == [status : {"none", "active", "inactive"},
             zone : Zone \union {None}, name : Name \union {None}]

RoomTypes ==
  /\ zones \in [Zone -> {"none", "active", "inactive"}]
  /\ tables \in [Table -> TableRow]
  /\ dishes \in [Line -> Order \union {None}]

LEMMA RoomTypesInit == Init => RoomTypes
<1> SUFFICES ASSUME Init PROVE RoomTypes
  OBVIOUS
<1>1. /\ FirstZone \in Zone /\ FirstTables \in [Table -> Name \union {None}]
  BY RoomAssumption
<1>2. \A t \in Table :
        /\ [status |-> "none", zone |-> None, name |-> None] \in TableRow
        /\ [status |-> "active", zone |-> FirstZone, name |-> FirstTables[t]] \in TableRow
  BY <1>1 DEF TableRow
<1>3. tables \in [Table -> TableRow]
  BY <1>2 DEF Init
<1>4. zones \in [Zone -> {"none", "active", "inactive"}]
  BY DEF Init
<1>5. dishes \in [Line -> Order \union {None}]
  BY DEF Init
<1> QED
  BY <1>3, <1>4, <1>5 DEF RoomTypes

LEMMA RoomTypesStep ==
  ASSUME Working, RoomTypes, [Next]_vars
  PROVE  RoomTypes'
<1> USE DEF RoomTypes
<1>1. CASE UNCHANGED <<zones, tables, dishes>>
  BY <1>1
<1>2. ASSUME NEW w \in Worker, CreateZone(w) PROVE RoomTypes'
  BY <1>2 DEF CreateZone, saleVars
<1>3. ASSUME NEW w \in Worker, UpdateZone(w) PROVE RoomTypes'
  BY <1>3 DEF UpdateZone, saleVars
<1>4. ASSUME NEW w \in Worker, CreateTable(w) PROVE RoomTypes'
  <2>1. PICK r : r = req[w]
    OBVIOUS
  <2>2. WellFormed(r) /\ r.op = "create_table"
    BY <1>4, <2>1, AtCommit DEF CreateTable, Committing
  <2>3. PICK x : x = [status |-> "active", zone |-> r.zone, name |-> r.name]
    OBVIOUS
  <2>4. x \in TableRow
    BY <2>2, <2>3 DEF WellFormed, TableRow
  <2>5. tables' = [tables EXCEPT ![r.table] = x] /\ UNCHANGED <<zones, dishes>>
    BY <1>4, <2>1, <2>3 DEF CreateTable, saleVars
  <2> QED
    BY <2>4, <2>5
<1>5. ASSUME NEW w \in Worker, UpdateTable(w) PROVE RoomTypes'
  <2>1. PICK r : r = req[w]
    OBVIOUS
  <2>2. WellFormed(r) /\ r.op = "update_table"
    BY <1>5, <2>1, AtCommit DEF UpdateTable, Committing
  <2>3. PICK x : x = [status |-> IF r.active THEN "active" ELSE "inactive",
                      zone |-> ZoneAfter(r), name |-> NameAfter(r)]
    OBVIOUS
  <2>4. r.table \in Table /\ r.zone \in Zone \union {None} /\ r.name \in Name \union {None}
    BY <2>2 DEF WellFormed
  <2>5. tables[r.table].zone \in Zone \union {None} /\ tables[r.table].name \in Name \union {None}
    BY <2>4 DEF TableRow
  <2>6. x \in TableRow
    BY <2>3, <2>4, <2>5 DEF TableRow, ZoneAfter, NameAfter
  <2>7. tables' = [tables EXCEPT ![r.table] = x] /\ UNCHANGED <<zones, dishes>>
    BY <1>5, <2>1, <2>3 DEF UpdateTable, saleVars
  <2> QED
    BY <2>6, <2>7
<1>6. ASSUME NEW w \in Worker, AddLine(w) PROVE RoomTypes'
  <2>1. PICK r : r = req[w]
    OBVIOUS
  <2>2. r.order \in Order
    BY <1>6, <2>1, HoldsOrder DEF AddLine, Committing, OrderOp
  <2>3. \E l : dishes' = [dishes EXCEPT ![l] = r.order]
    BY <1>6, <2>1 DEF AddLine
  <2>4. UNCHANGED <<zones, tables>>
    BY <1>6 DEF AddLine, roomVars
  <2> QED
    BY <2>2, <2>3, <2>4
<1>7. ASSUME NEW w \in Worker, VoidOrder(w) PROVE RoomTypes'
  <2>1. PICK o : dishes' = [l \in Line |-> IF dishes[l] = o THEN None ELSE dishes[l]]
    BY <1>7 DEF VoidOrder
  <2>2. UNCHANGED <<zones, tables>>
    BY <1>7 DEF VoidOrder, roomVars
  <2> QED
    BY <2>1, <2>2
<1>8. ASSUME NEW w \in Worker,
             \/ \E r \in Request : Begin(w, r)
             \/ Advance(w) \/ Refuse(w) \/ Abort(w)
             \/ OpenTable(w) \/ UpdateSession(w) \/ RequestBill(w) \/ CancelBill(w)
             \/ CloseOrder(w) \/ TransferTable(w) \/ MergeTables(w) \/ SplitTable(w)
      PROVE  UNCHANGED <<zones, tables, dishes>>
  BY <1>8 DEF Begin, Advance, Refuse, Abort, OpenTable, UpdateSession, RequestBill, CancelBill,
              CloseOrder, TransferTable, MergeTables, SplitTable, roomVars, saleVars
<1>9. CASE UNCHANGED vars
  BY <1>1, <1>9 DEF vars, roomVars, saleVars
<1>10. CASE Next
  <2>1. PICK w \in Worker : \/ \E r \in Request : Begin(w, r)
                            \/ Advance(w) \/ Refuse(w) \/ Abort(w) \/ Commit(w)
    BY <1>10 DEF Next
  <2> QED
    BY <1>1, <1>2, <1>3, <1>4, <1>5, <1>6, <1>7, <1>8, <2>1 DEF Commit
<1> QED
  BY <1>9, <1>10

LEMMA FloorTyped == Working /\ RoomTypes => FloorTypeOK
<1> SUFFICES ASSUME Working, RoomTypes PROVE FloorTypeOK
  OBVIOUS
<1>1. SaleTypes /\ WorkTypes
  BY DEF Working
<1>2. zones \in [Zone -> {"none", "active", "inactive"}]
  BY DEF RoomTypes
<1>3. tables \in [Table -> [status : {"none", "active", "inactive"},
                            zone : Zone \union {None}, name : Name \union {None}]]
  BY DEF RoomTypes, TableRow
<1>4. dishes \in [Line -> Order \union {None}]
  BY DEF RoomTypes
<1>5. \A o \in Order :
        /\ orders[o].status \in {"none", "draft", "paid", "voided"}
        /\ orders[o].table \in Table \union {None}
        /\ (orders[o].status = "none") <=> (orders[o].table = None)
        /\ (orders[o].status = "voided") <=> (orders[o].why # None)
  BY <1>1 DEF SaleTypes, OrderRow
<1>6. lines \in [Line -> [order : Order \union {None}, qty : Nat]]
  BY <1>1 DEF SaleTypes, LineRow
<1>7. \A w \in Worker : req[w] \in Request \union {None}
  BY <1>1 DEF WorkTypes
<1>8. ASSUME NEW w \in Worker PROVE todo[w] = <<>> <=> req[w] = None
  <2>1. req[w] = None => todo[w] = <<>>
    BY DEF Working, OnItsWay
  <2>2. req[w] # None => todo[w] # <<>>
    BY NextStatement
  <2> QED
    BY <2>1, <2>2
<1> QED
  BY <1>2, <1>3, <1>4, <1>5, <1>6, <1>7, <1>8 DEF FloorTypeOK

\* The rows keep the shape the schema of the tables, orders and lines gives
\* them, whatever is asked for.
THEOREM FloorTypeOKHolds == Spec => []FloorTypeOK
<1>1. Working /\ RoomTypes /\ [Next]_vars => RoomTypes'
  BY RoomTypesStep
<1>2. Init => RoomTypes
  BY RoomTypesInit
<1> QED
  BY <1>1, <1>2, WorkingHolds, FloorTyped, PTL DEF Spec

-----------------------------------------------------------------------------
(* Units. *)

Counted(o) == orders[o].status \in {"draft", "paid"} \/ orders[o].why = "void"
Qty == [l \in Line |-> lines[l].qty]

\* A line with units belongs to an order that counts them, and what the lines
\* hold is what was ordered.
Owned  == \A l \in Line : lines[l].order # None => Counted(lines[l].order)
Summed == /\ \A l \in Line : lines[l].order = None => lines[l].qty = 0
          /\ SumFunctionOnSet(Qty, Line) = ordered

LEMMA QtyIsInt == SaleTypes => \A l \in Line : Qty[l] \in Nat /\ Qty[l] = lines[l].qty
BY DEF SaleTypes, LineRow, Qty

LEMMA KeptInit == Init => Owned /\ Summed
<1> SUFFICES ASSUME Init PROVE Owned /\ Summed
  OBVIOUS
<1>1. \A l \in Line : lines[l].order = None /\ lines[l].qty = 0
  BY DEF Init, NoLine
<1>2. ordered = 0
  BY DEF Init
<1>3. \A l \in Line : Qty[l] = 0 /\ Qty[l] \in Int
  BY <1>1 DEF Qty
<1>4. {} \in SUBSET Line /\ \A l \in Line \ {} : Qty[l] = 0
  BY <1>3
<1>5. SumFunctionOnSet(Qty, Line) = SumFunctionOnSet(Qty, {})
  BY ONLY <1>3, <1>4, FiniteLines, SumSkips
<1>6. SumFunctionOnSet(Qty, Line) = 0
  BY <1>5, SumEmpty
<1> QED
  BY <1>1, <1>2, <1>6 DEF Owned, Summed

\* The lines are as they were, and every order that counted still does.
LEMMA SameLinesKept ==
  ASSUME Owned, Summed, UNCHANGED <<lines, ordered>>,
         \A l \in Line : lines[l].order # None /\ Counted(lines[l].order) => Counted(lines[l].order)'
  PROVE  Owned' /\ Summed'
<1>1. Qty' = Qty
  BY DEF Qty
<1>2. Summed'
  BY <1>1 DEF Summed
<1>3. Owned'
  BY DEF Owned
<1> QED
  BY <1>2, <1>3

LEMMA StillCounted ==
  ASSUME Working, Owned, Summed, UNCHANGED <<lines, ordered>>,
         NEW o, NEW x, orders' = [orders EXCEPT ![o] = x],
         o \in Order /\ Counted(o) => x.status \in {"draft", "paid"} \/ x.why = "void"
  PROVE  Owned' /\ Summed'
<1>1. orders \in [Order -> OrderRow] /\ lines \in [Line -> LineRow]
  BY DEF Working, SaleTypes
<1>2. ASSUME NEW l \in Line, lines[l].order # None, Counted(lines[l].order)
      PROVE  Counted(lines[l].order)'
  <2>1. lines[l].order \in Order
    BY <1>1, <1>2 DEF LineRow
  <2>2. PICK p \in Order : p = lines[l].order
    BY <2>1
  <2>3. orders'[p] = IF p = o THEN x ELSE orders[p]
    BY <1>1
  <2> QED
    BY <1>2, <2>2, <2>3 DEF Counted
<1> QED
  BY <1>2, SameLinesKept

LEMMA OrderKeeps ==
  ASSUME Working, Owned, Summed, NEW w \in Worker,
         \/ OpenTable(w) \/ UpdateSession(w) \/ RequestBill(w) \/ CancelBill(w)
         \/ CloseOrder(w) \/ VoidOrder(w) \/ TransferTable(w)
  PROVE  Owned' /\ Summed'
<1>1. UNCHANGED <<lines, ordered>>
  BY DEF OpenTable, UpdateSession, RequestBill, CancelBill, CloseOrder, VoidOrder, TransferTable
<1>2. ASSUME NEW o, NEW x, orders' = [orders EXCEPT ![o] = x],
             \/ x.status \in {"draft", "paid"} \/ x.why = "void"
             \/ o \in Order => x.status = orders[o].status /\ x.why = orders[o].why
      PROVE  Owned' /\ Summed'
  BY <1>1, <1>2, StillCounted DEF Counted
<1>3. CASE OpenTable(w)
  <2>1. PICK n, t, g : orders' = [orders EXCEPT ![n] = NewOrder(@, t, g)]
    BY <1>3 DEF OpenTable
  <2>2. PICK x : x = NewOrder(orders[n], t, g)
    OBVIOUS
  <2>3. x.status = "draft" /\ orders' = [orders EXCEPT ![n] = x]
    BY <2>1, <2>2 DEF NewOrder, NoOrder
  <2> QED
    BY <1>2, <2>3
<1>4. orders \in [Order -> OrderRow]
  BY DEF Working, SaleTypes
<1>5. CASE UpdateSession(w)
  <2>1. PICK o : o = req[w].order
    OBVIOUS
  <2>2. PICK x : x = [orders[o] EXCEPT !.guests = req[w].guests]
    OBVIOUS
  <2>3. orders' = [orders EXCEPT ![o] = x]
    BY <1>5, <2>1, <2>2 DEF UpdateSession
  <2>4. o \in Order => x.status = orders[o].status /\ x.why = orders[o].why
    BY <1>4, <2>2 DEF OrderRow
  <2> QED
    BY <1>2, <2>3, <2>4
<1>6. CASE RequestBill(w) \/ CancelBill(w)
  <2>1. PICK o, b : orders' = [orders EXCEPT ![o].bill = b]
    BY <1>6 DEF RequestBill, CancelBill
  <2>2. PICK x : x = [orders[o] EXCEPT !.bill = b]
    OBVIOUS
  <2>3. orders' = [orders EXCEPT ![o] = x]
    BY <2>1, <2>2
  <2>4. o \in Order => x.status = orders[o].status /\ x.why = orders[o].why
    BY <1>4, <2>2 DEF OrderRow
  <2> QED
    BY <1>2, <2>3, <2>4
<1>7. CASE CloseOrder(w)
  <2>1. PICK o : o = req[w].order
    OBVIOUS
  <2>2. PICK x : x = [orders[o] EXCEPT !.status = "paid"]
    OBVIOUS
  <2>3. orders' = [orders EXCEPT ![o] = x]
    BY <1>7, <2>1, <2>2 DEF CloseOrder
  <2>4. o \in Order => x.status = "paid"
    BY <1>4, <2>2 DEF OrderRow
  <2> QED
    BY <1>1, <2>3, <2>4, StillCounted
<1>8. CASE VoidOrder(w)
  <2>1. PICK o : o = req[w].order
    OBVIOUS
  <2>2. PICK x : x = Voided(o, "void")
    OBVIOUS
  <2>3. orders' = [orders EXCEPT ![o] = x]
    BY <1>8, <2>1, <2>2 DEF VoidOrder
  <2>4. o \in Order => x.why = "void"
    BY <1>4, <2>2 DEF Voided, OrderRow
  <2> QED
    BY <1>1, <2>3, <2>4, StillCounted
<1>9. CASE TransferTable(w)
  <2>1. PICK o, t : orders' = [orders EXCEPT ![o].table = t]
    BY <1>9 DEF TransferTable
  <2>2. PICK x : x = [orders[o] EXCEPT !.table = t]
    OBVIOUS
  <2>3. orders' = [orders EXCEPT ![o] = x]
    BY <2>1, <2>2
  <2>4. o \in Order => x.status = orders[o].status /\ x.why = orders[o].why
    BY <1>4, <2>2 DEF OrderRow
  <2> QED
    BY <1>2, <2>3, <2>4
<1> QED
  BY <1>3, <1>5, <1>6, <1>7, <1>8, <1>9

LEMMA AddLineKeeps ==
  ASSUME Working, Owned, Summed, NEW w \in Worker, AddLine(w)
  PROVE  Owned' /\ Summed'
<1>1. PICK r : r = req[w]
  OBVIOUS
<1>2. At(w, "commit") /\ r.op = "add_line" /\ Check(w)
  BY <1>1 DEF AddLine, Committing
<1>3. r.order \in Order /\ OrderCheck(r)
  BY <1>1, <1>2, HoldsOrder DEF OrderOp
<1>4. r.qty \in Nat \ {0}
  BY <1>1, <1>2, AtCommit DEF WellFormed
<1>5. CommitCheck(r)
  BY <1>1, <1>2 DEF Check, At
<1>6. PICK n : n = Min(FreshLines)
  OBVIOUS
<1>7. n \in Line /\ lines[n].order = None
  BY <1>2, <1>5, <1>6, FirstFree DEF CommitCheck, FreshLines
<1>8. lines' = [lines EXCEPT ![n] = [order |-> r.order, qty |-> r.qty]]
      /\ ordered' = ordered + r.qty /\ orders' = orders
  BY <1>1, <1>6 DEF AddLine
<1>9. SaleTypes /\ SaleTypes' /\ lines \in [Line -> LineRow] /\ ordered \in Nat
  BY AddLineEffect DEF Working, SaleTypes, Effect
<1>10. /\ \A l \in Line \ {n} : lines'[l] = lines[l]
       /\ lines'[n].order = r.order /\ lines'[n].qty = r.qty
  BY <1>7, <1>8, <1>9
<1>11. Owned'
  <2>1. Counted(r.order)
    BY <1>2, <1>3 DEF OrderCheck, Counted
  <2> QED
    BY <1>8, <1>10, <2>1 DEF Owned, Counted
<1>12. \A l \in Line : (lines[l].order = None => lines[l].qty = 0)'
  BY <1>3, <1>10, RoomAssumption DEF Summed
<1>13. PICK f, g : f = Qty /\ g = Qty'
  OBVIOUS
<1>14. /\ \A l \in Line : f[l] \in Int /\ g[l] \in Int
       /\ \A l \in Line \ {n} : f[l] = g[l]
       /\ f[n] = 0 /\ g[n] = r.qty
  <2>1. \A l \in Line : f[l] = lines[l].qty /\ g[l] = lines'[l].qty
    BY <1>13 DEF Qty
  <2>2. \A l \in Line : lines[l].qty \in Nat /\ lines'[l].qty \in Nat
    BY <1>9 DEF SaleTypes, LineRow
  <2> QED
    BY <1>7, <1>10, <2>1, <2>2 DEF Summed
<1>15. SumFunctionOnSet(g, Line) = SumFunctionOnSet(f, Line) - f[n] + g[n]
  BY ONLY <1>7, <1>14, FiniteLines, SumChanges
<1>16. SumFunctionOnSet(f, Line) = ordered
  BY <1>13 DEF Summed
<1>17. SumFunctionOnSet(g, Line) = ordered'
  BY <1>4, <1>8, <1>9, <1>14, <1>15, <1>16
<1> QED
  BY <1>11, <1>12, <1>13, <1>17 DEF Summed

LEMMA MergeKeeps ==
  ASSUME Working, Owned, Summed, NEW w \in Worker, MergeTables(w)
  PROVE  Owned' /\ Summed'
<1>1. PICK r : r = req[w]
  OBVIOUS
<1>2. At(w, "commit") /\ r.op = "merge_tables"
  BY <1>1 DEF MergeTables, Committing
<1>3. PICK from, to : from = src[w] /\ to = dst[w]
  OBVIOUS
<1>4. /\ r.table # r.target /\ seen[w] = LinesOf(from)
      /\ from \in Drafts(r.table) /\ to \in Drafts(r.target)
  BY <1>1, <1>2, <1>3, HoldsDrafts DEF MoveOp
<1>5. /\ from \in Order /\ to \in Order /\ from # to /\ orders[to].status = "draft"
  BY <1>4 DEF Drafts
<1>6. orders \in [Order -> OrderRow] /\ lines \in [Line -> LineRow] /\ SaleTypes
  BY DEF Working, SaleTypes
<1>7. lines' = [l \in Line |-> IF l \in LinesOf(from) THEN [lines[l] EXCEPT !.order = to] ELSE lines[l]]
  BY <1>3, <1>4 DEF MergeTables
<1>8. ASSUME NEW l \in Line
      PROVE  /\ lines'[l].qty = lines[l].qty
             /\ lines'[l].order = IF lines[l].order = from THEN to ELSE lines[l].order
  <2>1. lines[l] \in LineRow
    BY <1>6
  <2>2. lines'[l] = IF lines[l].order = from THEN [lines[l] EXCEPT !.order = to] ELSE lines[l]
    BY <1>7 DEF LinesOf
  <2> QED
    BY <2>1, <2>2 DEF LineRow
<1>9. ASSUME NEW p \in Order, p # from, Counted(p) PROVE Counted(p)'
  <2>1. PICK g : orders' = [orders EXCEPT ![from] = Voided(from, "move"), ![to].guests = g]
    BY <1>3, <1>5, <1>6 DEF MergeTables
  <2>2. orders'[p].status = orders[p].status /\ orders'[p].why = orders[p].why
    BY <1>5, <1>6, <1>9, <2>1 DEF OrderRow
  <2> QED
    BY <1>9, <2>2 DEF Counted
<1>10. Counted(to)
  BY <1>5 DEF Counted
<1>11. Owned'
  <2> SUFFICES ASSUME NEW l \in Line, (lines[l].order # None)' PROVE Counted(lines[l].order)'
    BY DEF Owned
  <2>1. PICK p : p = lines'[l].order
    OBVIOUS
  <2>2. Counted(p)'
    <3>1. CASE lines[l].order = from
      BY <1>5, <1>8, <1>9, <1>10, <2>1, <3>1
    <3>2. CASE lines[l].order # from
      <4>1. p \in Order /\ Counted(p) /\ p # from
        BY <1>6, <1>8, <2>1, <3>2 DEF Owned, LineRow
      <4> QED
        BY <1>9, <4>1
    <3> QED
      BY <3>1, <3>2
  <2> QED
    BY <2>1, <2>2 DEF Counted
<1>12. \A l \in Line : (lines[l].order = None => lines[l].qty = 0)'
  BY <1>5, <1>8, RoomAssumption DEF Summed
<1>13. Qty' = Qty
  BY <1>8 DEF Qty
<1>14. ordered' = ordered
  BY DEF MergeTables
<1> QED
  BY <1>11, <1>12, <1>13, <1>14 DEF Summed

LEMMA SplitKeeps ==
  ASSUME Working, Owned, Summed, NEW w \in Worker, SplitTable(w)
  PROVE  Owned' /\ Summed'
<1>1. PICK r : r = req[w]
  OBVIOUS
<1>2. PICK from : from = src[w]
  OBVIOUS
<1>3. PICK new : new = Min(FreshOrders)
  OBVIOUS
<1>4. /\ new \in Order /\ orders[new].status = "none" /\ from # new
      /\ from \in Order /\ orders[from].status = "draft"
  BY <1>1, <1>2, <1>3, SplitShape
<1>5. PICK P \in SUBSET Line, D \in SUBSET Line :
        \E row \in [P -> FreshLines], parts \in [D -> Nat \ {0}] :
          /\ P \subseteq D /\ D \subseteq LinesOf(from)
          /\ \A p, q \in P : row[p] = row[q] => p = q
          /\ \A l \in D : parts[l] <= lines[l].qty
          /\ Parted(from, new, D, P, parts, row)
  BY <1>1, <1>2, <1>3, SplitShape
<1>6. PICK row \in [P -> FreshLines], parts \in [D -> Nat \ {0}] :
        /\ P \subseteq D /\ D \subseteq LinesOf(from)
        /\ \A p, q \in P : row[p] = row[q] => p = q
        /\ \A l \in D : parts[l] <= lines[l].qty
        /\ Parted(from, new, D, P, parts, row)
  BY <1>5
<1>7. orders \in [Order -> OrderRow] /\ lines \in [Line -> LineRow] /\ SaleTypes /\ SaleTypes'
  BY SplitEffect DEF Working, SaleTypes, Effect
<1>8. PICK x : x = NewOrder(orders[new], req[w].target, 0)
  OBVIOUS
<1>9. PICK y : y = IF \E l \in Line : lines'[l].order = from THEN orders[from]
                                                           ELSE Voided(from, "move")
  OBVIOUS
<1>10. orders' = [orders EXCEPT ![new] = x, ![from] = y] /\ ordered' = ordered
  BY <1>2, <1>3, <1>4, <1>7, <1>8, <1>9 DEF SplitTable
<1>11. \A p \in Order : orders'[p] = IF p = from THEN y ELSE IF p = new THEN x ELSE orders[p]
  BY <1>4, <1>7, <1>10
<1>12. Counted(new)'
  <2>1. x.status = "draft"
    BY <1>8 DEF NewOrder, NoOrder
  <2> QED
    BY <1>4, <1>11, <2>1 DEF Counted
<1>13. ASSUME NEW p \in Order, p # new, Counted(p), \E l \in Line : lines'[l].order = p
       PROVE  Counted(p)'
  BY <1>9, <1>11, <1>13 DEF Counted
<1>14. \A l \in D : lines[l].order = from
  BY <1>6 DEF LinesOf
<1>15. \A p \in P : /\ row[p] \in Line /\ lines[row[p]].order = None /\ row[p] \notin D
  BY <1>4, <1>6, <1>14, RoomAssumption DEF FreshLines
<1>a. \A l \in P : lines'[l].order = from
  <2> SUFFICES ASSUME NEW l \in P PROVE lines'[l].order = from
    OBVIOUS
  <2>1. lines'[l] = [order |-> from, qty |-> lines[l].qty - parts[l]]
    BY <1>6 DEF Parted
  <2> QED
    BY <2>1
<1>b. \A l \in D \ P : lines'[l].order = new
  <2> SUFFICES ASSUME NEW l \in D \ P PROVE lines'[l].order = new
    OBVIOUS
  <2>1. lines'[l] = [order |-> new, qty |-> lines[l].qty]
    BY <1>6 DEF Parted
  <2> QED
    BY <2>1
<1>c. \A p \in P : lines'[row[p]].order = new
  <2> SUFFICES ASSUME NEW p \in P PROVE lines'[row[p]].order = new
    OBVIOUS
  <2>1. lines'[row[p]] = [order |-> new, qty |-> parts[p]]
    BY <1>6, <1>15 DEF Parted
  <2> QED
    BY <2>1
<1>d. \A l \in Line \ D : (\A p \in P : row[p] # l) => lines'[l] = lines[l]
  BY <1>6 DEF Parted
<1>16. ASSUME NEW l \in Line
       PROVE  \/ lines'[l].order = new
              \/ lines'[l].order = lines[l].order
  <2>1. CASE l \in P
    BY <1>6, <1>14, <1>a, <2>1
  <2>2. CASE l \in D \ P
    BY <1>b, <2>2
  <2>3. CASE \E p \in P : row[p] = l
    BY <1>c, <2>3
  <2>4. CASE l \notin D /\ \A p \in P : row[p] # l
    BY <1>d, <2>4
  <2> QED
    BY <2>1, <2>2, <2>3, <2>4
<1>17. Owned'
  <2> SUFFICES ASSUME NEW l \in Line, (lines[l].order # None)' PROVE Counted(lines[l].order)'
    BY DEF Owned
  <2>1. PICK p : p = lines'[l].order
    OBVIOUS
  <2>2. Counted(p)'
    <3>1. CASE p = new
      BY <1>12, <3>1
    <3>2. CASE p # new
      <4>1. p = lines[l].order /\ p # None
        BY <1>16, <2>1, <3>2
      <4>2. p \in Order /\ Counted(p)
        BY <1>7, <4>1 DEF Owned, LineRow
      <4> QED
        BY <1>13, <2>1, <3>2, <4>2
    <3> QED
      BY <3>1, <3>2
  <2> QED
    BY <2>1, <2>2 DEF Counted
<1>18. \A l \in Line : (lines[l].order = None => lines[l].qty = 0)'
  <2> SUFFICES ASSUME NEW l \in Line, lines'[l].order = None PROVE lines'[l].qty = 0
    OBVIOUS
  <2>1. new # None /\ from # None
    BY <1>4, RoomAssumption
  <2>2. l \notin D /\ \A p \in P : row[p] # l
    BY <1>a, <1>b, <1>c, <2>1
  <2>3. lines'[l] = lines[l]
    BY <1>d, <2>2
  <2> QED
    BY <2>3 DEF Summed
<1>19. PICK f, g : f = Qty /\ g = Qty'
  OBVIOUS
<1>20. \A l \in Line : f[l] = lines[l].qty /\ g[l] = lines'[l].qty
  BY <1>19 DEF Qty
<1>21. \A l \in Line : f[l] \in Int /\ g[l] \in Int
  BY <1>7, <1>20 DEF SaleTypes, LineRow
<1>22. row \in [P -> Line \ P]
  BY <1>6, <1>15
<1>23. ASSUME NEW p \in P PROVE f[row[p]] = 0 /\ g[p] + g[row[p]] = f[p]
  <2>1. row[p] \in Line /\ p \in Line /\ p \in D
    BY <1>6, <1>15
  <2>2. f[row[p]] = 0
    BY <1>15, <1>20, <2>1 DEF Summed
  <2>3. lines'[p] = [order |-> from, qty |-> lines[p].qty - parts[p]]
    BY <1>6, <2>1 DEF Parted
  <2>4. lines'[row[p]] = [order |-> new, qty |-> parts[p]]
    BY <1>6, <2>1 DEF Parted
  <2>5. g[p] = f[p] - parts[p] /\ g[row[p]] = parts[p]
    BY <1>20, <2>1, <2>3, <2>4
  <2>6. f[p] \in Int /\ parts[p] \in Int
    BY <1>6, <1>21, <2>1
  <2> QED
    BY <2>2, <2>5, <2>6
<1>24. ASSUME NEW l \in Line \ P, \A p \in P : row[p] # l PROVE g[l] = f[l]
  <2>1. CASE l \in D
    <3>1. lines'[l] = [order |-> new, qty |-> lines[l].qty]
      BY <1>6, <1>24, <2>1 DEF Parted
    <3> QED
      BY <1>20, <3>1
  <2>2. CASE l \notin D
    <3>1. lines'[l] = lines[l]
      BY <1>6, <1>24, <2>2 DEF Parted
    <3> QED
      BY <1>20, <3>1
  <2> QED
    BY <2>1, <2>2
<1>25. \A p, q \in P : row[p] = row[q] => p = q
  BY <1>6
<1>26. SumFunctionOnSet(f, Line) = SumFunctionOnSet(g, Line)
  BY ONLY <1>21, <1>22, <1>23, <1>24, <1>25, FiniteLines, SumMoved
<1> QED
  BY <1>10, <1>17, <1>18, <1>19, <1>26 DEF Summed

LEMMA KeptStep ==
  ASSUME Working, Owned, Summed, [Next]_vars
  PROVE  Owned' /\ Summed'
<1>1. CASE UNCHANGED <<orders, lines, ordered>>
  BY <1>1 DEF Owned, Counted, Summed, Qty
<1>2. ASSUME NEW w \in Worker,
             \/ \E r \in Request : Begin(w, r)
             \/ Advance(w) \/ Refuse(w) \/ Abort(w)
             \/ CreateZone(w) \/ UpdateZone(w) \/ CreateTable(w) \/ UpdateTable(w)
      PROVE  UNCHANGED <<orders, lines, ordered>>
  BY <1>2 DEF Begin, Advance, Refuse, Abort, CreateZone, UpdateZone, CreateTable, UpdateTable,
              saleVars
<1>3. CASE UNCHANGED vars
  BY <1>1, <1>3 DEF vars, saleVars
<1>4. CASE Next
  <2>1. PICK w \in Worker : \/ \E r \in Request : Begin(w, r)
                            \/ Advance(w) \/ Refuse(w) \/ Abort(w) \/ Commit(w)
    BY <1>4 DEF Next
  <2> QED
    BY <1>1, <1>2, <2>1, OrderKeeps, AddLineKeeps, MergeKeeps, SplitKeeps DEF Commit
<1> QED
  BY <1>3, <1>4

\* What the plan shows and what is settled are the lines of disjoint sets of
\* orders, and the lines of no other order hold anything.
LEMMA KeptUnits == Working /\ Owned /\ Summed => UnitsKept
<1> SUFFICES ASSUME Working, Owned, Summed PROVE UnitsKept
  OBVIOUS
<1>1. SaleTypes /\ OneDraft /\ orders \in [Order -> OrderRow] /\ lines \in [Line -> LineRow]
  BY DEF Working, SaleTypes
<1>2. PICK q : q = Qty
  OBVIOUS
<1>3. \A l \in Line : q[l] \in Int /\ q[l] = lines[l].qty
  BY <1>1, <1>2, QtyIsInt
<1> DEFINE O(l) == lines[l].order
           Open == {l \in Line : O(l) \in Order /\ orders[O(l)].status = "draft"}
           Done == {o \in Order : orders[o].status = "paid" \/ orders[o].why = "void"}
           Busy == {t \in Table : Plan[t].status # "free"}
           total == [t \in Table |-> Plan[t].total]
           units == [o \in Order |-> Units(o)]
           place == [l \in Line |-> IF l \in Open THEN orders[O(l)].table ELSE None]
           owner == [l \in Line |-> O(l)]
<1>4. Busy = {t \in Table : Drafts(t) # {}}
  <2>1. \A t \in Table : Drafts(t) # {} => FloorRow(t) # None
    BY RoomAssumption DEF FloorRow, Drafts
  <2>2. \A t \in Table : Drafts(t) = {} => FloorRow(t) = None
    BY DEF FloorRow
  <2>3. \A t \in Table : Plan[t].status = IF FloorRow(t) = None THEN "free"
                            ELSE IF orders[FloorRow(t)].bill THEN "bill" ELSE "open"
    BY DEF Plan
  <2> QED
    BY <2>1, <2>2, <2>3
<1>5. Grouped(total, q, Line, place, Busy)
  <2> SUFFICES ASSUME NEW t \in Busy
               PROVE  total[t] = SumFunctionOnSet(q, {l \in Line : place[l] = t})
    BY DEF Grouped
  <2>1. t \in Table /\ t # None /\ Drafts(t) # {}
    BY <1>4, RoomAssumption
  <2>2. PICK o : o = FloorRow(t)
    OBVIOUS
  <2>3. o \in Drafts(t) /\ o # None
    BY <2>1, <2>2, RoomAssumption DEF FloorRow, Drafts
  <2>4. total[t] = Units(o)
    BY <2>1, <2>2, <2>3 DEF Plan
  <2>5. \A p \in Drafts(t) : p = o
    BY <1>1, <2>1, <2>3 DEF OneDraft
  <2>6. LinesOf(o) = {l \in Line : place[l] = t}
    BY <2>1, <2>3, <2>5 DEF LinesOf, Drafts
  <2> QED
    BY <1>2, <2>4, <2>6 DEF Units, Qty
<1>6. Grouped(units, q, Line, owner, Done)
  <2> SUFFICES ASSUME NEW o \in Done
               PROVE  units[o] = SumFunctionOnSet(q, {l \in Line : owner[l] = o})
    BY DEF Grouped
  <2>1. LinesOf(o) = {l \in Line : owner[l] = o}
    BY DEF LinesOf
  <2>2. units[o] = Units(o)
    OBVIOUS
  <2> QED
    BY <1>2, <2>1, <2>2 DEF Units, Qty
<1>7. Keyed(Line, place, Busy) = Open
  <2>1. ASSUME NEW l \in Open PROVE place[l] \in Busy
    <3>1. PICK o \in Order : o = O(l) /\ orders[o].status = "draft"
      OBVIOUS
    <3>2. orders[o].table \in Table
      BY <1>1, <3>1 DEF SaleTypes, OrderRow
    <3>3. o \in Drafts(orders[o].table)
      BY <3>1 DEF Drafts
    <3> QED
      BY <1>4, <3>1, <3>2, <3>3
  <2>2. \A l \in Line \ Open : place[l] \notin Busy
    BY <1>4, RoomAssumption
  <2> QED
    BY <2>1, <2>2 DEF Keyed
<1>8. PICK Settled : Settled = Keyed(Line, owner, Done)
  OBVIOUS
<1>9. Settled \in SUBSET Line /\ Open \in SUBSET Line /\ Open \union Settled \in SUBSET Line
  BY <1>8 DEF Keyed
<1>10. Open \intersect Settled = {}
  <2> SUFFICES ASSUME NEW l \in Open, l \in Settled PROVE FALSE
    OBVIOUS
  <2>1. O(l) \in Order /\ orders[O(l)].status = "draft"
    OBVIOUS
  <2>2. orders[O(l)].why = None
    BY <1>1, <2>1 DEF SaleTypes
  <2> QED
    BY <1>8, <2>1, <2>2, RoomAssumption DEF Keyed
<1>11. \A l \in Line \ (Open \union Settled) : q[l] = 0
  <2> SUFFICES ASSUME NEW l \in Line, l \notin Open, l \notin Settled PROVE q[l] = 0
    OBVIOUS
  <2>1. O(l) = None
    <3> SUFFICES ASSUME O(l) # None PROVE FALSE
      OBVIOUS
    <3>1. PICK o \in Order : o = O(l)
      BY <1>1 DEF LineRow
    <3>2. Counted(o)
      BY <3>1 DEF Owned
    <3> QED
      BY <1>8, <3>1, <3>2 DEF Counted, Keyed
  <2> QED
    BY <1>3, <2>1 DEF Summed
<1>12. IsFiniteSet(Busy) /\ IsFiniteSet(Done)
  <2>1. IsFiniteSet(Table)
    BY FS_Interval, RoomAssumption DEF Table
  <2>2. Busy \in SUBSET Table /\ Done \in SUBSET Order
    OBVIOUS
  <2> HIDE DEF Busy, Done
  <2> QED
    BY <2>1, <2>2, FiniteOrders, FS_Subset
<1>13. UnitsKept <=> SumFunctionOnSet(total, Busy) + SumFunctionOnSet(units, Done) = ordered
  BY DEF UnitsKept, SettledUnits
<1>14. SumFunctionOnSet(q, Line) = ordered
  BY <1>2 DEF Summed
<1>15. \A l \in Line : q[l] \in Int
  BY <1>3
<1> HIDE DEF Open, Done, Busy, total, units, place, owner
<1>16. SumFunctionOnSet(total, Busy) = SumFunctionOnSet(q, Open)
  <2>1. SumFunctionOnSet(total, Busy) = SumFunctionOnSet(q, Keyed(Line, place, Busy))
    BY ONLY <1>5, <1>12, <1>15, FiniteLines, SumGroups
  <2> QED
    BY <1>7, <2>1
<1>17. SumFunctionOnSet(units, Done) = SumFunctionOnSet(q, Settled)
  <2>1. SumFunctionOnSet(units, Done) = SumFunctionOnSet(q, Keyed(Line, owner, Done))
    BY ONLY <1>6, <1>12, <1>15, FiniteLines, SumGroups
  <2> QED
    BY <1>8, <2>1
<1>18. SumFunctionOnSet(q, Open \union Settled)
         = SumFunctionOnSet(q, Open) + SumFunctionOnSet(q, Settled)
  <2>1. IsFiniteSet(Open) /\ IsFiniteSet(Settled)
    BY <1>9, FiniteLines
  <2>2. \A l \in Open \union Settled : q[l] \in Int
    BY <1>9, <1>15
  <2> QED
    BY ONLY <1>10, <2>1, <2>2, SumUnion
<1>19. SumFunctionOnSet(q, Line) = SumFunctionOnSet(q, Open \union Settled)
  <2>1. Open \union Settled \in SUBSET Line
    BY <1>9
  <2> QED
    BY ONLY <1>11, <1>15, <2>1, FiniteLines, SumSkips
<1> QED
  BY <1>13, <1>14, <1>16, <1>17, <1>18, <1>19

\* Whatever transfers, merges, splits, charges and voids meet, the totals of
\* the plan and what was charged or voided by hand are all that was ordered.
THEOREM UnitsKeptHolds == Spec => []UnitsKept
<1>1. Init => Owned /\ Summed
  BY KeptInit
<1>2. Working /\ Owned /\ Summed /\ [Next]_vars => Owned' /\ Summed'
  BY KeptStep
<1>3. Spec => [](Owned /\ Summed)
  BY <1>1, <1>2, WorkingHolds, PTL DEF Spec
<1> QED
  BY <1>3, WorkingHolds, KeptUnits, PTL

=============================================================================
