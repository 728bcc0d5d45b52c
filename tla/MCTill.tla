------------------------------- MODULE MCTill -------------------------------
(***************************************************************************)
(* Small instances of Till.  The configurations share the vocabulary below *)
(* and differ in the set of requests that clients send.                    *)
(***************************************************************************)
EXTENDS TillInv, TillLedger, TLC

CONSTANTS w1, w2, w3, t1, t2, o1, o2, o3, o4, s1, s2, b1, k1, k2

Workers == Permutations(Worker)

Order_OneTill    == [o \in Order |-> t1]
Session_OneTill  == [s \in Session |-> t1]
Order_TwoTills   == [o \in Order |-> IF o = o3 THEN t2 ELSE t1]
Session_TwoTills == [s \in Session |-> IF s = s2 THEN t2 ELSE t1]

OpenReq(k, t, n) == [op |-> "open_session", key |-> k, term |-> t, opening |-> n]
CreateReq(k, t, b) == [op |-> "create_order", key |-> k, term |-> t, table |-> b]
AddReq(k, o, n) == [op |-> "add_line", key |-> k, order |-> o, qty |-> n]
UpdateReq(o, l, n) == [op |-> "update_line", key |-> None, order |-> o, line |-> l, qty |-> n]
RemoveReq(o, l) == [op |-> "remove_line", key |-> None, order |-> o, line |-> l]
ChargeReq(k, o, s, cash, card) ==
  [op |-> "close_order", key |-> k, order |-> o, sess |-> s, cash |-> cash, card |-> card]
VoidReq(o) == [op |-> "void_order", key |-> None, order |-> o]
RefundReq(o, s, items, cash, card) ==
  [op |-> "refund_order", key |-> None, order |-> o, sess |-> s,
   items |-> items, cash |-> cash, card |-> card]
Item(l, n) == [line |-> l, qty |-> n]
MoveReq(k, s, n) == [op |-> "add_movement", key |-> k, sess |-> s, amount |-> n]
CountReq(s, n) == [op |-> "add_count", key |-> None, sess |-> s, counted |-> n]
ZReq(s, n) == [op |-> "close_session", key |-> None, sess |-> s, counted |-> n]

\* One order whose lines are edited while two devices charge what they last
\* saw, in cash and by card; then voids, partial and full refunds, and the
\* refund of a refund; and the drawer they are charged in, with a movement, a
\* count, the Z and the next session of the same till.
Request_Sell ==
  {OpenReq(None, t1, 1), CreateReq(None, t1, None),
   AddReq(None, o1, 1), AddReq(k1, o1, 2), UpdateReq(o1, 1, 2), RemoveReq(o1, 1),
   ChargeReq(k1, o1, s1, 1, 0), ChargeReq(k2, o1, s1, 1, 1),
   VoidReq(o1), VoidReq(o2),
   RefundReq(o1, s1, <<Item(1, 1)>>, 1, 0), RefundReq(o1, s1, <<Item(1, 2)>>, 1, 1),
   RefundReq(o2, s1, <<Item(1, 1)>>, 1, 0),
   MoveReq(k2, s1, -1), CountReq(s1, 0), ZReq(s1, 1)}

\* Two tills and a table: births, charges, refunds and a Z that meet at tables,
\* orders, sessions, series and keys.
Request_Meet ==
  {OpenReq(None, t1, 0), OpenReq(None, t2, 0),
   CreateReq(None, t1, b1), CreateReq(k1, t1, b1), CreateReq(k2, t2, None),
   AddReq(None, o1, 1), AddReq(None, o2, 1), AddReq(None, o3, 1),
   ChargeReq(k1, o1, s1, 1, 0), ChargeReq(k1, o2, s1, 0, 1), ChargeReq(k2, o3, s2, 0, 1),
   RefundReq(o1, s1, <<Item(1, 1)>>, 1, 0), ZReq(s1, 0)}

\* One worker is enough: a refund that lists the same line twice.
Request_OverRefund ==
  {OpenReq(None, t1, 0), CreateReq(None, t1, None), AddReq(None, o1, 1),
   ChargeReq(k1, o1, s1, 1, 0),
   RefundReq(o1, s1, <<Item(1, 1)>>, 1, 0), RefundReq(o1, s1, <<Item(1, 1), Item(1, 1)>>, 2, 0)}

\* A charge and its retry at the same time.
Request_Replay ==
  {OpenReq(None, t1, 0), CreateReq(None, t1, None), AddReq(None, o1, 1),
   ChargeReq(k1, o1, s1, 1, 0)}

=============================================================================
