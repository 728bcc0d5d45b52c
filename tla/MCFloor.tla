------------------------------ MODULE MCFloor ------------------------------
(***************************************************************************)
(* A small instance of Floor: the room at work, its bills, and the room    *)
(* being laid out while tables are opened.                                 *)
(***************************************************************************)
EXTENDS Floor, TLC

CONSTANTS w1, w2, z1, z2, n1, n2

Workers == Permutations(Worker)

TwoOfThree == <<n1, n2, None>>

Open(t, n)     == [op |-> "open_table", table |-> t, guests |-> n]
Add(o, n)      == [op |-> "add_line", order |-> o, qty |-> n]
Guests(o, n)   == [op |-> "update_session", order |-> o, guests |-> n]
On(op, o)      == [op |-> op, order |-> o]
Move(op, t, u) == [op |-> op, table |-> t, target |-> u]
Split(t, u, p) == [op |-> "split_table", table |-> t, target |-> u, parts |-> p]
NewZone(z)     == [op |-> "create_zone", zone |-> z]
SetZone(z, a)  == [op |-> "update_zone", zone |-> z, active |-> a]
NewTable(t, z, n)    == [op |-> "create_table", table |-> t, zone |-> z, name |-> n]
SetTable(t, z, n, a) == [op |-> "update_table", table |-> t, zone |-> z, name |-> n, active |-> a]

\* Two tables that order and are charged while they move onto each other.
Moves ==
  {Open(1, 0), Open(2, 1), Add(1, 2), Add(2, 1), On("close_order", 1), On("void_order", 2),
   Move("transfer_table", 1, 2), Move("merge_tables", 2, 1), Move("merge_tables", 1, 2),
   Split(1, 2, 1 :> 1)}

\* A whole line goes with part of another, and the bill is asked for and forgotten.
Bills ==
  {Open(1, 1), Add(1, 2), Add(1, 1), Split(1, 2, 1 :> 1 @@ 2 :> 1), On("close_order", 2),
   On("request_bill", 1), On("cancel_bill", 1), Guests(1, 0), Move("merge_tables", 2, 1)}

\* Zones and tables are created, renamed, moved and retired.
Layout ==
  {Open(2, 0), Move("transfer_table", 2, 3), NewZone(z2), SetZone(z1, FALSE), SetZone(z2, FALSE),
   NewTable(3, z2, n2), SetTable(2, None, None, FALSE), SetTable(2, None, None, TRUE),
   SetTable(3, z1, None, TRUE), SetTable(1, z2, n1, FALSE)}

Scenes == {Moves, Bills, Layout}
=============================================================================
