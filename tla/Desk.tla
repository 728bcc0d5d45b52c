-------------------------------- MODULE Desk --------------------------------
(***************************************************************************)
(* The rows the back office edits, and how its handlers edit them.         *)
(*                                                                         *)
(* No handler of the office locks what it reads.  It checks the request    *)
(* against the rows it finds, keeps the row it is going to change, and     *)
(* writes in a transaction whose effects are seen at its commit: between   *)
(* the two, other handlers commit.  What the object-relational mapper then *)
(* writes of a row is the attributes whose new value differs from the one  *)
(* it read.  A handler that replaces rows of another table (the barcodes   *)
(* of a product, the buttons of a panel) replaces those that its second    *)
(* statement found, which Gather runs.                                     *)
(*                                                                         *)
(* A table is a sequence: a row is its position, and is never used again;  *)
(* a row deleted is None.                                                  *)
(***************************************************************************)
EXTENDS Integers, Sequences, FiniteSets, TLC

CONSTANTS
  Handler,    \* requests that run at the same time
  First,      \* the rows of each table when the behaviour starts
  DeskScene,  \* sets of requests; a behaviour sends those of one of them,
              \* each any number of times
  MaxRows,    \* bound: rows ever written to each table
  None        \* SQL NULL, no row, no request

VARIABLES
  rows,   \* the tables
  asks,   \* the requests sent in this behaviour
  req,    \* the request a handler runs, None when idle
  seen    \* the row it read; the rows it found to replace, None until it looks

deskVars == <<rows, asks, req, seen>>

Table == DOMAIN First
Request == UNION DeskScene
Unread == [row |-> None, old |-> None]

ASSUME DeskAssumption ==
  /\ IsFiniteSet(Handler) /\ MaxRows \in [Table -> Nat]
  /\ \A t \in Table : First[t] \in Seq({First[t][i] : i \in DOMAIN First[t]}) /\ Len(First[t]) <= MaxRows[t]
  /\ None \notin Request /\ None \notin Int

DeskInit ==
  /\ rows = First
  /\ asks \in DeskScene
  /\ req  = [h \in Handler |-> None]
  /\ seen = [h \in Handler |-> Unread]

-----------------------------------------------------------------------------
(* What a SELECT finds. *)

Ids(t)       == {i \in DOMAIN rows[t] : rows[t][i] # None}
Exists(t, i) == i \in Ids(t)
Where(t, k, v) == {i \in Ids(t) : rows[t][i][k] = v}

-----------------------------------------------------------------------------
(* The unique indexes.  Two indexes are partial: a product has one price    *)
(* with no end, and NULL is no SKU.                                         *)

SecurityKey == [users |-> {"name"}, roles |-> {"code"}, terminals |-> {"code"},
                grants |-> {"role", "perm"}]
CatalogKey == [departments |-> {"code"}, tiers |-> {"code"}, methods |-> {"code"},
               products |-> {"sku"}, prices |-> {"product", "to"}, barcodes |-> {"code"},
               tierPrices |-> {"product", "tier"}, taxes |-> {"code", "from"}]
Key == [t \in DOMAIN SecurityKey \union DOMAIN CatalogKey |->
         IF t \in DOMAIN CatalogKey THEN CatalogKey[t] ELSE SecurityKey[t]]

Indexed(t, row) ==
  /\ t \in DOMAIN Key /\ row # None
  /\ t = "products" => row.sku # None
  /\ t = "prices" => row.to = None

\* The entry of a row in the index of its table.
Entry(t, row) == [k \in Key[t] |-> row[k]]

\* Mutant: the index on the price in force is missing.
NoClash_ManyPrices(table, t) ==
  \A i, j \in DOMAIN table :
    i # j /\ t # "prices" /\ Indexed(t, table[i]) /\ Indexed(t, table[j])
      => Entry(t, table[i]) # Entry(t, table[j])

NoClash(table, t) ==
  \A i, j \in DOMAIN table :
    i # j /\ Indexed(t, table[i]) /\ Indexed(t, table[j])
      => Entry(t, table[i]) # Entry(t, table[j])

-----------------------------------------------------------------------------
(* The steps of a handler. *)

Running(h, op) == req[h] # None /\ req[h].op = op

Begin(h, r, row) ==
  /\ req[h] = None /\ r \in asks
  /\ req'  = [req EXCEPT ![h] = r]
  /\ seen' = [seen EXCEPT ![h] = [row |-> row, old |-> None]]
  /\ UNCHANGED <<rows, asks>>

Gather(h, old) ==
  /\ seen[h].old = None
  /\ seen' = [seen EXCEPT ![h].old = old]
  /\ UNCHANGED <<rows, asks, req>>

Leave(h) ==
  /\ req'  = [req EXCEPT ![h] = None]
  /\ seen' = [seen EXCEPT ![h] = Unread]
  /\ UNCHANGED asks

\* An error, a lost connection or the IntegrityError of a unique index.
Rollback(h) == req[h] # None /\ Leave(h) /\ UNCHANGED rows

\* A transaction commits when no index refuses what it wrote.
Commit(h, tables) ==
  /\ \A t \in Table : tables[t] # rows[t] => Len(tables[t]) <= MaxRows[t] /\ NoClash(tables[t], t)
  /\ rows' = tables
  /\ Leave(h)

\* Mutant: the row is written as it was read.
Patched_WholeRow(row, read, fields) ==
  [k \in DOMAIN row |-> IF k \in DOMAIN fields THEN fields[k] ELSE read[k]]

Patched(row, read, fields) ==
  [k \in DOMAIN row |-> IF k \in DOMAIN fields /\ fields[k] # read[k] THEN fields[k] ELSE row[k]]

\* The table without the rows its handler found to replace.
Kept(h, t) == [i \in DOMAIN rows[t] |-> IF <<t, i>> \in seen[h].old THEN None ELSE rows[t][i]]

Insert(h, t, row)    == Commit(h, [rows EXCEPT ![t] = Append(@, row)])
Update(h, t, fields) == Commit(h, [rows EXCEPT ![t][req[h].id] = Patched(@, seen[h].row, fields)])

\* The tables keep their shape, and nothing that a handler read is left when
\* its request ends: each request has a session of the mapper of its own.
DeskTypeOK ==
  /\ DOMAIN rows = Table
  /\ \A t \in Table : Len(rows[t]) <= MaxRows[t]
  /\ asks \in DeskScene
  /\ req \in [Handler -> Request \union {None}]
  /\ \A h \in Handler : req[h] = None => seen[h] = Unread
=============================================================================
