----------------------------- MODULE TillLedger ------------------------------
(***************************************************************************)
(* The handlers of Till, with their statements, locks, retries and         *)
(* crashes, implement Ledger: the rows read as its book.                   *)
(***************************************************************************)
EXTENDS Till

\* NULL is no receipt, no amount and no answer.
ASSUME NullAssumption ==
  /\ None \notin [session : Session, units : Int, total : Int, cash : Nat]
  /\ None \notin Int
  /\ None \notin [text : Nat, effects : Nat]

\* A settled order is a receipt; its units are what its lines add up to now.
Receipt(o) ==
  IF Settled(o)
    THEN [session |-> orders[o].sess, units |-> LineSum(lines[o]), total |-> orders[o].total,
          cash |-> payments[o].cash]
    ELSE None

\* The order that holds the number n of the terminal t, alone.
Numbered(t, n) ==
  LET holders == {o \in Order : OrderTerminal[o] = t /\ tickets[o] = n}
  IN  IF Cardinality(holders) = 1 THEN CHOOSE o \in holders : TRUE ELSE None

\* The session open at the terminal t.
OpenAt(t) ==
  LET open == {s \in Session : sessions[s].status = "open" /\ SessionTerminal[s] = t}
  IN  IF open = {} THEN None ELSE CHOOSE s \in open : TRUE

Receipts  == [o \in Order |-> Receipt(o)]
Books     == [t \in Terminal |-> [n \in 1..sequences[t] |-> Numbered(t, n)]]
Cancelled == {o \in Order : Settled(o) /\ orders[o].status = "voided"}
Tills     == [t \in Terminal |-> OpenAt(t)]
Cash      == [s \in Session |-> IF sessions[s].status = "none" THEN None ELSE Expected(s)]
Zetas     == [s \in Session |-> IF sessions[s].status = "closed" THEN expected[s] ELSE None]

\* The answer kept for a key, and how many effects stand behind it.
Answers ==
  [k \in Key |->
    IF keys[k] = None THEN None ELSE [text |-> keys[k].answer, effects |-> applied[k]]]

L == INSTANCE Ledger WITH
  receipt <- Receipts, book <- Books, returned <- refunds, cancelled <- Cancelled,
  till <- Tills, cash <- Cash, zeta <- Zetas, answer <- Answers

\* Charges, refunds, voids, movements and closings are atomic, whatever they
\* interleave with and wherever they fail: every commit is one entry of the
\* ledger, with the next number of its terminal, the cash of its payments in
\* the one open drawer of that terminal, and one answer under its key; every
\* other step of a handler leaves the ledger alone.
ImplementsLedger == L!Spec
=============================================================================
