------------------------------- MODULE Ledger -------------------------------
(***************************************************************************)
(* What the till promises, without requests, transactions or locks: a book *)
(* of receipts for each terminal, the cash in each drawer, and an answer   *)
(* for each key.  Each step happens at once; receipts, drawers and answers *)
(* change together or not at all.                                          *)
(*                                                                         *)
(* A receipt that a step writes is the one its next state has (no step     *)
(* enumerates amounts), so that the module constrains amounts without      *)
(* bounding them.                                                          *)
(***************************************************************************)
EXTENDS Integers, Sequences

CONSTANTS Order, Session, Terminal, Key, None,
          OrderTerminal,    \* the terminal an order is sold at
          SessionTerminal   \* the terminal whose drawer a session counts

VARIABLES
  receipt,    \* the session, the units, the total and the cash of a receipt
  book,       \* the receipts of a terminal in the order of their numbers
  returned,   \* the receipt that gives a sale back
  cancelled,  \* receipts that were voided
  till,       \* the session open at a terminal
  cash,       \* the cash in the drawer of a session
  zeta,       \* what the Z of a session says there should be
  answer      \* the answer kept for a key, and the effects it answers for

ledgerVars == <<receipt, book, returned, cancelled, till, cash, zeta, answer>>

Init ==
  /\ receipt   = [o \in Order |-> None]
  /\ book      = [t \in Terminal |-> <<>>]
  /\ returned  = [o \in Order |-> None]
  /\ cancelled = {}
  /\ till      = [t \in Terminal |-> None]
  /\ cash      = [s \in Session |-> None]
  /\ zeta      = [s \in Session |-> None]
  /\ answer    = [k \in Key |-> None]

\* A key answers one request until it is forgotten; a request may have none.
Answer(n) ==
  \/ UNCHANGED answer
  \/ \E k \in Key :
       /\ answer[k] = None
       /\ answer' = [answer EXCEPT ![k] = [text |-> n, effects |-> 1]]

\* The next number of the terminal of o is o's.
Enter(o) ==
  LET t == OrderTerminal[o]
      r == receipt'[o]
  IN  /\ receipt[o] = None /\ r # None
      /\ receipt' = [receipt EXCEPT ![o] = r]
      /\ book'    = [book EXCEPT ![t] = Append(@, o)]
      /\ till[t] # None /\ r.session = till[t]
      /\ r.total = r.units

\* A sale: the cash of its payments goes into the drawer.
Sell(o) ==
  LET r == receipt'[o]
  IN  /\ Enter(o)
      /\ r.total > 0 /\ r.cash \in 0..r.total
      /\ cash' = [cash EXCEPT ![r.session] = @ + r.cash]
      /\ Answer(Len(book'[OrderTerminal[o]]))
      /\ UNCHANGED <<returned, cancelled, till, zeta>>

\* A sale is given back once, by a receipt of its terminal, and never a voided
\* one; what is given back in cash leaves the drawer.  How much may be given
\* back is not said here.
GiveBack(o, n) ==
  LET r == receipt'[n]
  IN  /\ receipt[o] # None /\ receipt[o].total > 0
      /\ returned[o] = None /\ o \notin cancelled
      /\ OrderTerminal[n] = OrderTerminal[o]
      /\ Enter(n)
      /\ r.total < 0 /\ r.cash \in 0..(-r.total)
      /\ returned' = [returned EXCEPT ![o] = n]
      /\ cash' = [cash EXCEPT ![r.session] = @ - r.cash]
      /\ UNCHANGED <<cancelled, till, zeta, answer>>

\* Voiding leaves the receipt, its number and its cash as they are.
Cancel(o) ==
  /\ receipt[o] # None /\ o \notin cancelled
  /\ cancelled' = cancelled \union {o}
  /\ UNCHANGED <<receipt, book, returned, till, cash, zeta, answer>>

OpenTill(s) ==
  LET t == SessionTerminal[s]
  IN  /\ till[t] = None /\ cash[s] = None
      /\ till' = [till EXCEPT ![t] = s]
      /\ cash' = [cash EXCEPT ![s] = cash'[s]]
      /\ cash'[s] # None /\ cash'[s] >= 0
      /\ Answer(0)
      /\ UNCHANGED <<receipt, book, returned, cancelled, zeta>>

\* Money put in or taken out by hand.
MoveCash(s) ==
  /\ till[SessionTerminal[s]] = s
  /\ cash' = [cash EXCEPT ![s] = cash'[s]]
  /\ Answer(0)
  /\ UNCHANGED <<receipt, book, returned, cancelled, till, zeta>>

\* The Z says what is in the drawer at that moment; nothing moves it later.
CloseTill(s) ==
  LET t == SessionTerminal[s]
  IN  /\ till[t] = s
      /\ till' = [till EXCEPT ![t] = None]
      /\ zeta' = [zeta EXCEPT ![s] = cash[s]]
      /\ UNCHANGED <<receipt, book, returned, cancelled, cash, answer>>

\* A request that writes no receipt and moves no cash (a new order, a line).
Note == Answer(0) /\ UNCHANGED <<receipt, book, returned, cancelled, till, cash, zeta>>

Forget(k) ==
  /\ answer[k] # None
  /\ answer' = [answer EXCEPT ![k] = None]
  /\ UNCHANGED <<receipt, book, returned, cancelled, till, cash, zeta>>

Next ==
  \/ \E o \in Order : Sell(o) \/ Cancel(o) \/ \E n \in Order : GiveBack(o, n)
  \/ \E s \in Session : OpenTill(s) \/ MoveCash(s) \/ CloseTill(s)
  \/ Note
  \/ \E k \in Key : Forget(k)

Spec == Init /\ [][Next]_ledgerVars
=============================================================================
