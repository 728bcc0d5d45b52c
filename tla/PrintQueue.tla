----------------------------- MODULE PrintQueue -----------------------------
(***************************************************************************)
(* The print queue: services/printing.py over the rows of repos/printing.  *)
(* Dispatchers run one transaction each: they take failed jobs whose time  *)
(* has come back into the queue, claim queued ones with SKIP LOCKED, hand  *)
(* them to the printer, and commit.  What the printer was given stays      *)
(* given when the transaction rolls back.  Operators and the agent change  *)
(* one row under its lock.                                                 *)
(*                                                                         *)
(* A job is its place in created_at order.  One printer; payloads, kinds   *)
(* and the dedupe key of the document are left out.                        *)
(***************************************************************************)
EXTENDS Naturals, FiniteSets

CONSTANTS
  Worker,      \* dispatchers that run at the same time
  MaxJob,      \* bound: jobs
  Limit,       \* limit of POST /printing/dispatch
  Window,      \* failed rows a dispatch looks at, limit * 3
  MaxAttempts  \* MAX_ATTEMPTS

ASSUME PrintAssumption ==
  /\ IsFiniteSet(Worker)
  /\ MaxJob \in Nat /\ MaxAttempts \in Nat \ {0}
  /\ Limit \in Nat \ {0} /\ Window \in Nat /\ Window >= Limit

Job == 1..MaxJob

VARIABLES
  jobs,    \* print_jobs: status ("none" without a row) and attempts
  sentAt,  \* print_jobs.sent_at, as a rank among the times in use
  due,     \* jobs whose backoff has elapsed since sent_at
  active,  \* printers.active
  held,    \* the rows a dispatcher has locked
  draft,   \* the rows as its transaction has written them
  todo,    \* the jobs it has claimed and not yet attempted, Unclaimed before that
  now,     \* the time it started, as a rank
  sends,   \* observer: times the printer was given a job in its current cycle
  lost,    \* observer: jobs of this cycle given by a dispatch that rolled back
  alerts   \* observer: committed printer_down events of a job's current cycle

rowVars  == <<jobs, sentAt, due, active>>
workVars == <<held, draft, todo, now>>
seenVars == <<sends, lost, alerts>>
vars     == <<rowVars, workVars, seenVars>>

NoJob   == [status |-> "none", attempts |-> 0]
NoDraft == [j \in Job |-> NoJob]
Unclaimed == {0}

Init ==
  /\ jobs   = NoDraft
  /\ sentAt = [j \in Job |-> 0]
  /\ due    = {}
  /\ active = TRUE
  /\ held   = [w \in Worker |-> {}]
  /\ draft  = [w \in Worker |-> NoDraft]
  /\ todo   = [w \in Worker |-> Unclaimed]
  /\ now    = [w \in Worker |-> 0]
  /\ sends  = [j \in Job |-> 0]
  /\ lost   = {}
  /\ alerts = [j \in Job |-> 0]

-----------------------------------------------------------------------------
(* The rows. *)

Terminal == {"printed", "cancelled"}

\* _VALID_TRANSITIONS.
Transitions ==
  [none |-> {}, queued |-> {"sent", "failed", "cancelled"},
   sent |-> {"printed", "failed", "cancelled"}, failed |-> {"queued", "cancelled"},
   printed |-> {}, cancelled |-> {}]

CanTransition(from, to) == to \in Transitions[from]

\* Mutant: FOR UPDATE SKIP LOCKED without the lock.
Unlocked_All(w) == Job

\* The rows that w does not skip, or need not wait for.
Unlocked(w) == {j \in Job : \A v \in Worker \ {w} : j \notin held[v]}

\* No dispatcher holds the row.
Free(j) == \A v \in Worker : j \notin held[v]

\* ORDER BY sent_at LIMIT n: ties are broken in any way.
Oldest(S, n) ==
  {W \in SUBSET S :
     /\ Cardinality(W) = IF Cardinality(S) < n THEN Cardinality(S) ELSE n
     /\ \A j \in W, k \in S \ W : sentAt[j] <= sentAt[k]}

\* ORDER BY created_at LIMIT n.
FirstIn(S, n) == {j \in S : Cardinality({k \in S : k < j}) < n}

\* attempts < MAX_ATTEMPTS and retry_due.
Retriable(j) == jobs[j].attempts < MaxAttempts /\ j \in due

-----------------------------------------------------------------------------
(* dispatch_pending. *)

Dispatching(w) == now[w] # 0

\* Times in use, oldest first, are 0, 1, 2... again.
Times   == {sentAt[j] : j \in Job} \union {now[v] : v \in Worker} \union {0}
Rank(t) == Cardinality({u \in Times : u < t})

\* The time is taken, failed_jobs locks the oldest failed rows, as many as
\* the window shows, and those that may go back to the queue.
Start(w) ==
  /\ ~Dispatching(w)
  /\ \E rows \in Oldest({j \in Unlocked(w) : jobs[j].status = "failed"}, Window) :
       /\ held'  = [held EXCEPT ![w] = rows]
       /\ draft' = [draft EXCEPT ![w] =
            [j \in Job |-> IF j \notin rows THEN NoJob
                           ELSE IF Retriable(j) THEN [jobs[j] EXCEPT !.status = "queued"]
                           ELSE jobs[j]]]
  /\ sentAt' = [j \in Job |-> Rank(sentAt[j])]
  /\ now'    = [v \in Worker |-> IF v = w THEN Cardinality(Times) ELSE Rank(now[v])]
  /\ UNCHANGED <<jobs, due, active, todo, seenVars>>

\* The row as the transaction of w sees it.
Seen(w, j) == IF j \in held[w] THEN draft[w][j] ELSE jobs[j]

\* claimable_jobs: the first queued rows that nobody else holds.
Claim(w) ==
  /\ Dispatching(w) /\ todo[w] = Unclaimed
  /\ LET rows == FirstIn({j \in Unlocked(w) : Seen(w, j).status = "queued"}, Limit)
     IN  /\ todo'  = [todo EXCEPT ![w] = rows]
         /\ draft' = [draft EXCEPT ![w] =
                        [j \in Job |-> IF j \in rows THEN Seen(w, j) ELSE @[j]]]
         /\ held'  = [held EXCEPT ![w] = @ \union rows]
  /\ UNCHANGED <<rowVars, now, seenVars>>

\* mark_sent counts the attempt, whatever becomes of it.
Attempted(row, status) == [status |-> status, attempts |-> row.attempts + 1]

\* The next claimed job: an inactive printer fails it, an active one takes it
\* or raises PrinterError.
Attempt(w) ==
  /\ Dispatching(w) /\ todo[w] \notin {Unclaimed, {}}
  /\ \E j \in todo[w] :
       /\ \A k \in todo[w] : j <= k
       /\ \E status \in (IF active THEN {"sent", "failed"} ELSE {"failed"}) :
            draft' = [draft EXCEPT ![w][j] = Attempted(@, status)]
       /\ sends' = IF active THEN [sends EXCEPT ![j] = @ + 1] ELSE sends
       /\ todo'  = [todo EXCEPT ![w] = @ \ {j}]
  /\ UNCHANGED <<rowVars, held, now, lost, alerts>>

\* What this dispatch has attempted.
Tried(w) == {j \in held[w] : draft[w][j].attempts # jobs[j].attempts}

\* Mutant: the alert is for the attempt before the last.
Exhausted_Early(row) == row.status = "failed" /\ row.attempts + 1 >= MaxAttempts

\* _notify_printer_down: the attempts are spent.
Exhausted(row) == row.status = "failed" /\ row.attempts >= MaxAttempts

Finish(w) ==
  /\ held'  = [held EXCEPT ![w] = {}]
  /\ draft' = [draft EXCEPT ![w] = NoDraft]
  /\ todo'  = [todo EXCEPT ![w] = Unclaimed]
  /\ now'   = [now EXCEPT ![w] = 0]

\* The commit of the request: rows and alerts.
Commit(w) ==
  /\ Dispatching(w) /\ todo[w] = {}
  /\ jobs'   = [j \in Job |-> Seen(w, j)]
  /\ sentAt' = [j \in Job |-> IF j \in Tried(w) THEN now[w] ELSE sentAt[j]]
  /\ due'    = due \ Tried(w)
  /\ alerts' = [j \in Job |-> IF j \in Tried(w) /\ Exhausted(draft[w][j])
                              THEN alerts[j] + 1 ELSE alerts[j]]
  /\ Finish(w)
  /\ UNCHANGED <<active, sends, lost>>

\* A crash or an error before the commit: rollback.  The printer keeps what
\* it was given.  Bound: one lost dispatch per job and cycle.
Abort(w) ==
  /\ Dispatching(w)
  /\ Tried(w) \intersect lost = {}
  /\ lost' = lost \union {j \in Tried(w) : sends[j] > jobs[j].attempts}
  /\ Finish(w)
  /\ UNCHANGED <<rowVars, sends, alerts>>

-----------------------------------------------------------------------------
(* Documents, the clock, operators and the agent. *)

\* The transaction of a document commits, with its job; created_at is when it
\* began.
Enqueue(j) ==
  /\ active /\ jobs[j].status = "none"
  /\ jobs' = [jobs EXCEPT ![j].status = "queued"]
  /\ UNCHANGED <<sentAt, due, active, workVars, seenVars>>

\* retry_delay_seconds grows with the attempts: who was sent before, and not
\* more often, is due before.
BackoffElapses(j) ==
  /\ jobs[j].status = "failed" /\ j \notin due
  /\ \A k \in Job : (/\ jobs[k].status = "failed"
                     /\ sentAt[k] < sentAt[j] /\ jobs[k].attempts <= jobs[j].attempts)
                    => k \in due
  /\ due' = due \union {j}
  /\ UNCHANGED <<jobs, sentAt, active, workVars, seenVars>>

\* Mutant: the agent reports without locking the row.
MayChange_NoLock(j, to) == CanTransition(jobs[j].status, to)

\* get_job_for_update, and the transition is allowed.
MayChange(j, to) == Free(j) /\ CanTransition(jobs[j].status, to)

ConfirmPrinted(j) ==
  /\ MayChange(j, "printed")
  /\ jobs' = [jobs EXCEPT ![j].status = "printed"]
  /\ UNCHANGED <<sentAt, due, active, workVars, seenVars>>

CancelJob(j) ==
  /\ MayChange(j, "cancelled")
  /\ jobs' = [jobs EXCEPT ![j].status = "cancelled"]
  /\ UNCHANGED <<sentAt, due, active, workVars, seenVars>>

\* A new cycle of attempts.
RetryJob(j) ==
  /\ Free(j) /\ jobs[j].status = "failed"
  /\ jobs'   = [jobs EXCEPT ![j] = [status |-> "queued", attempts |-> 0]]
  /\ sends'  = [sends EXCEPT ![j] = 0]
  /\ lost'   = lost \ {j}
  /\ alerts' = [alerts EXCEPT ![j] = 0]
  /\ UNCHANGED <<sentAt, due, active, workVars>>

SetActive ==
  /\ active' = ~active
  /\ UNCHANGED <<jobs, sentAt, due, workVars, seenVars>>

Next ==
  \/ \E w \in Worker : Start(w) \/ Claim(w) \/ Attempt(w) \/ Commit(w) \/ Abort(w)
  \/ \E j \in Job : \/ Enqueue(j) \/ BackoffElapses(j)
                    \/ ConfirmPrinted(j) \/ CancelJob(j) \/ RetryJob(j)
  \/ SetActive

Spec == Init /\ [][Next]_vars

-----------------------------------------------------------------------------
(* Properties. *)

JobType == [status   : {"none", "queued", "sent", "failed"} \union Terminal,
            attempts : 0..MaxAttempts]

\* Types; the attempts of a cycle never pass MAX_ATTEMPTS.
PrintTypeOK ==
  /\ jobs \in [Job -> JobType]
  /\ sentAt \in [Job -> Nat]
  /\ due \subseteq Job /\ active \in BOOLEAN
  /\ held \in [Worker -> SUBSET Job]
  /\ draft \in [Worker -> [Job -> JobType]]
  /\ todo \in [Worker -> (SUBSET Job) \union {Unclaimed}]
  /\ now \in [Worker -> Nat]
  /\ sends \in [Job -> Nat] /\ lost \subseteq Job /\ alerts \in [Job -> Nat]

\* domain/printing.py: "como máximo MAX_ATTEMPTS envíos automáticos por
\* trabajo".  Every time the printer is given a job is an attempt in its row,
\* except for a dispatch that did not commit; "varios despachadores
\* concurrentes son seguros" (README): no two of them give it.
SendsCounted ==
  \A j \in Job \ lost :
    sends[j] <= IF Free(j) THEN jobs[j].attempts
                ELSE LET w == CHOOSE v \in Worker : j \in held[v] IN draft[w][j].attempts

\* README: "printed/cancelled son terminales".  Their rows never change again
\* and the printer is never given them again, whatever a dispatcher has in
\* hand.
DoneForGood ==
  [][\A j \in Job : jobs[j].status \in Terminal => jobs'[j] = jobs[j] /\ sends'[j] = sends[j]]_vars

\* _notify_printer_down: "Solo al agotarse (una vez por job)".  A job rests in
\* failed if and only if there was one alert in its cycle.
AlertedOnce ==
  \A j \in Job : /\ alerts[j] <= 1
                 /\ Exhausted(jobs[j]) => alerts[j] = 1
                 /\ jobs[j].status \in {"queued", "sent", "printed"} => alerts[j] = 0

Waiting == {j \in Job : jobs[j].status = "failed" /\ Retriable(j) /\ Free(j)}

\* services/printing.py: "Los failed se reencolan solos mientras queden intentos
\* (MAX_ATTEMPTS) y su backoff esté vencido".  Where there are such jobs, and
\* nobody holds them, a dispatch takes at least one of them back.
RetriesMove ==
  [][\A w \in Worker : (Start(w) /\ Waiting # {}) => held'[w] \intersect Waiting # {}]_vars

=============================================================================
