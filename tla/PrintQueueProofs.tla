-------------------------- MODULE PrintQueueProofs --------------------------
(***************************************************************************)
(* Safety of PrintQueue for every value of its constants: dispatchers      *)
(* never share a row, and what one has done to a row is one attempt of it. *)
(***************************************************************************)
EXTENDS PrintQueue, FiniteSetTheorems, TLAPS

(* The inductive invariant. *)

\* SKIP LOCKED: no two dispatchers hold a row.
Exclusive == \A v, w \in Worker : v # w => held[v] \intersect held[w] = {}

\* The dispatcher has the row as it was, or has taken it back into the queue.
Untouched(w, j) ==
  \/ draft[w][j] = jobs[j]
  \/ /\ jobs[j].status = "failed" /\ jobs[j].attempts < MaxAttempts
     /\ draft[w][j] = [status |-> "queued", attempts |-> jobs[j].attempts]

\* The dispatcher has attempted the job, once.
Touched(w, j) ==
  /\ jobs[j].attempts < MaxAttempts
  /\ draft[w][j].attempts = jobs[j].attempts + 1
  /\ draft[w][j].status \in {"sent", "failed"}

\* A row that is held waits in the queue or has failed, and is one attempt on
\* at most.
Drafts ==
  \A w \in Worker : \A j \in held[w] :
    /\ jobs[j].status \in {"queued", "failed"}
    /\ Untouched(w, j) \/ Touched(w, j)

\* Nothing is held outside a dispatch; nothing is attempted before the claim;
\* what was claimed and not attempted is still queued.
Claims ==
  \A w \in Worker :
    /\ ~Dispatching(w) => held[w] = {} /\ todo[w] = Unclaimed
    /\ todo[w] = Unclaimed => \A j \in held[w] : Untouched(w, j)
    /\ todo[w] # Unclaimed =>
         \A j \in todo[w] : /\ j \in held[w] /\ Untouched(w, j)
                            /\ draft[w][j].status = "queued"

\* The attempts left.
Budget ==
  \A j \in Job : /\ jobs[j].status = "none" => jobs[j].attempts = 0
                 /\ jobs[j].status = "queued" => jobs[j].attempts < MaxAttempts

\* The printer was given a job no more often than its row, or the draft of
\* its row, counts.
SendsBounded ==
  \A j \in Job \ lost :
    /\ Free(j) => sends[j] <= jobs[j].attempts
    /\ \A w \in Worker : j \in held[w] => sends[j] <= draft[w][j].attempts

\* One alert when the attempts are spent, none before.
Alerts ==
  \A j \in Job :
    /\ alerts[j] <= 1
    /\ Exhausted(jobs[j]) => alerts[j] = 1
    /\ jobs[j].status \in {"none", "queued", "sent", "printed"} => alerts[j] = 0
    /\ (jobs[j].status = "failed" /\ ~Exhausted(jobs[j])) => alerts[j] = 0

PInv == PrintTypeOK /\ Exclusive /\ Drafts /\ Claims /\ Budget /\ SendsBounded /\ Alerts

-----------------------------------------------------------------------------
(* Jobs and times. *)

LEMMA JobIsFinite == IsFiniteSet(Job) /\ 0 \notin Job /\ Job \subseteq Nat
BY FS_Interval, PrintAssumption DEF Job

LEMMA ImageFinite ==
  ASSUME NEW S, IsFiniteSet(S), NEW f
  PROVE  IsFiniteSet({f[x] : x \in S})
<1> DEFINE T == {f[x] : x \in S}
           g == [x \in S |-> f[x]]
<1>1. g \in Surjection(S, T)
  BY DEF Surjection
<1> QED
  BY ONLY <1>1, IsFiniteSet(S), FS_Surjection

LEMMA TimesFinite == PrintTypeOK => IsFiniteSet(Times) /\ Times \subseteq Nat /\ 0 \in Times
<1> SUFFICES ASSUME PrintTypeOK PROVE IsFiniteSet(Times) /\ Times \subseteq Nat /\ 0 \in Times
  OBVIOUS
<1>1. IsFiniteSet({sentAt[j] : j \in Job})
  BY JobIsFinite, ImageFinite
<1>2. IsFiniteSet({now[v] : v \in Worker})
  BY PrintAssumption, ImageFinite
<1>3. IsFiniteSet({0})
  BY FS_Singleton
<1>4. IsFiniteSet(Times)
  BY <1>1, <1>2, <1>3, FS_Union DEF Times
<1> QED
  BY <1>4 DEF Times, PrintTypeOK

\* A time in use keeps its place, and one after zero stays after it.
LEMMA RankIsNat ==
  ASSUME PrintTypeOK, NEW t \in Nat
  PROVE  /\ Rank(t) \in Nat /\ (t # 0 => Rank(t) # 0)
         /\ Cardinality(Times) \in Nat \ {0}
<1>0. IsFiniteSet(Times) /\ Times \subseteq Nat /\ 0 \in Times
  BY TimesFinite
<1> DEFINE S == {u \in Times : u < t}
<1>1. IsFiniteSet(S)
  BY <1>0, FS_Subset
<1>2. t # 0 => 0 \in S
  BY <1>0
<1>3. Cardinality(S) \in Nat /\ (S # {} => Cardinality(S) # 0)
  BY <1>1, FS_CardinalityType, FS_EmptySet
<1>4. Cardinality(Times) \in Nat /\ Cardinality(Times) # 0
  BY <1>0, FS_CardinalityType, FS_EmptySet
<1> QED
  BY <1>2, <1>3, <1>4 DEF Rank

-----------------------------------------------------------------------------
(* Each step keeps the invariant. *)

LEMMA InitPInv == Init => PInv
<1> SUFFICES ASSUME Init PROVE PInv
  OBVIOUS
<1>1. PrintTypeOK
  <2>1. NoDraft \in [Job -> JobType]
    BY PrintAssumption DEF JobType, NoDraft, NoJob
  <2>2. jobs \in [Job -> JobType] /\ draft \in [Worker -> [Job -> JobType]]
    BY <2>1 DEF Init
  <2>3. todo \in [Worker -> (SUBSET Job) \union {Unclaimed}]
    BY DEF Init
  <2>4. sentAt \in [Job -> Nat] /\ now \in [Worker -> Nat] /\ held \in [Worker -> SUBSET Job]
    BY DEF Init
  <2>5. sends \in [Job -> Nat] /\ alerts \in [Job -> Nat] /\ lost \subseteq Job /\ due \subseteq Job
        /\ active \in BOOLEAN
    BY DEF Init
  <2> QED
    BY <2>2, <2>3, <2>4, <2>5 DEF PrintTypeOK
<1>2. Exclusive /\ Drafts /\ Claims
  BY DEF Init, Exclusive, Drafts, Claims, Dispatching
<1>3. Budget /\ Alerts
  BY PrintAssumption DEF Init, Budget, Alerts, NoDraft, NoJob, Exhausted
<1>4. SendsBounded
  BY DEF Init, SendsBounded, NoDraft, NoJob
<1> QED
  BY <1>1, <1>2, <1>3, <1>4 DEF PInv

\* A row that no dispatcher holds is as it is in the table.
LEMMA UnlockedFree ==
  ASSUME Claims, NEW w \in Worker, ~Dispatching(w)
  PROVE  held[w] = {} /\ todo[w] = Unclaimed /\ \A j \in Unlocked(w) : Free(j)
BY DEF Claims, Unlocked, Free

LEMMA StartInv ==
  ASSUME PInv, NEW w \in Worker, Start(w) PROVE PInv'
<1>0. PrintTypeOK /\ Exclusive /\ Drafts /\ Claims /\ Budget /\ SendsBounded /\ Alerts
  BY DEF PInv
<1>1. ~Dispatching(w) /\ held[w] = {} /\ todo[w] = Unclaimed
  BY <1>0, UnlockedFree DEF Start
<1>2. PICK rows \in Oldest({j \in Unlocked(w) : jobs[j].status = "failed"}, Window) :
        /\ held' = [held EXCEPT ![w] = rows]
        /\ draft' = [draft EXCEPT ![w] =
             [j \in Job |-> IF j \notin rows THEN NoJob
                            ELSE IF Retriable(j) THEN [jobs[j] EXCEPT !.status = "queued"]
                            ELSE jobs[j]]]
  BY DEF Start
<1>3. rows \subseteq Job /\ \A j \in rows : Free(j) /\ jobs[j].status = "failed"
  BY <1>0, <1>1, UnlockedFree DEF Oldest, Unlocked
<1>4. UNCHANGED <<jobs, due, active, todo, sends, lost, alerts>>
  BY DEF Start, seenVars
<1>5. /\ held'[w] = rows /\ \A v \in Worker \ {w} : held'[v] = held[v] /\ draft'[v] = draft[v]
      /\ \A j \in rows : draft'[w][j] = IF Retriable(j) THEN [jobs[j] EXCEPT !.status = "queued"]
                                        ELSE jobs[j]
  BY <1>0, <1>2, <1>3 DEF PrintTypeOK
<1>6. \A j \in rows : Untouched(w, j)'
  BY <1>0, <1>3, <1>4, <1>5 DEF Untouched, Retriable, PrintTypeOK, JobType
<1>7. /\ sentAt' \in [Job -> Nat] /\ now' \in [Worker -> Nat]
      /\ now'[w] # 0 /\ \A v \in Worker \ {w} : now[v] # 0 => now'[v] # 0
  <2>1. sentAt' = [j \in Job |-> Rank(sentAt[j])]
        /\ now' = [v \in Worker |-> IF v = w THEN Cardinality(Times) ELSE Rank(now[v])]
    BY DEF Start
  <2>a. \A t \in Nat : Rank(t) \in Nat /\ (t # 0 => Rank(t) # 0)
    BY <1>0, RankIsNat
  <2>b. sentAt \in [Job -> Nat] /\ now \in [Worker -> Nat]
    BY <1>0 DEF PrintTypeOK
  <2>2. \A j \in Job : Rank(sentAt[j]) \in Nat
    BY <2>a, <2>b
  <2>3. \A v \in Worker : Rank(now[v]) \in Nat /\ (now[v] # 0 => Rank(now[v]) # 0)
    BY <2>a, <2>b
  <2>4. Cardinality(Times) \in Nat \ {0}
    BY <1>0, RankIsNat
  <2> QED
    BY <2>1, <2>2, <2>3, <2>4
<1>8. PrintTypeOK'
  <2>1. [j \in Job |-> IF j \notin rows THEN NoJob
                       ELSE IF Retriable(j) THEN [jobs[j] EXCEPT !.status = "queued"]
                       ELSE jobs[j]] \in [Job -> JobType]
    <3>1. NoJob \in JobType
      BY PrintAssumption DEF NoJob, JobType
    <3>2. \A j \in Job : jobs[j] \in JobType /\ [jobs[j] EXCEPT !.status = "queued"] \in JobType
      BY <1>0 DEF PrintTypeOK, JobType
    <3> QED
      BY <3>1, <3>2
  <2>2. draft' \in [Worker -> [Job -> JobType]]
    BY <1>0, <1>2, <2>1 DEF PrintTypeOK
  <2>3. held' \in [Worker -> SUBSET Job]
    BY <1>0, <1>2, <1>3 DEF PrintTypeOK
  <2> QED
    BY <1>0, <1>4, <1>7, <2>2, <2>3 DEF PrintTypeOK
<1>9. Exclusive'
  BY <1>0, <1>3, <1>5 DEF Exclusive, Free
<1>10. \A v \in Worker \ {w} : \A j \in Job : /\ Untouched(v, j)' = Untouched(v, j)
                                            /\ Touched(v, j)' = Touched(v, j)
  BY <1>4, <1>5 DEF Untouched, Touched
<1>11. Drafts'
  <2> SUFFICES ASSUME NEW v \in Worker, NEW j \in held'[v]
               PROVE  /\ jobs'[j].status \in {"queued", "failed"}
                      /\ Untouched(v, j)' \/ Touched(v, j)'
    BY DEF Drafts
  <2>1. CASE v = w
    BY <1>3, <1>4, <1>5, <1>6, <2>1
  <2>2. CASE v # w
    <3>1. j \in held[v] /\ j \in Job
      BY <1>0, <1>5, <2>2 DEF PrintTypeOK
    <3> QED
      BY <1>0, <1>4, <1>10, <2>2, <3>1 DEF Drafts
  <2> QED
    BY <2>1, <2>2
<1>12. Claims'
  <2> SUFFICES ASSUME NEW v \in Worker
               PROVE  /\ ~(now'[v] # 0) => held'[v] = {} /\ todo'[v] = Unclaimed
                      /\ todo'[v] = Unclaimed => \A j \in held'[v] : Untouched(v, j)'
                      /\ todo'[v] # Unclaimed =>
                           \A j \in todo'[v] : /\ j \in held'[v] /\ Untouched(v, j)'
                                               /\ draft'[v][j].status = "queued"
    BY DEF Claims, Dispatching
  <2>1. CASE v = w
    BY <1>1, <1>4, <1>5, <1>6, <1>7, <2>1
  <2>2. CASE v # w
    <3>1. held[v] \subseteq Job
      BY <1>0 DEF PrintTypeOK
    <3> QED
      BY <1>0, <1>4, <1>5, <1>7, <1>10, <2>2, <3>1 DEF Claims, Dispatching
  <2> QED
    BY <2>1, <2>2
<1>13. Budget' /\ Alerts'
  BY <1>0, <1>4 DEF Budget, Alerts
<1>14. SendsBounded'
  <2> SUFFICES ASSUME NEW j \in Job \ lost
               PROVE  /\ Free(j)' => sends[j] <= jobs[j].attempts
                      /\ \A v \in Worker : j \in held'[v] => sends[j] <= draft'[v][j].attempts
    BY <1>4 DEF SendsBounded
  <2>1. Free(j)' => Free(j)
    BY <1>1, <1>5 DEF Free
  <2>2. j \in rows => draft'[w][j].attempts = jobs[j].attempts
    BY <1>0, <1>5 DEF PrintTypeOK, JobType
  <2> QED
    BY <1>0, <1>3, <1>5, <2>1, <2>2 DEF SendsBounded
<1> QED
  BY <1>8, <1>9, <1>11, <1>12, <1>13, <1>14 DEF PInv

LEMMA ClaimInv ==
  ASSUME PInv, NEW w \in Worker, Claim(w) PROVE PInv'
<1>0. PrintTypeOK /\ Exclusive /\ Drafts /\ Claims /\ Budget /\ SendsBounded /\ Alerts
  BY DEF PInv
<1>1. Dispatching(w) /\ todo[w] = Unclaimed
  BY DEF Claim
<1>2. PICK rows : rows = FirstIn({j \in Unlocked(w) : Seen(w, j).status = "queued"}, Limit)
  OBVIOUS
<1>3. /\ todo' = [todo EXCEPT ![w] = rows]
      /\ draft' = [draft EXCEPT ![w] = [j \in Job |-> IF j \in rows THEN Seen(w, j) ELSE @[j]]]
      /\ held' = [held EXCEPT ![w] = @ \union rows]
  BY <1>2 DEF Claim
<1>4. /\ rows \subseteq Job
      /\ \A j \in rows : /\ Seen(w, j).status = "queued"
                         /\ \A v \in Worker \ {w} : j \notin held[v]
  BY <1>2 DEF FirstIn, Unlocked
<1>5. UNCHANGED <<jobs, sentAt, due, active, now, sends, lost, alerts>>
  BY DEF Claim, rowVars, seenVars
<1>6. /\ held'[w] = held[w] \union rows /\ todo'[w] = rows
      /\ \A v \in Worker \ {w} : held'[v] = held[v] /\ draft'[v] = draft[v] /\ todo'[v] = todo[v]
      /\ \A j \in rows : draft'[w][j] = Seen(w, j)
      /\ \A j \in Job \ rows : draft'[w][j] = draft[w][j]
  BY <1>0, <1>3, <1>4 DEF PrintTypeOK
<1>7. \A j \in held[w] : Untouched(w, j) /\ j \in Job
  BY <1>0, <1>1 DEF Claims, PrintTypeOK
<1>8. \A j \in held'[w] : Untouched(w, j)' /\ jobs'[j].status \in {"queued", "failed"}
  <2> SUFFICES ASSUME NEW j \in held'[w]
               PROVE  Untouched(w, j)' /\ jobs'[j].status \in {"queued", "failed"}
    OBVIOUS
  <2>1. CASE j \in held[w]
    <3>1. draft'[w][j] = draft[w][j]
      BY <1>4, <1>6, <1>7, <2>1 DEF Seen
    <3> QED
      BY <1>0, <1>5, <1>7, <2>1, <3>1 DEF Untouched, Drafts
  <2>2. CASE j \in rows /\ j \notin held[w]
    BY <1>4, <1>5, <1>6, <2>2 DEF Untouched, Seen
  <2> QED
    BY <1>6, <2>1, <2>2
<1>9. PrintTypeOK'
  <2>1. \A j \in rows : Seen(w, j) \in JobType
    BY <1>0, <1>4 DEF PrintTypeOK, Seen
  <2>2. draft' \in [Worker -> [Job -> JobType]]
    BY <1>0, <1>3, <1>4, <2>1 DEF PrintTypeOK
  <2>3. held' \in [Worker -> SUBSET Job] /\ todo' \in [Worker -> (SUBSET Job) \union {Unclaimed}]
    BY <1>0, <1>3, <1>4 DEF PrintTypeOK
  <2> QED
    BY <1>0, <1>5, <2>2, <2>3 DEF PrintTypeOK
<1>10. Exclusive'
  BY <1>0, <1>4, <1>6 DEF Exclusive
<1>11. \A v \in Worker \ {w} : \A j \in Job : /\ Untouched(v, j)' = Untouched(v, j)
                                            /\ Touched(v, j)' = Touched(v, j)
  BY <1>5, <1>6 DEF Untouched, Touched
<1>12. Drafts'
  <2> SUFFICES ASSUME NEW v \in Worker, NEW j \in held'[v]
               PROVE  /\ jobs'[j].status \in {"queued", "failed"}
                      /\ Untouched(v, j)' \/ Touched(v, j)'
    BY DEF Drafts
  <2>1. CASE v = w
    BY <1>8, <2>1
  <2>2. CASE v # w
    <3>1. j \in held[v] /\ j \in Job
      BY <1>0, <1>6, <2>2 DEF PrintTypeOK
    <3> QED
      BY <1>0, <1>5, <1>11, <2>2, <3>1 DEF Drafts
  <2> QED
    BY <2>1, <2>2
<1>13. Claims'
  <2> SUFFICES ASSUME NEW v \in Worker
               PROVE  /\ ~(now'[v] # 0) => held'[v] = {} /\ todo'[v] = Unclaimed
                      /\ todo'[v] = Unclaimed => \A j \in held'[v] : Untouched(v, j)'
                      /\ todo'[v] # Unclaimed =>
                           \A j \in todo'[v] : /\ j \in held'[v] /\ Untouched(v, j)'
                                               /\ draft'[v][j].status = "queued"
    BY DEF Claims, Dispatching
  <2>1. CASE v = w
    BY <1>1, <1>4, <1>5, <1>6, <1>8, <2>1 DEF Dispatching
  <2>2. CASE v # w
    <3>1. held[v] \subseteq Job
      BY <1>0 DEF PrintTypeOK
    <3> QED
      BY <1>0, <1>5, <1>6, <1>11, <2>2, <3>1 DEF Claims, Dispatching
  <2> QED
    BY <2>1, <2>2
<1>14. Budget' /\ Alerts'
  BY <1>0, <1>5 DEF Budget, Alerts
<1>15. SendsBounded'
  <2> SUFFICES ASSUME NEW j \in Job \ lost
               PROVE  /\ Free(j)' => sends[j] <= jobs[j].attempts
                      /\ \A v \in Worker : j \in held'[v] => sends[j] <= draft'[v][j].attempts
    BY <1>5 DEF SendsBounded
  <2>1. Free(j)' => Free(j)
    BY <1>6 DEF Free
  <2>2. j \in held'[w] => sends[j] <= draft'[w][j].attempts
    <3>1. CASE j \in held[w]
      <4>1. draft'[w][j] = draft[w][j]
        BY <1>6, <3>1 DEF Seen
      <4> QED
        BY <1>0, <3>1, <4>1 DEF SendsBounded
    <3>2. CASE j \in rows /\ j \notin held[w]
      <4>1. Free(j) /\ draft'[w][j] = jobs[j]
        BY <1>4, <1>6, <3>2 DEF Free, Seen
      <4> QED
        BY <1>0, <4>1 DEF SendsBounded
    <3> QED
      BY <1>6, <3>1, <3>2
  <2> QED
    BY <1>0, <1>6, <2>1, <2>2 DEF SendsBounded
<1> QED
  BY <1>9, <1>10, <1>12, <1>13, <1>14, <1>15 DEF PInv

LEMMA AttemptInv ==
  ASSUME PInv, NEW w \in Worker, Attempt(w) PROVE PInv'
<1>0. PrintTypeOK /\ Exclusive /\ Drafts /\ Claims /\ Budget /\ SendsBounded /\ Alerts
  BY DEF PInv
<1>1. Dispatching(w) /\ todo[w] # Unclaimed
  BY DEF Attempt
<1>2. PICK j \in todo[w], status \in {"sent", "failed"} :
        /\ draft' = [draft EXCEPT ![w][j] = Attempted(draft[w][j], status)]
        /\ sends' = [sends EXCEPT ![j] = @ + 1] \/ sends' = sends
        /\ todo' = [todo EXCEPT ![w] = @ \ {j}]
  BY DEF Attempt
<1>3. UNCHANGED <<jobs, sentAt, due, active, held, now, lost, alerts>>
  BY DEF Attempt, rowVars
<1>4. j \in held[w] /\ j \in Job /\ Untouched(w, j) /\ draft[w][j].status = "queued"
  BY <1>0, <1>1 DEF Claims, PrintTypeOK
<1>5. /\ jobs[j].attempts < MaxAttempts /\ draft[w][j].attempts = jobs[j].attempts
      /\ jobs[j].attempts \in Nat
  BY <1>0, <1>4 DEF Untouched, Budget, PrintTypeOK, JobType
<1>6. /\ draft'[w][j] = [status |-> status, attempts |-> jobs[j].attempts + 1]
      /\ \A k \in Job \ {j} : draft'[w][k] = draft[w][k]
      /\ \A v \in Worker \ {w} : draft'[v] = draft[v] /\ todo'[v] = todo[v]
      /\ todo'[w] = todo[w] \ {j}
  BY <1>0, <1>2, <1>4, <1>5 DEF PrintTypeOK, Attempted
<1>7. todo[w] \subseteq Job /\ todo'[w] \subseteq Job /\ todo'[w] # Unclaimed
  BY <1>0, <1>1, <1>6, JobIsFinite DEF PrintTypeOK, Unclaimed
<1>8. Touched(w, j)'
  BY <1>3, <1>5, <1>6 DEF Touched
<1>9. \A k \in Job \ {j} : Untouched(w, k)' = Untouched(w, k) /\ Touched(w, k)' = Touched(w, k)
  BY <1>3, <1>6 DEF Untouched, Touched
<1>10. \A v \in Worker \ {w} : \A k \in Job : /\ Untouched(v, k)' = Untouched(v, k)
                                            /\ Touched(v, k)' = Touched(v, k)
  BY <1>3, <1>6 DEF Untouched, Touched
<1>11. PrintTypeOK'
  <2>1. Attempted(draft[w][j], status) \in JobType
    BY <1>5, PrintAssumption DEF Attempted, JobType
  <2>2. draft' \in [Worker -> [Job -> JobType]]
    BY <1>0, <1>2, <1>4, <2>1 DEF PrintTypeOK
  <2>3. sends' \in [Job -> Nat]
    BY <1>0, <1>2, <1>4 DEF PrintTypeOK
  <2>4. todo' \in [Worker -> (SUBSET Job) \union {Unclaimed}]
    BY <1>0, <1>2, <1>7 DEF PrintTypeOK
  <2> QED
    BY <1>0, <1>3, <2>2, <2>3, <2>4 DEF PrintTypeOK
<1>12. Exclusive' /\ Budget' /\ Alerts'
  BY <1>0, <1>3 DEF Exclusive, Budget, Alerts
<1>13. Drafts'
  <2> SUFFICES ASSUME NEW v \in Worker, NEW k \in held[v]
               PROVE  /\ jobs[k].status \in {"queued", "failed"}
                      /\ Untouched(v, k)' \/ Touched(v, k)'
    BY <1>3 DEF Drafts
  <2>1. k \in Job
    BY <1>0 DEF PrintTypeOK
  <2> QED
    BY <1>0, <1>8, <1>9, <1>10, <2>1 DEF Drafts
<1>14. Claims'
  <2> SUFFICES ASSUME NEW v \in Worker
               PROVE  /\ ~(now[v] # 0) => held[v] = {} /\ todo'[v] = Unclaimed
                      /\ todo'[v] = Unclaimed => \A k \in held[v] : Untouched(v, k)'
                      /\ todo'[v] # Unclaimed =>
                           \A k \in todo'[v] : /\ k \in held[v] /\ Untouched(v, k)'
                                               /\ draft'[v][k].status = "queued"
    BY <1>3 DEF Claims, Dispatching
  <2>1. CASE v = w
    <3>1. now[w] # 0
      BY <1>1 DEF Dispatching
    <3>2. ASSUME NEW k \in todo'[w]
          PROVE  k \in held[w] /\ Untouched(w, k)' /\ draft'[w][k].status = "queued"
      <4>1. k \in todo[w] /\ k # j /\ k \in Job
        BY <1>6, <1>7
      <4> QED
        BY <1>0, <1>1, <1>6, <1>9, <4>1 DEF Claims
    <3> QED
      BY <1>7, <2>1, <3>1, <3>2
  <2>2. CASE v # w
    <3>1. held[v] \subseteq Job
      BY <1>0 DEF PrintTypeOK
    <3> QED
      BY <1>0, <1>6, <1>10, <2>2, <3>1 DEF Claims, Dispatching
  <2> QED
    BY <2>1, <2>2
<1>15. SendsBounded'
  <2> SUFFICES ASSUME NEW k \in Job \ lost
               PROVE  /\ Free(k) => sends'[k] <= jobs[k].attempts
                      /\ \A v \in Worker : k \in held[v] => sends'[k] <= draft'[v][k].attempts
    BY <1>3 DEF SendsBounded, Free
  <2>1. CASE k = j
    <3>1. ~Free(j) /\ \A v \in Worker \ {w} : j \notin held[v]
      BY <1>0, <1>4 DEF Free, Exclusive
    <3>2. sends[j] <= draft[w][j].attempts
      BY <1>0, <1>4, <2>1 DEF SendsBounded
    <3>3. sends[j] \in Nat /\ sends'[j] <= sends[j] + 1
      BY <1>0, <1>2, <1>4 DEF PrintTypeOK
    <3>4. sends'[j] \in Nat
      BY <1>4, <1>11 DEF PrintTypeOK
    <3>5. sends'[j] <= draft'[w][j].attempts
      BY <1>5, <1>6, <3>2, <3>3, <3>4
    <3> QED
      BY <2>1, <3>1, <3>5
  <2>2. CASE k # j
    <3>1. sends'[k] = sends[k]
      BY <1>0, <1>2, <2>2 DEF PrintTypeOK
    <3> QED
      BY <1>0, <1>6, <2>2, <3>1 DEF SendsBounded
  <2> QED
    BY <2>1, <2>2
<1> QED
  BY <1>11, <1>12, <1>13, <1>14, <1>15 DEF PInv

\* The end of a dispatch leaves the others what they hold.
LEMMA FinishLeaves ==
  ASSUME PrintTypeOK, NEW w \in Worker, Finish(w)
  PROVE  /\ held'[w] = {} /\ todo'[w] = Unclaimed
         /\ \A v \in Worker \ {w} : /\ held'[v] = held[v] /\ draft'[v] = draft[v]
                                    /\ todo'[v] = todo[v] /\ now'[v] = now[v]
         /\ held' \in [Worker -> SUBSET Job]
         /\ draft' \in [Worker -> [Job -> JobType]]
         /\ todo' \in [Worker -> (SUBSET Job) \union {Unclaimed}]
         /\ now' \in [Worker -> Nat]
<1>1. NoDraft \in [Job -> JobType]
  BY PrintAssumption DEF JobType, NoDraft, NoJob
<1>2. draft' \in [Worker -> [Job -> JobType]]
  BY <1>1 DEF PrintTypeOK, Finish
<1>3. todo' \in [Worker -> (SUBSET Job) \union {Unclaimed}]
  BY DEF PrintTypeOK, Finish
<1>4. now' \in [Worker -> Nat] /\ held' \in [Worker -> SUBSET Job]
  BY DEF PrintTypeOK, Finish
<1> QED
  BY <1>2, <1>3, <1>4 DEF PrintTypeOK, Finish

\* Others keep their drafts and claims when the rows they hold do not change.
LEMMA OthersKeep ==
  ASSUME PInv, NEW W \in SUBSET Worker,
         \A v \in W : /\ held'[v] = held[v] /\ draft'[v] = draft[v] /\ todo'[v] = todo[v]
                      /\ now'[v] = now[v]
                      /\ \A j \in held[v] : jobs'[j] = jobs[j],
         \A v \in Worker \ W : held'[v] = {} /\ todo'[v] = Unclaimed
  PROVE  Exclusive' /\ Drafts' /\ Claims'
<1>0. PrintTypeOK /\ Exclusive /\ Drafts /\ Claims
  BY DEF PInv
<1>1. \A v \in W : \A j \in held[v] : /\ Untouched(v, j)' = Untouched(v, j)
                                      /\ Touched(v, j)' = Touched(v, j)
  BY DEF Untouched, Touched
<1>2. Exclusive'
  <2> SUFFICES ASSUME NEW u \in Worker, NEW v \in Worker, u # v
               PROVE  held'[u] \intersect held'[v] = {}
    BY DEF Exclusive
  <2> QED
    BY <1>0 DEF Exclusive
<1>3. Drafts'
  <2> SUFFICES ASSUME NEW v \in Worker, NEW j \in held'[v]
               PROVE  /\ jobs'[j].status \in {"queued", "failed"}
                      /\ Untouched(v, j)' \/ Touched(v, j)'
    BY DEF Drafts
  <2>1. v \in W /\ j \in held[v]
    OBVIOUS
  <2> QED
    BY <1>0, <1>1, <2>1 DEF Drafts
<1>4. Claims'
  <2> SUFFICES ASSUME NEW v \in Worker
               PROVE  /\ ~(now'[v] # 0) => held'[v] = {} /\ todo'[v] = Unclaimed
                      /\ todo'[v] = Unclaimed => \A j \in held'[v] : Untouched(v, j)'
                      /\ todo'[v] # Unclaimed =>
                           \A j \in todo'[v] : /\ j \in held'[v] /\ Untouched(v, j)'
                                               /\ draft'[v][j].status = "queued"
    BY DEF Claims, Dispatching
  <2>1. CASE v \in W
    BY <1>0, <1>1, <2>1 DEF Claims, Dispatching
  <2>2. CASE v \notin W
    BY <2>2
  <2> QED
    BY <2>1, <2>2
<1> QED
  BY <1>2, <1>3, <1>4

LEMMA CommitInv ==
  ASSUME PInv, NEW w \in Worker, Commit(w) PROVE PInv'
<1>0. PrintTypeOK /\ Exclusive /\ Drafts /\ Claims /\ Budget /\ SendsBounded /\ Alerts
  BY DEF PInv
<1>1. Finish(w) /\ UNCHANGED <<active, sends, lost>>
  BY DEF Commit
<1>2. /\ held'[w] = {} /\ todo'[w] = Unclaimed
      /\ \A v \in Worker \ {w} : /\ held'[v] = held[v] /\ draft'[v] = draft[v]
                                 /\ todo'[v] = todo[v] /\ now'[v] = now[v]
  BY <1>0, <1>1, FinishLeaves
<1>3. \A j \in Job : jobs'[j] = IF j \in held[w] THEN draft[w][j] ELSE jobs[j]
  BY DEF Commit, Seen
<1>4. PrintTypeOK'
  <2>1. jobs' \in [Job -> JobType]
    BY <1>0 DEF Commit, Seen, PrintTypeOK
  <2>2. sentAt' \in [Job -> Nat] /\ due' \subseteq Job /\ alerts' \in [Job -> Nat]
    BY <1>0 DEF Commit, PrintTypeOK
  <2> QED
    BY <1>0, <1>1, <2>1, <2>2, FinishLeaves DEF PrintTypeOK
<1>5. Exclusive' /\ Drafts' /\ Claims'
  <2> DEFINE W == Worker \ {w}
  <2>1. \A v \in W : \A j \in held[v] : jobs'[j] = jobs[j]
    BY <1>0, <1>3 DEF Exclusive, PrintTypeOK
  <2>2. \A v \in W : /\ held'[v] = held[v] /\ draft'[v] = draft[v] /\ todo'[v] = todo[v]
                     /\ now'[v] = now[v] /\ \A j \in held[v] : jobs'[j] = jobs[j]
    BY <1>2, <2>1
  <2>3. W \in SUBSET Worker /\ \A v \in Worker \ W : held'[v] = {} /\ todo'[v] = Unclaimed
    BY <1>2
  <2> HIDE DEF W
  <2> QED
    BY <2>2, <2>3, OthersKeep
<1>6. \A j \in held[w] : /\ jobs[j].status \in {"queued", "failed"} /\ j \in Job
                         /\ Untouched(w, j) \/ Touched(w, j)
  BY <1>0 DEF Drafts, PrintTypeOK
<1>7. Budget'
  <2> SUFFICES ASSUME NEW j \in Job
               PROVE  /\ jobs'[j].status = "none" => jobs'[j].attempts = 0
                      /\ jobs'[j].status = "queued" => jobs'[j].attempts < MaxAttempts
    BY DEF Budget
  <2>1. CASE j \in held[w]
    <3>1. jobs'[j] = draft[w][j]
      BY <1>3, <2>1
    <3>2. CASE Touched(w, j)
      BY <3>1, <3>2 DEF Touched
    <3>3. CASE Untouched(w, j)
      BY <1>0, <3>1, <3>3 DEF Untouched, Budget
    <3> QED
      BY <1>6, <2>1, <3>2, <3>3
  <2>2. CASE j \notin held[w]
    BY <1>0, <1>3, <2>2 DEF Budget
  <2> QED
    BY <2>1, <2>2
<1>8. SendsBounded'
  <2> SUFFICES ASSUME NEW j \in Job \ lost
               PROVE  /\ Free(j)' => sends[j] <= jobs'[j].attempts
                      /\ \A v \in Worker : j \in held'[v] => sends[j] <= draft'[v][j].attempts
    BY <1>1 DEF SendsBounded
  <2>1. Free(j)' => Free(j) \/ j \in held[w]
    BY <1>2 DEF Free
  <2>2. Free(j) => j \notin held[w]
    BY DEF Free
  <2> QED
    BY <1>0, <1>2, <1>3, <2>1, <2>2 DEF SendsBounded
<1>9. Alerts'
  <2> SUFFICES ASSUME NEW j \in Job
               PROVE  /\ alerts'[j] <= 1
                      /\ Exhausted(jobs'[j]) => alerts'[j] = 1
                      /\ jobs'[j].status \in {"none", "queued", "sent", "printed"} => alerts'[j] = 0
                      /\ (jobs'[j].status = "failed" /\ ~Exhausted(jobs'[j])) => alerts'[j] = 0
    BY DEF Alerts
  <2>0. alerts'[j] = IF j \in Tried(w) /\ Exhausted(draft[w][j]) THEN alerts[j] + 1 ELSE alerts[j]
    BY DEF Commit
  <2>a. jobs[j].attempts \in Nat /\ MaxAttempts \in Nat
    BY <1>0, PrintAssumption DEF PrintTypeOK, JobType
  <2>1. CASE j \in held[w] /\ Touched(w, j)
    <3>1. j \in Tried(w)
      BY <2>1, <2>a DEF Tried, Touched
    <3>2. alerts[j] = 0
      BY <1>0, <1>6, <2>1, <2>a DEF Alerts, Exhausted, Touched
    <3> QED
      BY <1>3, <2>0, <2>1, <3>1, <3>2 DEF Touched, Exhausted
  <2>2. CASE j \in held[w] /\ ~Touched(w, j)
    <3>1. Untouched(w, j) /\ j \notin Tried(w)
      BY <1>6, <2>2 DEF Tried, Untouched
    <3>2. alerts'[j] = alerts[j] /\ jobs'[j] = draft[w][j]
      BY <1>3, <2>0, <2>2, <3>1
    <3>3. CASE draft[w][j] = jobs[j]
      BY <1>0, <3>2, <3>3 DEF Alerts
    <3>4. CASE /\ jobs[j].status = "failed" /\ jobs[j].attempts < MaxAttempts
               /\ draft[w][j] = [status |-> "queued", attempts |-> jobs[j].attempts]
      <4>1. alerts[j] = 0
        BY <1>0, <2>a, <3>4 DEF Alerts, Exhausted
      <4> QED
        BY <3>2, <3>4, <4>1 DEF Exhausted
    <3> QED
      BY <3>1, <3>3, <3>4 DEF Untouched
  <2>3. CASE j \notin held[w]
    BY <1>0, <1>3, <2>0, <2>3 DEF Tried, Alerts
  <2> QED
    BY <2>1, <2>2, <2>3
<1> QED
  BY <1>4, <1>5, <1>7, <1>8, <1>9 DEF PInv

LEMMA AbortInv ==
  ASSUME PInv, NEW w \in Worker, Abort(w) PROVE PInv'
<1>0. PrintTypeOK /\ Exclusive /\ Drafts /\ Claims /\ Budget /\ SendsBounded /\ Alerts
  BY DEF PInv
<1>1. Finish(w) /\ UNCHANGED <<jobs, sentAt, due, active, sends, alerts>>
      /\ lost' = lost \union {j \in Tried(w) : sends[j] > jobs[j].attempts}
  BY DEF Abort, rowVars
<1>2. /\ held'[w] = {} /\ todo'[w] = Unclaimed
      /\ \A v \in Worker \ {w} : /\ held'[v] = held[v] /\ draft'[v] = draft[v]
                                 /\ todo'[v] = todo[v] /\ now'[v] = now[v]
  BY <1>0, <1>1, FinishLeaves
<1>3. PrintTypeOK'
  <2>1. lost' \subseteq Job
    BY <1>0, <1>1 DEF PrintTypeOK, Tried
  <2> QED
    BY <1>0, <1>1, <2>1, FinishLeaves DEF PrintTypeOK
<1>4. Exclusive' /\ Drafts' /\ Claims'
  <2> DEFINE W == Worker \ {w}
  <2>1. \A v \in W : /\ held'[v] = held[v] /\ draft'[v] = draft[v] /\ todo'[v] = todo[v]
                     /\ now'[v] = now[v] /\ \A j \in held[v] : jobs'[j] = jobs[j]
    BY <1>1, <1>2
  <2>2. W \in SUBSET Worker /\ \A v \in Worker \ W : held'[v] = {} /\ todo'[v] = Unclaimed
    BY <1>2
  <2> HIDE DEF W
  <2> QED
    BY <2>1, <2>2, OthersKeep
<1>5. Budget' /\ Alerts'
  BY <1>0, <1>1 DEF Budget, Alerts
<1>6. SendsBounded'
  <2> SUFFICES ASSUME NEW j \in Job \ lost'
               PROVE  /\ Free(j)' => sends[j] <= jobs[j].attempts
                      /\ \A v \in Worker : j \in held'[v] => sends[j] <= draft'[v][j].attempts
    BY <1>1 DEF SendsBounded
  <2>1. Free(j)' => Free(j) \/ j \in held[w]
    BY <1>2 DEF Free
  <2>2. j \in Job \ lost /\ sends[j] \in Nat /\ jobs[j].attempts \in Nat
    BY <1>0, <1>1 DEF PrintTypeOK, JobType
  <2>3. j \in held[w] => sends[j] <= jobs[j].attempts
    <3>1. CASE j \in Tried(w)
      BY <1>1, <2>2, <3>1
    <3>2. CASE j \notin Tried(w)
      BY <1>0, <2>2, <3>2 DEF Tried, SendsBounded
    <3> QED
      BY <3>1, <3>2
  <2> QED
    BY <1>0, <1>2, <2>1, <2>2, <2>3 DEF SendsBounded
<1> QED
  BY <1>3, <1>4, <1>5, <1>6 DEF PInv

\* Steps on one row that nobody holds.
LEMMA RowInv ==
  ASSUME PInv, NEW j \in Job, jobs[j].status \notin {"queued", "failed"} \/ Free(j),
         UNCHANGED <<active, workVars>>, PrintTypeOK',
         \A k \in Job \ {j} : /\ jobs'[k] = jobs[k] /\ sends'[k] = sends[k]
                              /\ alerts'[k] = alerts[k] /\ (k \in lost' <=> k \in lost),
         /\ jobs'[j].status = "none" => jobs'[j].attempts = 0
         /\ jobs'[j].status = "queued" => jobs'[j].attempts < MaxAttempts
         /\ j \in lost' \/ sends'[j] <= jobs'[j].attempts
         /\ alerts'[j] <= 1
         /\ Exhausted(jobs'[j]) => alerts'[j] = 1
         /\ jobs'[j].status \in {"none", "queued", "sent", "printed"} => alerts'[j] = 0
         /\ (jobs'[j].status = "failed" /\ ~Exhausted(jobs'[j])) => alerts'[j] = 0
  PROVE  PInv'
<1>0. PrintTypeOK /\ Drafts /\ Claims /\ Budget /\ SendsBounded /\ Alerts
  BY DEF PInv
<1>1. \A w \in Worker : j \notin held[w]
  BY <1>0 DEF Drafts, Free
<1>2. \A w \in Worker : held[w] \subseteq Job
  BY <1>0 DEF PrintTypeOK
<1>3. Exclusive' /\ Drafts' /\ Claims'
  <2> DEFINE W == Worker
  <2>1. \A v \in W : /\ held'[v] = held[v] /\ draft'[v] = draft[v] /\ todo'[v] = todo[v]
                     /\ now'[v] = now[v] /\ \A k \in held[v] : jobs'[k] = jobs[k]
    BY <1>1, <1>2 DEF workVars
  <2>2. W \in SUBSET Worker /\ \A v \in Worker \ W : held'[v] = {} /\ todo'[v] = Unclaimed
    OBVIOUS
  <2> HIDE DEF W
  <2> QED
    BY <2>1, <2>2, OthersKeep
<1>4. Budget'
  BY <1>0 DEF Budget
<1>5. Alerts'
  BY <1>0 DEF Alerts
<1>6. SendsBounded'
  <2> SUFFICES ASSUME NEW k \in Job \ lost'
               PROVE  /\ Free(k) => sends'[k] <= jobs'[k].attempts
                      /\ \A v \in Worker : k \in held[v] => sends'[k] <= draft[v][k].attempts
    BY DEF SendsBounded, Free, workVars
  <2> QED
    BY <1>0, <1>1 DEF SendsBounded
<1> QED
  BY <1>3, <1>4, <1>5, <1>6 DEF PInv

\* A row nobody holds is within its bounds.
LEMMA RowBounds ==
  ASSUME PInv, NEW j \in Job, jobs[j].status \notin {"queued", "failed"} \/ Free(j)
  PROVE  /\ jobs[j] \in JobType
         /\ jobs[j].status = "queued" => jobs[j].attempts < MaxAttempts
         /\ jobs[j].status = "none" => jobs[j].attempts = 0
         /\ j \in lost \/ sends[j] <= jobs[j].attempts
         /\ alerts[j] <= 1
         /\ jobs[j].status \in {"none", "queued", "sent", "printed"} => alerts[j] = 0
<1>1. Free(j)
  BY DEF PInv, Drafts, Free
<1> QED
  BY <1>1 DEF PInv, PrintTypeOK, Budget, SendsBounded, Alerts

LEMMA StatusInv ==
  ASSUME PInv, NEW j \in Job, NEW to \in {"queued", "printed", "cancelled"},
         \/ jobs[j].status = "none" /\ to = "queued"
         \/ MayChange(j, to) /\ to # "queued",
         jobs' = [jobs EXCEPT ![j].status = to],
         UNCHANGED <<sentAt, due, active, workVars, seenVars>>
  PROVE  PInv'
<1>1. jobs[j].status \notin {"queued", "failed"} \/ Free(j)
  BY DEF MayChange
<1>2. PrintTypeOK
  BY DEF PInv
<1>3. /\ jobs'[j] = [status |-> to, attempts |-> jobs[j].attempts]
      /\ \A k \in Job \ {j} : jobs'[k] = jobs[k]
  BY <1>2 DEF PrintTypeOK, JobType
<1>4. PrintTypeOK'
  <2>1. jobs' \in [Job -> JobType]
    BY <1>2 DEF PrintTypeOK, JobType, Terminal
  <2> QED
    BY <1>2, <2>1 DEF PrintTypeOK, workVars, seenVars
<1>5. to = "printed" => jobs[j].status = "sent"
  <2>1. jobs[j].status \in {"none", "queued", "sent", "failed", "printed", "cancelled"}
    BY <1>2 DEF PrintTypeOK, JobType, Terminal
  <2> QED
    BY <2>1 DEF MayChange, CanTransition, Transitions
<1>6. to = "queued" => jobs[j].attempts < MaxAttempts
  BY <1>1, RowBounds, PrintAssumption
<1>7. to # "cancelled" => alerts[j] = 0
  BY <1>1, <1>5, RowBounds
<1> QED
  BY <1>1, <1>3, <1>4, <1>6, <1>7, RowBounds, RowInv DEF seenVars, Exhausted

LEMMA RetryInv ==
  ASSUME PInv, NEW j \in Job, RetryJob(j) PROVE PInv'
<1>1. Free(j) /\ PrintTypeOK
  BY DEF RetryJob, PInv
<1>2. /\ jobs'[j] = [status |-> "queued", attempts |-> 0] /\ sends'[j] = 0 /\ alerts'[j] = 0
      /\ \A k \in Job \ {j} : jobs'[k] = jobs[k] /\ sends'[k] = sends[k] /\ alerts'[k] = alerts[k]
      /\ lost' = lost \ {j}
  BY <1>1 DEF RetryJob, PrintTypeOK
<1>3. PrintTypeOK'
  <2>1. jobs' \in [Job -> JobType]
    BY <1>1, PrintAssumption DEF RetryJob, PrintTypeOK, JobType
  <2>2. sends' \in [Job -> Nat] /\ alerts' \in [Job -> Nat] /\ lost' \subseteq Job
    BY <1>1 DEF RetryJob, PrintTypeOK
  <2> QED
    BY <1>1, <2>1, <2>2 DEF RetryJob, PrintTypeOK, workVars
<1>4. UNCHANGED <<active, workVars>>
  BY DEF RetryJob
<1> QED
  BY <1>1, <1>2, <1>3, <1>4, PrintAssumption, RowInv DEF Exhausted

LEMMA OtherInv ==
  ASSUME PInv, UNCHANGED <<jobs, sentAt, workVars, seenVars>>,
         due' \subseteq Job, active' \in BOOLEAN
  PROVE  PInv'
<1>0. PrintTypeOK /\ Exclusive /\ Drafts /\ Claims /\ Budget /\ SendsBounded /\ Alerts
  BY DEF PInv
<1>1. PrintTypeOK'
  BY <1>0 DEF PrintTypeOK, workVars, seenVars
<1>2. Exclusive' /\ Drafts' /\ Claims'
  BY <1>0 DEF Exclusive, Drafts, Claims, Untouched, Touched, Dispatching, workVars
<1>3. Budget' /\ SendsBounded' /\ Alerts'
  BY <1>0 DEF Budget, SendsBounded, Alerts, Free, workVars, seenVars
<1> QED
  BY <1>1, <1>2, <1>3 DEF PInv

LEMMA NextPInv == PInv /\ [Next]_vars => PInv'
<1> SUFFICES ASSUME PInv, [Next]_vars PROVE PInv'
  OBVIOUS
<1>0. PrintTypeOK
  BY DEF PInv
<1>1. CASE \E w \in Worker : Start(w) \/ Claim(w) \/ Attempt(w) \/ Commit(w) \/ Abort(w)
  BY <1>1, StartInv, ClaimInv, AttemptInv, CommitInv, AbortInv
<1>2. ASSUME NEW j \in Job, Enqueue(j) PROVE PInv'
  <2> DEFINE to == "queued"
  <2>1. to \in {"queued", "printed", "cancelled"} /\ to = "queued" /\ jobs[j].status = "none"
        /\ jobs' = [jobs EXCEPT ![j].status = to]
        /\ UNCHANGED <<sentAt, due, active, workVars, seenVars>>
    BY <1>2 DEF Enqueue
  <2> HIDE DEF to
  <2> QED
    BY <2>1, StatusInv
<1>3. ASSUME NEW j \in Job, BackoffElapses(j) PROVE PInv'
  BY <1>0, <1>3, OtherInv DEF BackoffElapses, PrintTypeOK
<1>4. ASSUME NEW j \in Job, ConfirmPrinted(j) PROVE PInv'
  BY <1>4, StatusInv DEF ConfirmPrinted
<1>5. ASSUME NEW j \in Job, CancelJob(j) PROVE PInv'
  BY <1>5, StatusInv DEF CancelJob
<1>6. ASSUME NEW j \in Job, RetryJob(j) PROVE PInv'
  BY <1>6, RetryInv
<1>7. CASE SetActive
  BY <1>0, <1>7, OtherInv DEF SetActive, PrintTypeOK
<1>8. CASE UNCHANGED vars
  BY <1>0, <1>8, OtherInv DEF vars, rowVars, PrintTypeOK
<1> QED
  BY <1>1, <1>2, <1>3, <1>4, <1>5, <1>6, <1>7, <1>8 DEF Next

THEOREM PrintInvariance == Spec => []PInv
BY InitPInv, NextPInv, PTL DEF Spec

-----------------------------------------------------------------------------
(* The properties. *)

\* The rows, drafts and claims of the queue keep their types, and no job is
\* attempted more than MAX_ATTEMPTS times in a cycle.
THEOREM PrintTypeCorrect == Spec => []PrintTypeOK
<1>1. PInv => PrintTypeOK
  BY DEF PInv
<1> QED
  BY <1>1, PrintInvariance, PTL

\* Whatever the dispatchers do at once, the printer is given a job no more
\* often than its row counts, but for a dispatch that rolled back.
THEOREM SendsCountedHolds == Spec => []SendsCounted
<1>1. ASSUME PInv, NEW j \in Job \ lost
      PROVE  sends[j] <= IF Free(j) THEN jobs[j].attempts
                         ELSE LET w == CHOOSE v \in Worker : j \in held[v]
                              IN  draft[w][j].attempts
  <2>1. SendsBounded
    BY <1>1 DEF PInv
  <2>2. CASE Free(j)
    BY <2>1, <2>2 DEF SendsBounded
  <2>3. CASE ~Free(j)
    <3> DEFINE w == CHOOSE v \in Worker : j \in held[v]
    <3>1. w \in Worker /\ j \in held[w]
      BY <2>3 DEF Free
    <3> QED
      BY <2>1, <2>3, <3>1 DEF SendsBounded
  <2> QED
    BY <2>2, <2>3
<1>2. PInv => SendsCounted
  BY <1>1 DEF SendsCounted
<1> QED
  BY <1>2, PrintInvariance, PTL

\* An alert is committed once in a cycle of attempts, with the last of them.
THEOREM AlertedOnceHolds == Spec => []AlertedOnce
<1>1. PInv => AlertedOnce
  BY DEF PInv, Alerts, AlertedOnce
<1> QED
  BY <1>1, PrintInvariance, PTL

\* A printed or cancelled job is never written again, nor given to the
\* printer: no dispatcher has it in hand.
THEOREM DoneForGoodHolds == Spec => DoneForGood
<1> DEFINE Kept == \A j \in Job : jobs[j].status \in Terminal =>
                                    jobs'[j] = jobs[j] /\ sends'[j] = sends[j]
<1>1. ASSUME PInv, [Next]_vars, NEW j \in Job, jobs[j].status \in Terminal
      PROVE  jobs'[j] = jobs[j] /\ sends'[j] = sends[j]
  <2>0. PrintTypeOK /\ Drafts /\ Claims
    BY <1>1 DEF PInv
  <2>1. \A w \in Worker : j \notin held[w]
    BY <1>1, <2>0 DEF Drafts, Terminal
  <2>2. ASSUME NEW w \in Worker, Start(w) \/ Claim(w) \/ Abort(w)
        PROVE  jobs'[j] = jobs[j] /\ sends'[j] = sends[j]
    BY <2>2 DEF Start, Claim, Abort, rowVars, seenVars
  <2>3. ASSUME NEW w \in Worker, Commit(w)
        PROVE  jobs'[j] = jobs[j] /\ sends'[j] = sends[j]
    BY <2>1, <2>3 DEF Commit, Seen
  <2>4. ASSUME NEW w \in Worker, Attempt(w)
        PROVE  jobs'[j] = jobs[j] /\ sends'[j] = sends[j]
    <3>1. todo[w] # Unclaimed
      BY <2>4 DEF Attempt
    <3>2. j \notin todo[w]
      BY <2>0, <2>1, <3>1 DEF Claims
    <3> QED
      BY <2>0, <2>4, <3>2 DEF Attempt, rowVars, PrintTypeOK
  <2>5. ASSUME NEW k \in Job, Enqueue(k) \/ BackoffElapses(k) \/ RetryJob(k)
        PROVE  jobs'[j] = jobs[j] /\ sends'[j] = sends[j]
    BY <1>1, <2>0, <2>5 DEF Enqueue, BackoffElapses, RetryJob, Terminal, PrintTypeOK, seenVars
  <2>6. ASSUME NEW k \in Job, ConfirmPrinted(k) \/ CancelJob(k)
        PROVE  jobs'[j] = jobs[j] /\ sends'[j] = sends[j]
    <3>1. j # k
      BY <1>1, <2>6 DEF ConfirmPrinted, CancelJob, MayChange, CanTransition, Transitions, Terminal
    <3> QED
      BY <2>0, <2>6, <3>1 DEF ConfirmPrinted, CancelJob, PrintTypeOK, seenVars
  <2>7. CASE SetActive \/ UNCHANGED vars
    BY <2>7 DEF SetActive, vars, rowVars, seenVars
  <2> QED
    BY <1>1, <2>2, <2>3, <2>4, <2>5, <2>6, <2>7 DEF Next
<1>2. PInv /\ [Next]_vars => [Kept]_vars
  BY <1>1
<1> QED
  BY <1>2, PrintInvariance, PTL DEF Spec, DoneForGood
=============================================================================
