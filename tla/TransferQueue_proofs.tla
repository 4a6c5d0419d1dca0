------------------------ MODULE TransferQueue_proofs ------------------------
(***************************************************************************)
(* Proofs about TransferQueue, for every number of jobs, threads, sessions *)
(* and retries.  The inductive invariant says what each thread carries at  *)
(* each of its steps, which ids are still free, what a stopped job can be  *)
(* doing and which timer a job waits for.                                  *)
(***************************************************************************)
EXTENDS TransferQueue, FiniteSetTheorems, WellFoundedInduction, TLAPS

JobRecords ==
  [state : Pending \cup Finished \cup {"none"}, cancel : BOOLEAN,
   pause : BOOLEAN, attempts : 0 .. MaxRetries, wait : Runs \cup {None},
   session : Sessions \cup {None}, server : Servers]

TaskRecords ==
  [pc : Steps, rows : SUBSET Rows, starting : SUBSET Jobs, next : Steps,
   at : Jobs \cup {None}, seen : SUBSET Sessions,
   result : {"none", "done", "cancelled", "paused", "retryable", "terminal",
             "closed"}]

\* What a thread is about, whether or not it still has rows to write.
PhaseOf(rec) == IF rec.pc = "persist" THEN rec.next ELSE rec.pc

\* A thread has a job exactly while it works on it, and jobs to start only
\* until it has spawned their workers.
Shaped(rec) ==
  /\ rec.pc = "persist" => rec.next \in {"idle", "dispatch", "spawn", "copy"}
  /\ rec.at # None <=> PhaseOf(rec) \in {"start", "copy", "settle"}
  /\ rec.starting # {} => PhaseOf(rec) = "spawn"

Shape == \A t \in Threads : Shaped(task[t])

\* The ids from nextId on are free, and nobody has stopped them.
FreshIds ==
  \A j \in Jobs : j >= nextId => job[j].state = "none" /\ j \notin stopped

\* A stopped job is not queued, and while it winds down one of its flags says
\* so.
StoppedNotQueued ==
  \A j \in stopped : /\ job[j].state # "queued"
                     /\ job[j].state = "active" => job[j].cancel \/ job[j].pause

\* A job waits for a timer that sleeps, and no two for the same.
OwnTimer ==
  \A j \in Jobs : job[j].wait # None =>
    /\ At(job[j].wait, "sleep")
    /\ \A i \in Jobs : job[i].wait = job[j].wait => i = j

-----------------------------------------------------------------------------
(* The first jobs of the list *)

\* A nonempty set of numbers has a least one.
LEMMA LeastNumber ==
  ASSUME NEW ns \in SUBSET Nat, ns # {}
  PROVE  \E n \in ns : \A m \in ns : n <= m
<1> DEFINE Less == OpToRel(<, Nat)
<1>1. PICK n \in ns : \A m \in ns : ~ (<<m, n>> \in Less)
  <2> HIDE DEF Less
  <2>1. IsWellFoundedOn(Less, Nat)
    BY NatLessThanWellFounded DEF Less
  <2> QED
    BY <2>1, WFMin
<1>2. \A m \in ns : ~ (m < n)
  BY <1>1 DEF OpToRel
<1> QED
  BY <1>2

\* Of two members of a finite set of numbers the smaller has fewer below it.
LEMMA BelowGrows ==
  ASSUME NEW js \in SUBSET Nat, IsFiniteSet(js),
         NEW a \in js, NEW b \in js, a < b
  PROVE  LET below(j) == {i \in js : i < j}
         IN  /\ Cardinality(below(a)) \in Nat
             /\ Cardinality(below(b)) \in Nat
             /\ Cardinality(below(a)) < Cardinality(below(b))
<1> DEFINE A == {i \in js : i < a}
           B == {i \in js : i < b}
<1>1. A \subseteq B /\ A # B
  <2>1. a \in Nat /\ b \in Nat /\ \A i \in js : i \in Nat
    OBVIOUS
  <2>2. ASSUME NEW i \in A PROVE i \in B
    <3>1. i \in js /\ i \in Nat /\ i < a
      BY <2>1
    <3> QED
      BY <2>1, <3>1
  <2>3. a \in B /\ a \notin A
    BY <2>1
  <2> QED
    BY <2>2, <2>3
<1>2. IsFiniteSet(B) /\ IsFiniteSet(A) /\ Cardinality(A) <= Cardinality(B)
      /\ Cardinality(A) # Cardinality(B)
  BY <1>1, FS_Subset
<1>3. Cardinality(A) \in Nat /\ Cardinality(B) \in Nat
  BY <1>2, FS_CardinalityType
<1> QED
  BY <1>2, <1>3

\* First returns no more than it is asked for.
LEMMA FirstAtMost ==
  ASSUME NEW js \in SUBSET Jobs, IsFiniteSet(js), NEW k \in Nat
  PROVE  /\ First(js, k) \subseteq js
         /\ IsFiniteSet(First(js, k))
         /\ Cardinality(First(js, k)) <= k
<1> USE NumbersAssumption
<1> DEFINE F == First(js, k)
           below(j) == Cardinality({i \in js : i < j})
           rank == [j \in F |-> below(j)]
<1>1. F \subseteq js /\ IsFiniteSet(F)
  BY FS_Subset DEF First
<1>2. ASSUME Cardinality(F) > k PROVE FALSE
  <2>1. IsFiniteSet(0 .. k - 1) /\ Cardinality(0 .. k - 1) = k
    BY FS_Interval
  <2>2. \A j \in F : below(j) \in 0 .. k - 1
    <3> TAKE j \in F
    <3>1. below(j) \in Nat
      BY <1>1, FS_Subset, FS_CardinalityType
    <3>2. below(j) < k
      BY DEF First
    <3> QED
      BY <3>1, <3>2
  <2>3. rank \in [F -> 0 .. k - 1]
    BY <2>2
  <2>4. Cardinality(0 .. k - 1) < Cardinality(F)
    BY <1>2, <2>1
  <2>5. \E a, b \in F : a # b /\ rank[a] = rank[b]
    <3>1. ASSUME NEW S, S = F, NEW slots, slots = 0 .. k - 1,
                 NEW f, f = rank
          PROVE  \E x, y \in S : x # y /\ f[x] = f[y]
      <4>1. /\ IsFiniteSet(S) /\ IsFiniteSet(slots)
            /\ Cardinality(slots) < Cardinality(S)
        BY <1>1, <2>1, <2>4, <3>1
      <4>2. f \in [S -> slots]
        BY <2>3, <3>1
      <4> QED
        BY <4>1, <4>2, FS_PigeonHole
    <3> QED
      BY <3>1
  <2>6. PICK a \in F, b \in F : a # b /\ below(a) = below(b)
    BY <2>5
  <2>7. a \in js /\ b \in js /\ a \in Nat /\ b \in Nat
    BY <1>1
  <2>8. CASE a < b
    BY <2>6, <2>7, <2>8, BelowGrows
  <2>9. CASE b < a
    BY <2>6, <2>7, <2>9, BelowGrows
  <2> QED
    BY <2>6, <2>7, <2>8, <2>9
<1>3. Cardinality(F) \in Nat
  BY <1>1, FS_CardinalityType
<1> QED
  BY <1>1, <1>2, <1>3

\* It leaves one only when it returns all it is asked for.
LEMMA FirstTakesAll ==
  ASSUME NEW js \in SUBSET Jobs, IsFiniteSet(js), NEW k \in Nat,
         js # First(js, k)
  PROVE  Cardinality(First(js, k)) >= k
<1> USE NumbersAssumption
<1> DEFINE F == First(js, k)
           left == js \ F
<1>1. F \subseteq js /\ IsFiniteSet(F) /\ left # {} /\ left \subseteq Nat
  BY FirstAtMost
<1>2. PICK j \in left : \A m \in left : j <= m
  <2> HIDE DEF left
  <2> QED
    BY <1>1, LeastNumber
<1> DEFINE below == {i \in js : i < j}
<1>3. below \subseteq F
  <2>1. ASSUME NEW i \in below PROVE i \in F
    <3>1. i \in js /\ i \in Nat /\ j \in Nat /\ i < j
      BY <1>1
    <3>2. ~ (j <= i)
      BY <3>1
    <3> QED
      BY <1>2, <3>1, <3>2
  <2> QED
    BY <2>1
<1>4. Cardinality(below) >= k
  <2>1. Cardinality(below) \in Nat
    BY FS_Subset, FS_CardinalityType
  <2>2. ~ (Cardinality(below) < k)
    BY DEF First
  <2> QED
    BY <2>1, <2>2
<1>5. Cardinality(below) <= Cardinality(F) /\ Cardinality(below) \in Nat
      /\ Cardinality(F) \in Nat
  BY <1>1, <1>3, FS_Subset, FS_CardinalityType
<1> QED
  BY <1>4, <1>5
-----------------------------------------------------------------------------
(* Types *)

\* Every thread is of one kind, and None is none of them.
LEMMA Kinds ==
  /\ Main \in Threads /\ Adders \subseteq Threads
  /\ Lockers \subseteq Threads /\ Runs \subseteq Threads
  /\ None \notin Threads /\ None \notin Jobs /\ None \notin Sessions
BY ThreadsDistinct DEF Threads

\* What the steps of the program do to the jobs.
LEMMA JobSteps ==
  ASSUME [Next]_vars
  PROVE  \/ UNCHANGED <<job, nextId, stopped>>
         \/ \E t \in Threads : Dispatch(t)
         \/ \E r \in Runs : FinishJob(r) \/ HandleFailure(r)
         \/ \E j \in Jobs : Elapse(j) \/ CancelJob(j) \/ RetryJob(j)
         \/ \E js \in SUBSET Jobs : Pauses(js) /\ nextId' = nextId
         \/ \E js \in SUBSET With("paused") :
              At(Main, "looked") /\ ResumePaused(js)
         \/ \E a \in Adders, n \in 1 .. 2 : Enqueue(a, n)
         \/ ClearFinished
         \/ Restart
<1>1. CASE \E t \in Threads : Persist(t) \/ Dispatch(t) \/ Spawn(t)
  BY <1>1 DEF Persist, Spawn
<1>2. CASE \E r \in Runs : Worker(r)
  BY <1>2 DEF Worker, Open, Progress, Notice, CopyEnds, Wake
<1>3. CASE Command
  <2>1. CASE \E j \in Jobs : PauseJob(j)
    BY <2>1 DEF PauseJob
  <2>2. CASE \E t \in {Main} \cup Lockers : PauseAll(t)
    BY <2>2 DEF PauseAll
  <2>3. CASE \E j \in Jobs : ResumeJob(j)
    <3>1. \A j \in Jobs : {j} \cap With("paused") \in SUBSET With("paused")
      OBVIOUS
    <3> QED
      BY <2>3, <3>1 DEF ResumeJob
  <2>4. CASE ResumeAll
    BY <2>4 DEF ResumeAll
  <2>5. CASE LookAtSessions \/ DeleteRows
    BY <2>5 DEF LookAtSessions, DeleteRows
  <2> QED
    BY <1>3, <2>1, <2>2, <2>3, <2>4, <2>5 DEF Command
<1>4. CASE Environment
  BY <1>4 DEF Environment, Connect, Drop, LockKillsSessions
<1>5. CASE UNCHANGED vars
  BY <1>5 DEF vars
<1> QED
  BY <1>1, <1>2, <1>3, <1>4, <1>5 DEF Next

\* A job at rest is a job.
LEMMA AtRestType ==
  ASSUME TypeOK, NEW j \in Jobs, NEW s \in Pending \cup Finished
  PROVE  AtRest(j, s) \in JobRecords
<1>1. job[j] \in JobRecords
  BY DEF TypeOK, JobRecords
<1> QED
  BY <1>1 DEF AtRest, JobRecords

\* A restored job is a job.
LEMMA RestoredType ==
  ASSUME NEW d \in Rows
  PROVE  RestoredJob(d) \in JobRecords
BY NumbersAssumption
   DEF Rows, RestoredJob, NoJob, JobRecords, Pending, Servers

\* A session a job is rebound to is one that was seen live.
LEMMA ReboundSeen ==
  ASSUME NEW rec, NEW seen
  PROVE  Rebound(rec, seen) \subseteq seen
BY DEF Rebound

\* The record of a job that does not exist.
LEMMA NoJobType == NoJob \in JobRecords
BY NumbersAssumption DEF NoJob, JobRecords, Servers

\* Every step keeps the types of the jobs.
LEMMA JobTypeStep ==
  ASSUME TypeOK, Shape, [Next]_vars
  PROVE  /\ job' \in [Jobs -> JobRecords]
         /\ nextId' \in Nat
         /\ stopped' \subseteq Jobs
<1> DEFINE Goal == /\ job' \in [Jobs -> JobRecords]
                   /\ nextId' \in Nat
                   /\ stopped' \subseteq Jobs
<1>0. job \in [Jobs -> JobRecords] /\ nextId \in Nat /\ stopped \subseteq Jobs
  BY DEF TypeOK, JobRecords
<1>1. CASE UNCHANGED <<job, nextId, stopped>>
  BY <1>0, <1>1
<1>2. ASSUME NEW t \in Threads, Dispatch(t) PROVE Goal
  BY <1>0, <1>2 DEF Dispatch, JobRecords, Pending
<1>3. ASSUME NEW r \in Runs, FinishJob(r) PROVE Goal
  <2>1. task[r].at \in Jobs => AtRest(task[r].at, task[r].result) \in JobRecords
    BY <1>3, AtRestType DEF FinishJob, Pending, Finished
  <2> QED
    BY <1>0, <1>3, <2>1 DEF FinishJob
<1>4. ASSUME NEW r \in Runs, HandleFailure(r) PROVE Goal
  <2> DEFINE j == task[r].at
  <2>1. j \in Jobs
    BY <1>4, Kinds DEF HandleFailure, Shape, Shaped, PhaseOf, At, TypeOK
  <2>2. job' \in [Jobs -> JobRecords]
    <3>1. CASE \E s \in FailureStops(job[j]) :
                 job' = [job EXCEPT ![j] = AtRest(j, s)]
      BY <1>0, <2>1, <3>1, AtRestType DEF FailureStops, Pending, Finished
    <3>2. CASE job' = [job EXCEPT ![j] = AtRest(j, "failed")]
      BY <1>0, <2>1, <3>2, AtRestType DEF Pending, Finished
    <3>3. ASSUME NEW t \in Runs, Retryable(r),
                 job' = [job EXCEPT ![j] =
                   [AtRest(j, "queued") EXCEPT !.attempts = @ + 1, !.wait = t]]
          PROVE  job' \in [Jobs -> JobRecords]
      <4>1. AtRest(j, "queued") \in JobRecords
        BY <2>1, AtRestType DEF Pending
      <4>2. /\ AtRest(j, "queued").attempts = job[j].attempts
            /\ job[j].attempts \in 0 .. MaxRetries
            /\ job[j].attempts < MaxRetries
        BY <1>0, <2>1, <3>3 DEF AtRest, JobRecords, Retryable
      <4>3. AtRest(j, "queued").attempts + 1 \in 0 .. MaxRetries
        BY <4>2, NumbersAssumption
      <4>4. [AtRest(j, "queued") EXCEPT !.attempts = @ + 1, !.wait = t]
              \in JobRecords
        BY <4>1, <4>3 DEF JobRecords
      <4> QED
        BY <1>0, <3>3, <4>4
    <3> QED
      BY <1>4, <3>1, <3>2, <3>3 DEF HandleFailure
  <2> QED
    BY <1>0, <1>4, <2>2 DEF HandleFailure
<1>5. ASSUME NEW j \in Jobs, Elapse(j) PROVE Goal
  BY <1>0, <1>5 DEF Elapse, JobRecords
<1>6. ASSUME NEW j \in Jobs, CancelJob(j) PROVE Goal
  <2> DEFINE new == [job[j] EXCEPT
                       !.cancel = (job[j].state = "active"),
                       !.state = IF @ \in {"queued", "paused"} THEN "cancelled"
                                 ELSE @]
  <2>1. new \in JobRecords
    BY <1>0 DEF JobRecords, Finished
  <2>2. job' = [job EXCEPT ![j] = new]
    BY <1>0, <1>6 DEF CancelJob, JobRecords
  <2> QED
    BY <1>0, <1>6, <2>1, <2>2 DEF CancelJob
<1>7. ASSUME NEW j \in Jobs, RetryJob(j) PROVE Goal
  <2>1. ASSUME NEW s \in Rebound(job[j], task[Main].seen)
        PROVE  [AtRest(j, "queued") EXCEPT !.attempts = 0, !.wait = None,
                                           !.session = s] \in JobRecords
    <3>1. s \in Sessions
      BY <2>1, Kinds, ReboundSeen DEF TypeOK
    <3>2. AtRest(j, "queued") \in JobRecords
      BY AtRestType DEF Pending
    <3>3. 0 \in 0 .. MaxRetries
      BY NumbersAssumption
    <3> QED
      BY <3>1, <3>2, <3>3 DEF JobRecords
  <2> QED
    BY <1>0, <1>7, <2>1 DEF RetryJob
<1>8. ASSUME NEW js \in SUBSET Jobs, Pauses(js), nextId' = nextId PROVE Goal
  <2>1. ASSUME NEW j \in Jobs
        PROVE  job'[j] \in JobRecords
    <3>1. CASE j \in js /\ job[j].state = "active"
      <4>1. job'[j] = [job[j] EXCEPT !.pause = TRUE]
        BY <1>8, <3>1 DEF Pauses
      <4> QED
        BY <1>0, <4>1 DEF JobRecords
    <3>2. CASE j \in js /\ job[j].state = "queued"
      <4>1. job'[j] = [job[j] EXCEPT !.state = "paused", !.wait = None]
        BY <1>8, <3>2 DEF Pauses
      <4> QED
        BY <1>0, <4>1 DEF JobRecords, Pending
    <3>3. CASE j \notin js \/ job[j].state \notin {"active", "queued"}
      <4>1. job'[j] = job[j]
        BY <1>8, <3>3 DEF Pauses
      <4> QED
        BY <1>0, <4>1
    <3> QED
      BY <3>1, <3>2, <3>3
  <2>2. job' = [j \in Jobs |-> job'[j]]
    BY <1>8 DEF Pauses
  <2>3. job' \in [Jobs -> JobRecords]
    BY <2>1, <2>2
  <2>4. stopped' \subseteq Jobs
    BY <1>0, <1>8 DEF Pauses
  <2> QED
    BY <1>0, <1>8, <2>3, <2>4
<1>9. ASSUME NEW js \in SUBSET With("paused"), ResumePaused(js) PROVE Goal
  <2>1. \A j \in Jobs : Rebound(job[j], task[Main].seen) \subseteq Sessions
    BY Kinds, ReboundSeen DEF TypeOK
  <2>2. ASSUME NEW j \in Jobs, Rebound(job[j], task[Main].seen) # {}
        PROVE  (CHOOSE s \in Rebound(job[j], task[Main].seen) : TRUE) \in Sessions
    BY <2>1, <2>2
  <2>3. ASSUME NEW j \in Jobs
        PROVE  job'[j] \in JobRecords
    <3>1. CASE j \in js /\ Rebound(job[j], task[Main].seen) # {}
      BY <1>0, <1>9, <2>2, <3>1 DEF ResumePaused, JobRecords, Pending
    <3>2. CASE ~ (j \in js /\ Rebound(job[j], task[Main].seen) # {})
      BY <1>0, <1>9, <3>2 DEF ResumePaused
    <3> QED
      BY <3>1, <3>2
  <2>4. job' = [j \in Jobs |-> job'[j]]
    BY <1>9 DEF ResumePaused
  <2> QED
    BY <1>0, <1>9, <2>3, <2>4 DEF ResumePaused
<1>10. ASSUME NEW a \in Adders, NEW n \in 1 .. 2, Enqueue(a, n) PROVE Goal
  <2>1. \A s \in Sessions : \A server \in {ServerOf[s], None} :
          [NoJob EXCEPT !.state = "queued", !.session = s, !.server = server]
            \in JobRecords
    BY NoJobType DEF JobRecords, Pending, Servers
  <2>2. PICK s \in Sessions : \E server \in {ServerOf[s], None} :
          job' = [j \in Jobs |->
                   IF j \in nextId .. nextId + n - 1
                   THEN [NoJob EXCEPT !.state = "queued", !.session = s,
                                      !.server = server]
                   ELSE job[j]]
    BY <1>10 DEF Enqueue
  <2>3. PICK server \in {ServerOf[s], None} :
          job' = [j \in Jobs |->
                   IF j \in nextId .. nextId + n - 1
                   THEN [NoJob EXCEPT !.state = "queued", !.session = s,
                                      !.server = server]
                   ELSE job[j]]
    BY <2>2
  <2>4. [NoJob EXCEPT !.state = "queued", !.session = s, !.server = server]
          \in JobRecords
    BY <2>1
  <2>5. job' \in [Jobs -> JobRecords]
    BY <1>0, <2>3, <2>4
  <2> QED
    BY <1>0, <1>10, <2>5 DEF Enqueue
<1>11. CASE ClearFinished
  BY <1>0, <1>11, NoJobType DEF ClearFinished
<1>12. CASE Restart
  <2> DEFINE ids == {d.id : d \in Restored}
  <2>1. ids \subseteq Jobs /\ Restored \subseteq Rows
    BY DEF Restored, TypeOK, Rows
  <2>2. \A j \in ids : (CHOOSE d \in Restored : d.id = j) \in Rows
    BY <2>1
  <2>3. \A j \in ids : RestoredJob(CHOOSE d \in Restored : d.id = j) \in JobRecords
    BY <2>2, RestoredType
  <2>4. job' = [j \in Jobs |->
                 IF j \in ids
                 THEN RestoredJob(CHOOSE d \in Restored : d.id = j)
                 ELSE NoJob]
    BY <1>12 DEF Restart
  <2> HIDE DEF ids
  <2>6. job' \in [Jobs -> JobRecords]
    BY <2>3, <2>4, NoJobType
  <2>7. nextId' \in {0} \cup {i + 1 : i \in ids}
    BY <1>12 DEF Restart, ids
  <2>5. nextId' \in Nat
    BY <2>1, <2>7, NumbersAssumption
  <2> USE DEF ids
  <2> QED
    BY <1>12, <2>1, <2>5, <2>6 DEF Restart
<1> QED
  BY JobSteps, <1>1, <1>2, <1>3, <1>4, <1>5, <1>6, <1>7, <1>8, <1>9, <1>10,
     <1>11, <1>12

\* The records a thread can be in.
Wellformed == {rec \in TaskRecords : Shaped(rec)}

\* A thread that is idle is well formed.
LEMMA IdleWellformed == Idle \in Wellformed
BY DEF Idle, Wellformed, TaskRecords, Shaped, PhaseOf, Steps

\* What Writes returns, whatever the rows.
LEMMA WritesShape ==
  ASSUME NEW js \in SUBSET Jobs, NEW next \in {"idle", "dispatch", "spawn"},
         job' \in [Jobs -> JobRecords]
  PROVE  /\ Writes(js, next) \in TaskRecords
         /\ Writes(js, next).pc \in {"persist", next}
         /\ Writes(js, next).pc = "persist" => Writes(js, next).next = next
         /\ Writes(js, next).at = None
         /\ Writes(js, next).starting = {}
<1> DEFINE rows == {ToRow(j, job'[j]) : j \in js \cap Shadowed}
<1>1. rows \in SUBSET Rows
  <2> SUFFICES ASSUME NEW j \in js PROVE ToRow(j, job'[j]) \in Rows
    OBVIOUS
  <2>1. job'[j] \in JobRecords
    OBVIOUS
  <2> QED
    BY <2>1 DEF ToRow, Rows, JobRecords
<1>2. Writes(js, next) \in {[Idle EXCEPT !.pc = next],
                            [Idle EXCEPT !.pc = "persist", !.next = next,
                                         !.rows = rows]}
  BY DEF Writes
<1> HIDE DEF rows
<1>3. next \in Steps
  BY DEF Steps
<1> QED
  BY <1>1, <1>2, <1>3 DEF Idle, TaskRecords, Steps

\* Every step keeps the types of the threads and what each carries.
LEMMA TaskStep ==
  ASSUME TypeOK, Shape, [Next]_vars
  PROVE  task' \in [Threads -> Wellformed]
<1>0. /\ task \in [Threads -> TaskRecords]
      /\ task \in [Threads -> Wellformed]
  BY DEF TypeOK, TaskRecords, Wellformed, Shape
<1>w. ASSUME NEW js \in SUBSET Jobs, NEW next \in {"idle", "dispatch"}
      PROVE  Writes(js, next) \in Wellformed
  <2>1. job' \in [Jobs -> JobRecords]
    BY JobTypeStep
  <2> QED
    BY <2>1, WritesShape DEF Wellformed, Shaped, PhaseOf
<1>i. Idle \in Wellformed /\ \A pc \in {"dispatch", "sleep", "delete"} :
                               [Idle EXCEPT !.pc = pc] \in Wellformed
  BY DEF Idle, Wellformed, TaskRecords, Shaped, PhaseOf, Steps
<1>1. ASSUME NEW t \in Threads, Persist(t)
      PROVE  task' \in [Threads -> Wellformed]
  <2>1. task[t] \in TaskRecords /\ Shaped(task[t]) /\ task[t].pc = "persist"
    BY <1>0, <1>1 DEF Wellformed, Persist, At
  <2>2. PICK row \in task[t].rows :
          LET rest == task[t].rows \ {row}
          IN  task' = [task EXCEPT
                ![t].rows = rest,
                ![t].pc = IF rest = {} THEN task[t].next ELSE "persist",
                ![t].next = IF rest = {} THEN "idle" ELSE task[t].next]
    BY <1>1 DEF Persist
  <2> DEFINE rest == task[t].rows \ {row}
             new == [task[t] EXCEPT
                !.rows = rest,
                !.pc = IF rest = {} THEN task[t].next ELSE "persist",
                !.next = IF rest = {} THEN "idle" ELSE task[t].next]
  <2>3. task' = [task EXCEPT ![t] = new]
    BY <1>0, <2>2 DEF TaskRecords
  <2>4. new \in TaskRecords
    BY <2>1 DEF TaskRecords, Steps
  <2>5. Shaped(new)
    BY <2>1 DEF Shaped, PhaseOf, TaskRecords
  <2> QED
    BY <1>0, <2>3, <2>4, <2>5 DEF Wellformed
<1>2. ASSUME NEW t \in Threads, Dispatch(t)
      PROVE  task' \in [Threads -> Wellformed]
  <2>1. PICK start \in SUBSET Jobs :
          task' = [task EXCEPT ![t] =
            IF start = {} THEN Idle
            ELSE [Writes(start, "spawn") EXCEPT !.starting = start]]
    <3>1. \A k : First(Dispatchable, k) \in SUBSET Jobs
      BY DEF First, Dispatchable, With
    <3> QED
      BY <1>2, <3>1 DEF Dispatch, Becomes
  <2>2. [Writes(start, "spawn") EXCEPT !.starting = start] \in Wellformed
    <3>1. job' \in [Jobs -> JobRecords]
      BY JobTypeStep
    <3> QED
      BY <3>1, WritesShape DEF Wellformed, Shaped, PhaseOf, TaskRecords
  <2> QED
    BY <1>0, <1>i, <2>1, <2>2
<1>3. ASSUME NEW t \in Threads, Spawn(t)
      PROVE  task' \in [Threads -> Wellformed]
  <2>1. task[t] \in TaskRecords /\ Shaped(task[t]) /\ task[t].pc = "spawn"
    BY <1>0, <1>3 DEF Wellformed, Spawn, At
  <2>2. PICK j \in task[t].starting, r \in Runs :
          LET rest == task[t].starting \ {j}
          IN  task' = [task EXCEPT
                ![t] = IF rest = {} THEN Idle ELSE [@ EXCEPT !.starting = rest],
                ![r] = [Idle EXCEPT !.pc = "start", !.at = j]]
    BY <1>3 DEF Spawn
  <2> DEFINE rest == task[t].starting \ {j}
  <2>3. [task[t] EXCEPT !.starting = rest] \in Wellformed
    BY <2>1 DEF Wellformed, Shaped, PhaseOf, TaskRecords
  <2>4. j \in Jobs /\ j # None
    BY <2>1, Kinds DEF TaskRecords
  <2>5. [Idle EXCEPT !.pc = "start", !.at = j] \in Wellformed
    BY <2>4 DEF Idle, Wellformed, Shaped, PhaseOf, TaskRecords, Steps
  <2> QED
    BY <1>0, <1>i, <2>2, <2>3, <2>5
<1>4. ASSUME NEW r \in Runs, Worker(r)
      PROVE  task' \in [Threads -> Wellformed]
  <2>0. r \in Threads /\ task[r] \in TaskRecords /\ Shaped(task[r])
    BY <1>0, Kinds DEF Wellformed
  <2>1. CASE Open(r)
    <3>1. \E new \in {[task[r] EXCEPT !.pc = "copy"],
                      [task[r] EXCEPT !.pc = "settle", !.result = "closed"]} :
            task' = [task EXCEPT ![r] = new]
      BY <1>0, <2>0, <2>1 DEF Open, MovesTo, Becomes
    <3>2. /\ [task[r] EXCEPT !.pc = "copy"] \in Wellformed
          /\ [task[r] EXCEPT !.pc = "settle", !.result = "closed"] \in Wellformed
      BY <2>0, <2>1 DEF Open, At, Wellformed, Shaped, PhaseOf, TaskRecords, Steps
    <3> QED
      BY <1>0, <3>1, <3>2
  <2>2. CASE Progress(r)
    <3>1. ToRow(task[r].at, job[task[r].at]) \in Rows
      BY <2>2, NumbersAssumption
      DEF Progress, ToRow, Rows, TypeOK
    <3> DEFINE rows == {ToRow(task[r].at, job[task[r].at])}
    <3>2. task' = [task EXCEPT ![r] = [task[r] EXCEPT
                     !.pc = "persist", !.next = "copy", !.rows = rows]]
      BY <2>2 DEF Progress, Becomes
    <3>3. rows \in SUBSET Rows
      BY <3>1
    <3> HIDE DEF rows
    <3> QED
      BY <1>0, <2>0, <2>2, <3>2, <3>3 DEF Progress, At, Wellformed, Shaped,
         PhaseOf, TaskRecords, Steps
  <2>3. CASE Notice(r)
    BY <1>0, <2>0, <2>3 DEF Notice, At, Becomes, Wellformed, Shaped, PhaseOf,
       TaskRecords, Steps
  <2>4. CASE CopyEnds(r)
    <3>1. \A end \in {"done", "retryable", "terminal"} :
            [task[r] EXCEPT !.pc = "settle", !.result = end] \in Wellformed
      BY <2>0, <2>4 DEF CopyEnds, At, Wellformed, Shaped, PhaseOf, TaskRecords,
         Steps
    <3> QED
      BY <1>0, <2>4, <3>1 DEF CopyEnds, Becomes
  <2>5. CASE FinishJob(r) \/ HandleFailure(r)
    <3>1. task[r].at \in Jobs
      BY <2>0, <2>5, Kinds
      DEF FinishJob, HandleFailure, At, Shaped, PhaseOf, TaskRecords
    <3>2. {task[r].at} \in SUBSET Jobs
      BY <3>1
    <3> QED
      BY <1>0, <1>w, <1>i, <2>0, <2>5, <3>2, Kinds
      DEF FinishJob, HandleFailure, Becomes
  <2>6. CASE Wake(r)
    BY <1>0, <2>0, <2>6 DEF Wake, At, MovesTo, Wellformed, Shaped, PhaseOf,
       TaskRecords, Steps
  <2> QED
    BY <1>4, <2>1, <2>2, <2>3, <2>4, <2>5, <2>6 DEF Worker
<1>5. ASSUME NEW j \in Jobs, CancelJob(j) \/ PauseJob(j) \/ ResumeJob(j) \/ RetryJob(j)
      PROVE  task' \in [Threads -> Wellformed]
  <2>1. \A s \in {"queued", "paused"} :
          {j} \in SUBSET Jobs /\ {j} \cap With(s) \in SUBSET Jobs
    OBVIOUS
  <2>2. CASE CancelJob(j)
    BY <1>0, <1>w, <2>1, <2>2, Kinds DEF CancelJob, Becomes
  <2>3. CASE PauseJob(j)
    BY <1>0, <1>w, <2>1, <2>3, Kinds DEF PauseJob, Becomes
  <2>4. CASE ResumeJob(j)
    BY <1>0, <1>w, <2>1, <2>4, Kinds DEF ResumeJob, ResumePaused, Becomes
  <2>5. CASE RetryJob(j)
    BY <1>0, <1>w, <1>i, <2>1, <2>5, Kinds DEF RetryJob, Becomes
  <2> QED
    BY <1>5, <2>2, <2>3, <2>4, <2>5
<1>6. CASE Command
  <2>1. \A s : With(s) \in SUBSET Jobs
    BY DEF With
  <2>2. ASSUME NEW t \in {Main} \cup Lockers, PauseAll(t)
        PROVE  task' \in [Threads -> Wellformed]
    <3>1. t \in Threads /\ With("queued") \in SUBSET Jobs
      BY <2>1, Kinds
    <3>2. task' = [task EXCEPT ![t] = Writes(With("queued"), "idle")]
      BY <2>2 DEF PauseAll, Becomes
    <3>3. Writes(With("queued"), "idle") \in Wellformed
      BY <1>w, <3>1
    <3> QED
      BY <1>0, <3>1, <3>2, <3>3
  <2>3. ASSUME NEW a \in Adders, NEW n \in 1 .. 2, Enqueue(a, n)
        PROVE  task' \in [Threads -> Wellformed]
    <3>1. PICK new \in SUBSET Jobs :
            task' = [task EXCEPT ![a] = Writes(new, "dispatch")]
      BY <2>3 DEF Enqueue, Becomes
    <3>2. Writes(new, "dispatch") \in Wellformed
      BY <1>w
    <3> QED
      BY <1>0, <3>1, <3>2, Kinds
  <2>4. CASE LookAtSessions
    <3>1. [Idle EXCEPT !.pc = "looked", !.seen = live] \in Wellformed
      BY DEF TypeOK, Idle, Wellformed, TaskRecords, Shaped, PhaseOf, Steps
    <3> QED
      BY <1>0, <2>4, <3>1, Kinds DEF LookAtSessions, Becomes
  <2>5. CASE ResumeAll
    BY <1>0, <1>w, <2>1, <2>5, Kinds DEF ResumeAll, ResumePaused, Becomes
  <2>6. CASE ClearFinished \/ DeleteRows
    BY <1>0, <1>i, <2>6, Kinds DEF ClearFinished, DeleteRows, Becomes
  <2> QED
    BY <1>5, <1>6, <2>2, <2>3, <2>4, <2>5, <2>6 DEF Command
<1>7. CASE Environment
  <2>1. ASSUME NEW l \in Lockers, LockKillsSessions(l)
        PROVE  task' \in [Threads -> Wellformed]
    BY <1>0, <2>1, Kinds DEF LockKillsSessions, At, MovesTo, Wellformed,
       Shaped, PhaseOf, TaskRecords, Steps
  <2>2. CASE Restart
    BY <1>i, <2>2 DEF Restart
  <2> QED
    BY <1>0, <1>7, <2>1, <2>2 DEF Environment, Connect, Drop
<1>8. ASSUME NEW j \in Jobs, Elapse(j)
      PROVE  task' \in [Threads -> Wellformed]
  BY <1>0, <1>8 DEF Elapse
<1>9. CASE UNCHANGED vars
  BY <1>0, <1>9 DEF vars
<1> QED
  BY <1>1, <1>2, <1>3, <1>4, <1>6, <1>7, <1>8, <1>9 DEF Next

\* Every step keeps the types of the rows and of the sessions.
LEMMA DiskStep ==
  ASSUME TypeOK, [Next]_vars
  PROVE  disk' \subseteq Rows /\ live' \subseteq Sessions /\ opened' \in Nat
<1> USE DEF TypeOK
<1>1. ASSUME NEW t \in Threads, Persist(t) \/ Dispatch(t) \/ Spawn(t)
      PROVE  disk' \subseteq Rows /\ live' \subseteq Sessions /\ opened' \in Nat
  BY <1>1 DEF Persist, Dispatch, Spawn
<1>2. ASSUME NEW r \in Runs, Worker(r)
      PROVE  UNCHANGED <<disk, live, opened>>
  BY <1>2 DEF Worker, Open, Progress, Notice, CopyEnds, FinishJob,
     HandleFailure, Wake
<1>3. CASE Command
  BY <1>3 DEF Command, CancelJob, PauseJob, ResumeJob, ResumeAll, ResumePaused,
     RetryJob, PauseAll, Enqueue, LookAtSessions, ClearFinished, DeleteRows
<1>4. CASE Environment
  BY <1>4 DEF Environment, Connect, Drop, LockKillsSessions, Restart
<1>5. ASSUME NEW j \in Jobs, Elapse(j) PROVE UNCHANGED <<disk, live, opened>>
  BY <1>5 DEF Elapse
<1>6. CASE UNCHANGED vars
  BY <1>6 DEF vars
<1> QED
  BY <1>1, <1>2, <1>3, <1>4, <1>5, <1>6 DEF Next

\* The program starts with the types and in the shape.
LEMMA TypeInit == Init => TypeOK /\ Shape
<1>1. NoJob \in JobRecords /\ Idle \in Wellformed
  BY NoJobType, IdleWellformed
<1> QED
  BY <1>1 DEF Init, TypeOK, Shape, JobRecords, TaskRecords, Wellformed

\* Every step keeps the types and the shape.
LEMMA TypeStep ==
  ASSUME TypeOK, Shape, [Next]_vars
  PROVE  TypeOK' /\ Shape'
<1>1. TypeOK'
  BY JobTypeStep, TaskStep, DiskStep
  DEF TypeOK, Wellformed, JobRecords, TaskRecords
<1>2. Shape'
  BY TaskStep DEF Shape, Wellformed
<1> QED
  BY <1>1, <1>2

\* In every state of the program, the variables have their types: no job is
\* retried more often than MaxRetries allows (handle_job_failure), and every
\* row that a restart can read is one (persist_job).
THEOREM TypeCorrect == Spec => []TypeOK
<1>1. Init => TypeOK /\ Shape
  BY TypeInit
<1>2. TypeOK /\ Shape /\ [Next]_vars => TypeOK' /\ Shape'
  BY TypeStep
<1> QED
  BY <1>1, <1>2, PTL DEF Spec

\* The ids that a restart restores.
RestoredIds == {d.id : d \in Restored}

\* After a restart a job is restored or does not exist.
LEMMA RestartJobs ==
  ASSUME TypeOK, Restart
  PROVE  \A j \in Jobs :
           /\ job'[j].state = IF j \in RestoredIds THEN "paused" ELSE "none"
           /\ job'[j].wait = None /\ job'[j].session = None
<1> TAKE j \in Jobs
<1>1. job'[j] = IF j \in RestoredIds
                THEN RestoredJob(CHOOSE d \in Restored : d.id = j) ELSE NoJob
  BY DEF Restart, RestoredIds
<1> QED
  BY <1>1 DEF RestoredJob, NoJob

\* Every step hands out only free ids.
LEMMA FreshStep ==
  ASSUME TypeOK, Shape, FreshIds, OneWorkerPerActiveJob, [Next]_vars
  PROVE  FreshIds'
<1> USE DEF FreshIds
<1>0. job \in [Jobs -> JobRecords] /\ nextId \in Nat /\ stopped \subseteq Jobs
      /\ Jobs \subseteq Nat
  BY NumbersAssumption DEF TypeOK, JobRecords
<1>1. CASE UNCHANGED <<job, nextId, stopped>>
  BY <1>1
<1>2. ASSUME NEW t \in Threads, Dispatch(t) PROVE FreshIds'
  BY <1>0, <1>2 DEF Dispatch, First, Dispatchable, With
<1>3. ASSUME NEW r \in Runs, FinishJob(r) \/ HandleFailure(r) PROVE FreshIds'
  <2>1. task[r].at \in Jobs => job[task[r].at].state = "active"
    BY Kinds DEF OneWorkerPerActiveJob, Carries
  <2>2. /\ nextId' = nextId /\ stopped' = stopped
        /\ \A j \in Jobs : j # task[r].at => job'[j] = job[j]
    BY <1>0, <1>3 DEF FinishJob, HandleFailure
  <2> QED
    BY <2>1, <2>2
<1>4. ASSUME NEW j \in Jobs, Elapse(j) \/ CancelJob(j) \/ RetryJob(j)
      PROVE  FreshIds'
  <2>1. /\ nextId' = nextId
        /\ \A i \in Jobs : i # j => /\ job'[i] = job[i]
                                    /\ i \in stopped' => i \in stopped
    BY <1>0, <1>4 DEF Elapse, CancelJob, RetryJob
  <2>2. job[j].state = "none" => Elapse(j)
    BY <1>4 DEF CancelJob, RetryJob, Pending
  <2>3. CASE Elapse(j)
    BY <1>0, <2>1, <2>3 DEF Elapse, JobRecords
  <2>4. CASE job[j].state # "none"
    BY <2>1, <2>4
  <2> QED
    BY <2>2, <2>3, <2>4
<1>5. ASSUME NEW js \in SUBSET Jobs, Pauses(js), nextId' = nextId
      PROVE  FreshIds'
  BY <1>0, <1>5 DEF Pauses
<1>6. ASSUME NEW js \in SUBSET With("paused"), ResumePaused(js)
      PROVE  FreshIds'
  BY <1>0, <1>6 DEF ResumePaused, With
<1>7. ASSUME NEW a \in Adders, NEW n \in 1 .. 2, Enqueue(a, n)
      PROVE  FreshIds'
  <2>1. /\ nextId' = nextId + n /\ stopped' = stopped
        /\ \A j \in Jobs : j \notin nextId .. nextId + n - 1 => job'[j] = job[j]
    BY <1>7 DEF Enqueue
  <2> QED
    BY <1>0, <2>1
<1>8. CASE ClearFinished
  BY <1>0, <1>8 DEF ClearFinished, NoJob
<1>9. CASE Restart
  <2>1. \A j \in RestoredIds : j < nextId'
    BY <1>9 DEF Restart, RestoredIds
  <2>2. stopped' = RestoredIds /\ nextId' \in Nat
    BY <1>9, JobTypeStep DEF Restart, RestoredIds
  <2>3. \A j \in Jobs : j >= nextId' => j \notin RestoredIds
    BY <1>0, <2>1, <2>2
  <2> QED
    BY <1>9, <2>2, <2>3, RestartJobs
<1> QED
  BY JobSteps, <1>1, <1>2, <1>3, <1>4, <1>5, <1>6, <1>7, <1>8, <1>9

\* The steps that start a job or bring one to rest.
Turns == \/ \E t \in Threads : Dispatch(t)
         \/ \E r \in Runs : FinishJob(r) \/ HandleFailure(r)
         \/ Restart

\* Every other step leaves the same jobs active.
LEMMA ActiveStep ==
  ASSUME TypeOK, FreshIds, [Next]_vars
  PROVE  Turns \/ Active' = Active
<1>0. job \in [Jobs -> JobRecords] /\ nextId \in Nat /\ Jobs \subseteq Nat
  BY NumbersAssumption DEF TypeOK, JobRecords
<1> SUFFICES ASSUME ~ Turns
             PROVE  \A j \in Jobs : job'[j].state = "active" <=>
                                    job[j].state = "active"
  BY DEF Active, With
<1>1. CASE UNCHANGED <<job, nextId, stopped>>
  BY <1>1
<1>2. ASSUME NEW j \in Jobs, Elapse(j) PROVE job'[j].state = job[j].state
  BY <1>0, <1>2 DEF Elapse, JobRecords
<1>3. ASSUME NEW j \in Jobs, CancelJob(j)
      PROVE  job'[j].state = "active" <=> job[j].state = "active"
  BY <1>0, <1>3 DEF CancelJob, JobRecords
<1>4. ASSUME NEW j \in Jobs, RetryJob(j)
      PROVE  job'[j].state = "active" <=> job[j].state = "active"
  <2>1. CASE UNCHANGED job
    BY <2>1
  <2>2. CASE ~ UNCHANGED job
    <3>1. /\ job[j].state \in {"failed", "cancelled"}
          /\ \E s \in Rebound(job[j], task[Main].seen) :
               job' = [job EXCEPT ![j] =
                        [AtRest(j, "queued") EXCEPT !.attempts = 0,
                           !.wait = None, !.session = s]]
      BY <1>4, <2>2 DEF RetryJob
    <3>2. job'[j].state = "queued"
      BY <1>0, <3>1 DEF AtRest, JobRecords
    <3> QED
      BY <3>1, <3>2
  <2> QED
    BY <1>4, <2>1, <2>2 DEF RetryJob
<1>5. ASSUME NEW j \in Jobs, Elapse(j) \/ CancelJob(j) \/ RetryJob(j)
      PROVE  \A i \in Jobs : i # j => job'[i] = job[i]
  BY <1>0, <1>5 DEF Elapse, CancelJob, RetryJob
<1>6. ASSUME NEW js \in SUBSET Jobs, Pauses(js), NEW j \in Jobs
      PROVE  job'[j].state = "active" <=> job[j].state = "active"
  BY <1>0, <1>6 DEF Pauses, JobRecords
<1>7. ASSUME NEW js \in SUBSET With("paused"), ResumePaused(js), NEW j \in Jobs
      PROVE  job'[j].state = "active" <=> job[j].state = "active"
  BY <1>0, <1>7 DEF ResumePaused, With, JobRecords
<1>8. ASSUME NEW a \in Adders, NEW n \in 1 .. 2, Enqueue(a, n), NEW j \in Jobs
      PROVE  job'[j].state = "active" <=> job[j].state = "active"
  <2>1. CASE j \in nextId .. nextId + n - 1
    <3>1. job'[j].state = "queued"
      BY <1>8, <2>1 DEF Enqueue, NoJob
    <3>2. job[j].state = "none"
      BY <1>0, <2>1 DEF FreshIds
    <3> QED
      BY <3>1, <3>2
  <2>2. CASE j \notin nextId .. nextId + n - 1
    BY <1>8, <2>2 DEF Enqueue
  <2> QED
    BY <2>1, <2>2
<1>9. ASSUME ClearFinished, NEW j \in Jobs
      PROVE  job'[j].state = "active" <=> job[j].state = "active"
  BY <1>9 DEF ClearFinished, NoJob, Finished
<1> QED
  BY JobSteps, <1>1, <1>2, <1>3, <1>4, <1>5, <1>6, <1>7, <1>8, <1>9 DEF Turns

-----------------------------------------------------------------------------
(* One worker per job *)

\* A thread that neither works on a job nor has one to start carries none.
LEMMA Unburdened ==
  ASSUME TypeOK, Shape, NEW t \in Threads,
         PhaseOf(task[t]) \notin {"start", "copy", "settle", "spawn"}
  PROVE  \A j \in Jobs : ~ Carries(t, j)
BY Kinds DEF Shape, Shaped, Carries

\* A thread whose new record carries what the old one did.
LEMMA SameBurden ==
  ASSUME TypeOK, NEW t \in Threads, NEW rec, task' = [task EXCEPT ![t] = rec],
         \A j \in Jobs : Carries(t, j) <=> rec.at = j \/ j \in rec.starting
  PROVE  \A u \in Threads, j \in Jobs : Carries(u, j)' <=> Carries(u, j)
BY DEF TypeOK, Carries

\* A thread that carries no job before a step and none after it.
LEMMA NoBurden ==
  ASSUME TypeOK, Shape, NEW t \in Threads, NEW rec,
         PhaseOf(task[t]) \notin {"start", "copy", "settle", "spawn"},
         task' = [task EXCEPT ![t] = rec], rec.at = None, rec.starting = {}
  PROVE  \A u \in Threads, j \in Jobs : Carries(u, j)' <=> Carries(u, j)
<1>1. \A j \in Jobs : Carries(t, j) <=> rec.at = j \/ j \in rec.starting
  BY Unburdened, Kinds
<1> QED
  BY <1>1, SameBurden

\* Only a spawn passes a job on, and only a turn takes one or lets it go.
LEMMA CarriersStep ==
  ASSUME TypeOK, Shape, [Next]_vars, ~ Turns, ~ \E t \in Threads : Spawn(t)
  PROVE  \A u \in Threads, j \in Jobs : Carries(u, j)' <=> Carries(u, j)
<1> DEFINE Same == \A u \in Threads, j \in Jobs : Carries(u, j)' <=> Carries(u, j)
<1>0. task \in [Threads -> TaskRecords]
  BY DEF TypeOK, TaskRecords
<1>i. \A pc : /\ [Idle EXCEPT !.pc = pc].at = None
              /\ [Idle EXCEPT !.pc = pc].starting = {}
              /\ [Idle EXCEPT !.pc = pc, !.seen = live].at = None
              /\ [Idle EXCEPT !.pc = pc, !.seen = live].starting = {}
              /\ Idle.at = None /\ Idle.starting = {}
  BY DEF Idle
<1>w. ASSUME NEW js \in SUBSET Jobs, NEW next \in {"idle", "dispatch"}
      PROVE  Writes(js, next).at = None /\ Writes(js, next).starting = {}
  BY JobTypeStep, WritesShape
<1>u. CASE UNCHANGED task
  BY <1>u DEF Carries
<1>1. ASSUME NEW t \in Threads, Persist(t) PROVE Same
  <2>1. PICK row \in task[t].rows :
          LET rest == task[t].rows \ {row}
          IN  task' = [task EXCEPT
                ![t].rows = rest,
                ![t].pc = IF rest = {} THEN task[t].next ELSE "persist",
                ![t].next = IF rest = {} THEN "idle" ELSE task[t].next]
    BY <1>1 DEF Persist
  <2>2. /\ task'[t].at = task[t].at /\ task'[t].starting = task[t].starting
        /\ \A u \in Threads : u # t => task'[u] = task[u]
    BY <1>0, <2>1 DEF TaskRecords
  <2> QED
    BY <2>2 DEF Carries
<1>2. ASSUME NEW r \in Runs, Worker(r) PROVE Same
  <2>1. r \in Threads
    BY Kinds
  <2>2. CASE Wake(r)
    BY <1>0, <2>1, <2>2 DEF Wake, MovesTo, Carries, TaskRecords
  <2>3. CASE Open(r)
    <3>1. /\ task'[r].at = task[r].at /\ task'[r].starting = task[r].starting
          /\ \A u \in Threads : u # r => task'[u] = task[u]
      <4>1. CASE MovesTo(r, "copy")
        BY <1>0, <2>1, <4>1 DEF MovesTo, TaskRecords
      <4>2. CASE Becomes(r, [task[r] EXCEPT !.pc = "settle", !.result = "closed"])
        BY <1>0, <2>1, <4>2 DEF Becomes, TaskRecords
      <4> QED
        BY <2>3, <4>1, <4>2 DEF Open
    <3> QED
      BY <3>1 DEF Carries
  <2>4. CASE Progress(r) \/ Notice(r) \/ CopyEnds(r)
    <3>1. /\ task'[r].at = task[r].at /\ task'[r].starting = task[r].starting
          /\ \A u \in Threads : u # r => task'[u] = task[u]
      <4>1. CASE Progress(r)
        BY <1>0, <2>1, <4>1 DEF Progress, Becomes, TaskRecords
      <4>2. CASE Notice(r)
        BY <1>0, <2>1, <4>2 DEF Notice, Becomes, TaskRecords
      <4>3. CASE CopyEnds(r)
        BY <1>0, <2>1, <4>3 DEF CopyEnds, Becomes, TaskRecords
      <4> QED
        BY <2>4, <4>1, <4>2, <4>3
    <3> QED
      BY <3>1 DEF Carries
  <2> QED
    BY <1>2, <2>2, <2>3, <2>4 DEF Worker, Turns
<1>3. CASE Command
  <2>0. \A s : With(s) \in SUBSET Jobs
    BY DEF With
  <2>1. CASE At(Main, "idle") /\ \E js \in SUBSET Jobs :
               Becomes(Main, Writes(js, "idle"))
    BY <1>w, <2>1, NoBurden, Kinds DEF Becomes, At, PhaseOf
  <2>2. CASE At(Main, "looked") /\ \E js \in SUBSET Jobs :
               Becomes(Main, Writes(js, "dispatch"))
    BY <1>w, <2>2, NoBurden, Kinds DEF Becomes, At, PhaseOf
  <2>3. CASE \E t \in Threads : /\ At(t, "idle") \/ At(t, "pauseAll")
                                /\ \E js \in SUBSET Jobs :
                                     Becomes(t, Writes(js, "idle"))
    BY <1>w, <2>3, NoBurden DEF Becomes, At, PhaseOf
  <2>4. CASE \E t \in Threads : /\ At(t, "idle")
                                /\ \E js \in SUBSET Jobs :
                                     Becomes(t, Writes(js, "dispatch"))
    BY <1>w, <2>4, NoBurden DEF Becomes, At, PhaseOf
  <2>5. ASSUME NEW j \in Jobs,
               CancelJob(j) \/ PauseJob(j) \/ ResumeJob(j) \/ RetryJob(j)
        PROVE  Same
    <3>1. {j} \in SUBSET Jobs /\ {j} \cap With("queued") \in SUBSET Jobs
          /\ {j} \cap With("paused") \in SUBSET Jobs
      OBVIOUS
    <3>2. CASE CancelJob(j)
      BY <2>1, <3>1, <3>2 DEF CancelJob
    <3>3. CASE PauseJob(j)
      BY <2>1, <3>1, <3>3 DEF PauseJob
    <3>4. CASE ResumeJob(j)
      BY <2>2, <3>1, <3>4 DEF ResumeJob, ResumePaused
    <3>5. CASE RetryJob(j)
      <4>1. CASE Becomes(Main, [Idle EXCEPT !.pc = "dispatch"])
        BY <1>i, <3>5, <4>1, NoBurden, Kinds DEF RetryJob, Becomes, At, PhaseOf
      <4>2. CASE Becomes(Main, Writes({j}, "dispatch"))
        BY <2>2, <3>1, <3>5, <4>2 DEF RetryJob
      <4> QED
        BY <3>5, <4>1, <4>2 DEF RetryJob
    <3> QED
      BY <2>5, <3>2, <3>3, <3>4, <3>5
  <2>6. ASSUME NEW t \in {Main} \cup Lockers, PauseAll(t) PROVE Same
    BY <2>0, <2>3, <2>6, Kinds DEF PauseAll
  <2>7. ASSUME NEW a \in Adders, NEW n \in 1 .. 2, Enqueue(a, n) PROVE Same
    BY <2>4, <2>7, Kinds DEF Enqueue
  <2>8. CASE LookAtSessions \/ ClearFinished \/ DeleteRows
    BY <1>i, <2>8, NoBurden, Kinds
    DEF LookAtSessions, ClearFinished, DeleteRows, Becomes, At, PhaseOf
  <2>9. CASE ResumeAll
    BY <2>0, <2>2, <2>9 DEF ResumeAll, ResumePaused
  <2> QED
    BY <1>3, <2>5, <2>6, <2>7, <2>8, <2>9 DEF Command
<1>4. CASE Environment
  <2>1. ASSUME NEW l \in Lockers, LockKillsSessions(l) PROVE Same
    BY <1>0, <2>1, Kinds DEF LockKillsSessions, MovesTo, Carries, TaskRecords
  <2> QED
    BY <1>u, <1>4, <2>1 DEF Environment, Connect, Drop, Turns
<1>5. ASSUME NEW j \in Jobs, Elapse(j) PROVE UNCHANGED task
  BY <1>5 DEF Elapse
<1>6. CASE UNCHANGED vars
  BY <1>u, <1>6 DEF vars
<1> QED
  BY <1>u, <1>1, <1>2, <1>3, <1>4, <1>5, <1>6 DEF Next, Turns

\* What a dispatch starts is queued, and only its state changes.
LEMMA DispatchStarts ==
  ASSUME TypeOK, NEW t \in Threads, Dispatch(t)
  PROVE  \E start \in SUBSET Dispatchable :
           /\ job' = [j \in Jobs |->
                        IF j \in start THEN [job[j] EXCEPT !.state = "active"]
                        ELSE job[j]]
           /\ task' = [task EXCEPT ![t] =
                IF start = {} THEN Idle
                ELSE [Writes(start, "spawn") EXCEPT !.starting = start]]
<1>1. \A k : First(Dispatchable, k) \in SUBSET Dispatchable
  BY DEF First
<1> QED
  BY <1>1 DEF Dispatch, Becomes

\* A dispatch carries what it makes active.
LEMMA DispatchCarries ==
  ASSUME TypeOK, Shape, OneWorkerPerActiveJob, [Next]_vars,
         NEW t \in Threads, Dispatch(t)
  PROVE  OneWorkerPerActiveJob'
<1>1. PICK start \in SUBSET Dispatchable :
        /\ job' = [j \in Jobs |->
                     IF j \in start THEN [job[j] EXCEPT !.state = "active"]
                     ELSE job[j]]
        /\ task' = [task EXCEPT ![t] =
             IF start = {} THEN Idle
             ELSE [Writes(start, "spawn") EXCEPT !.starting = start]]
  BY DispatchStarts
<1>2. start \in SUBSET Jobs /\ \A j \in start : job[j].state = "queued"
  BY DEF Dispatchable, With
<1>3. /\ task \in [Threads -> TaskRecords] /\ job \in [Jobs -> JobRecords]
      /\ None \notin Jobs
  BY Kinds DEF TypeOK, TaskRecords, JobRecords
<1>4. /\ Writes(start, "spawn") \in TaskRecords
      /\ Writes(start, "spawn").at = None
  BY <1>2, JobTypeStep, WritesShape
<1>5. task'[t].at = None /\ task'[t].starting = start
  BY <1>1, <1>3, <1>4 DEF Idle, TaskRecords
<1>6. \A j \in Jobs : ~ Carries(t, j)
  BY Unburdened DEF Dispatch, At, PhaseOf
<1>7. \A u \in Threads, j \in Jobs :
        Carries(u, j)' <=> IF j \in start THEN u = t ELSE Carries(u, j)
  <2> TAKE u \in Threads, j \in Jobs
  <2>1. CASE u = t
    BY <1>3, <1>5, <1>6, <2>1 DEF Carries
  <2>2. CASE u # t
    <3>1. task'[u] = task[u]
      BY <1>1, <2>2
    <3>2. j \in start => ~ Carries(u, j)
      BY <1>2 DEF OneWorkerPerActiveJob
    <3> QED
      BY <2>2, <3>1, <3>2 DEF Carries
  <2> QED
    BY <2>1, <2>2
<1>8. \A j \in Jobs : job'[j].state = "active" <=>
                      j \in start \/ job[j].state = "active"
  BY <1>1, <1>3 DEF JobRecords
<1> QED
  BY <1>7, <1>8 DEF OneWorkerPerActiveJob

\* A spawn hands one job over to a new worker.
LEMMA SpawnCarries ==
  ASSUME TypeOK, Shape, OneWorkerPerActiveJob, NEW t \in Threads, Spawn(t)
  PROVE  OneWorkerPerActiveJob'
<1>0. /\ task \in [Threads -> TaskRecords]
      /\ Runs \subseteq Threads /\ None \notin Jobs
  BY Kinds DEF TypeOK, TaskRecords
<1>1. PICK j \in task[t].starting, r \in Runs :
        /\ At(r, "idle")
        /\ LET rest == task[t].starting \ {j}
           IN  task' = [task EXCEPT
                 ![t] = IF rest = {} THEN Idle ELSE [@ EXCEPT !.starting = rest],
                 ![r] = [Idle EXCEPT !.pc = "start", !.at = j]]
  BY DEF Spawn
<1>2. r # t /\ r \in Threads /\ j \in Jobs
  BY <1>0, <1>1 DEF Spawn, At, TaskRecords
<1>3. task[t].at = None
  BY DEF Spawn, At, Shape, Shaped, PhaseOf
<1>4. \A k \in Jobs : ~ Carries(r, k)
  BY <1>1, <1>2, Unburdened DEF At, PhaseOf
<1>5. /\ task'[r].at = j /\ task'[r].starting = {}
      /\ task'[t].at = None /\ task'[t].starting = task[t].starting \ {j}
      /\ \A u \in Threads : u # r /\ u # t => task'[u] = task[u]
  BY <1>0, <1>1, <1>2, <1>3 DEF Idle, TaskRecords
<1>6. \A u \in Threads : Carries(u, j) => u = t
  BY <1>1, <1>2 DEF OneWorkerPerActiveJob, Carries
<1>7. \A u \in Threads, k \in Jobs :
        Carries(u, k)' <=> IF k = j THEN u = r ELSE Carries(u, k)
  <2> TAKE u \in Threads, k \in Jobs
  <2>1. CASE u = r
    BY <1>4, <1>5, <2>1 DEF Carries
  <2>2. CASE u = t
    BY <1>0, <1>2, <1>3, <1>5, <2>2 DEF Carries
  <2>3. CASE u # r /\ u # t
    BY <1>5, <1>6, <2>3 DEF Carries
  <2> QED
    BY <2>1, <2>2, <2>3
<1>8. job' = job /\ job[j].state = "active"
  BY <1>1, <1>2 DEF Spawn, OneWorkerPerActiveJob, Carries
<1> QED
  BY <1>2, <1>7, <1>8 DEF OneWorkerPerActiveJob

\* The end of an attempt: its job rests, the worker goes on to dispatch, and
\* the timer of a retry sleeps.
LEMMA AttemptEnds ==
  ASSUME TypeOK, Shape, [Next]_vars, NEW r \in Runs,
         FinishJob(r) \/ HandleFailure(r)
  PROVE  /\ task[r].at \in Jobs /\ At(r, "settle")
         /\ job'[task[r].at].state \notin {"active", "none"}
         /\ \A j \in Jobs : j # task[r].at => job'[j] = job[j]
         /\ task'[r].at = None /\ task'[r].starting = {}
         /\ \/ task'[r].pc = "dispatch"
            \/ task'[r].pc = "persist" /\ task'[r].next = "dispatch"
         /\ \A u \in Threads : u # r =>
              \/ task'[u] = task[u]
              \/ /\ At(u, "idle") /\ task'[u] = [Idle EXCEPT !.pc = "sleep"]
                 /\ job'[task[r].at].wait = u
                 /\ job'[task[r].at].state = "queued"
<1> DEFINE j == task[r].at
<1>0. /\ job \in [Jobs -> JobRecords] /\ task \in [Threads -> TaskRecords]
      /\ r \in Threads /\ None \notin Jobs
  BY Kinds DEF TypeOK, JobRecords, TaskRecords
<1>1. j \in Jobs /\ At(r, "settle")
  BY <1>0 DEF FinishJob, HandleFailure, At, Shape, Shaped, PhaseOf, TaskRecords
<1>2. /\ Writes({j}, "dispatch").at = None
      /\ Writes({j}, "dispatch").starting = {}
      /\ \/ Writes({j}, "dispatch").pc = "dispatch"
         \/ /\ Writes({j}, "dispatch").pc = "persist"
            /\ Writes({j}, "dispatch").next = "dispatch"
  BY <1>1, JobTypeStep, WritesShape
<1>3. CASE /\ task' = [task EXCEPT ![r] = Writes({j}, "dispatch")]
           /\ \E s \in {"done", "cancelled", "paused", "failed"} :
                job' = [job EXCEPT ![j] = AtRest(j, s)]
  <2>1. job'[j].state \in {"done", "cancelled", "paused", "failed"}
    BY <1>0, <1>1, <1>3 DEF AtRest, JobRecords
  <2> QED
    BY <1>0, <1>1, <1>2, <1>3, <2>1
<1>4. CASE \E t \in Runs :
             /\ At(t, "idle")
             /\ job' = [job EXCEPT ![j] =
                  [AtRest(j, "queued") EXCEPT !.attempts = @ + 1, !.wait = t]]
             /\ task' = [task EXCEPT ![r] = Writes({j}, "dispatch"),
                                     ![t] = [Idle EXCEPT !.pc = "sleep"]]
  <2>1. PICK t \in Runs :
             /\ At(t, "idle")
             /\ job' = [job EXCEPT ![j] =
                  [AtRest(j, "queued") EXCEPT !.attempts = @ + 1, !.wait = t]]
             /\ task' = [task EXCEPT ![r] = Writes({j}, "dispatch"),
                                     ![t] = [Idle EXCEPT !.pc = "sleep"]]
    BY <1>4
  <2>2. t # r /\ t \in Threads
    BY <1>1, <2>1, Kinds DEF At
  <2>3. job'[j].state = "queued" /\ job'[j].wait = t
    BY <1>0, <1>1, <2>1 DEF AtRest, JobRecords
  <2>4. /\ task'[r] = Writes({j}, "dispatch")
        /\ task'[t] = [Idle EXCEPT !.pc = "sleep"]
        /\ \A u \in Threads : u # r /\ u # t => task'[u] = task[u]
    BY <1>0, <2>1, <2>2
  <2> QED
    BY <1>0, <1>1, <1>2, <2>1, <2>2, <2>3, <2>4
<1>5. CASE FinishJob(r)
  BY <1>3, <1>5 DEF FinishJob, Becomes
<1>6. CASE HandleFailure(r)
  BY <1>3, <1>4, <1>6 DEF HandleFailure, FailureStops, Becomes
<1> QED
  BY <1>5, <1>6

\* The end of an attempt leaves the job to nobody.
LEMMA EndCarries ==
  ASSUME TypeOK, Shape, OneWorkerPerActiveJob, [Next]_vars,
         NEW r \in Runs, FinishJob(r) \/ HandleFailure(r)
  PROVE  OneWorkerPerActiveJob'
<1> DEFINE j == task[r].at
<1>1. r \in Threads /\ None \notin Jobs /\ j \in Jobs
  BY AttemptEnds, Kinds
<1>2. \A u \in Threads : Carries(u, j) => u = r
  BY <1>1 DEF OneWorkerPerActiveJob, Carries
<1>3. task[r].starting = {}
  BY <1>1, AttemptEnds DEF At, Shape, Shaped, PhaseOf
<1>4. \A u \in Threads, k \in Jobs : Carries(u, k)' <=> Carries(u, k) /\ k # j
  <2> TAKE u \in Threads, k \in Jobs
  <2>1. CASE u = r
    BY <1>1, <1>3, <2>1, AttemptEnds DEF Carries
  <2>2. CASE u # r /\ task'[u] = task[u]
    BY <1>2, <2>2 DEF Carries
  <2>3. CASE u # r /\ At(u, "idle") /\ task'[u] = [Idle EXCEPT !.pc = "sleep"]
    <3>1. ~ Carries(u, k)
      BY <2>3, Unburdened DEF At, PhaseOf
    <3>2. task'[u].at = None /\ task'[u].starting = {}
      BY <2>3 DEF Idle
    <3> QED
      BY <1>1, <3>1, <3>2 DEF Carries
  <2> QED
    BY <2>1, <2>2, <2>3, AttemptEnds
<1>5. \A k \in Jobs : job'[k].state = "active" <=>
                      job[k].state = "active" /\ k # j
  BY <1>1, AttemptEnds
<1> QED
  BY <1>4, <1>5 DEF OneWorkerPerActiveJob

\* Every step keeps one worker per active job.
LEMMA OneWorkerStep ==
  ASSUME TypeOK, Shape, FreshIds, OneWorkerPerActiveJob, [Next]_vars
  PROVE  OneWorkerPerActiveJob'
<1>1. CASE Restart
  <2>1. \A t \in Threads : task'[t] = Idle
    BY <1>1 DEF Restart
  <2>2. \A t \in Threads, j \in Jobs : ~ Carries(t, j)'
    BY <2>1, Kinds DEF Idle, Carries
  <2> QED
    BY <1>1, <2>2, RestartJobs DEF OneWorkerPerActiveJob
<1>2. CASE ~ Turns /\ ~ \E t \in Threads : Spawn(t)
  <2>1. Active' = Active
    BY <1>2, ActiveStep
  <2>2. \A j \in Jobs : job'[j].state = "active" <=> job[j].state = "active"
    BY <2>1 DEF Active, With
  <2> QED
    BY <1>2, <2>2, CarriersStep DEF OneWorkerPerActiveJob
<1> QED
  BY <1>1, <1>2, DispatchCarries, SpawnCarries, EndCarries DEF Turns

-----------------------------------------------------------------------------
(* Stopped jobs, and hosts *)

\* A job at rest has the state it was given and waits for no new timer.
LEMMA AtRestFields ==
  ASSUME TypeOK, NEW j \in Jobs, NEW s
  PROVE  /\ AtRest(j, s).state = s /\ AtRest(j, s).wait = job[j].wait
         /\ AtRest(j, s).session = job[j].session
         /\ AtRest(j, s).server = job[j].server
BY DEF TypeOK, AtRest

\* How an attempt ends: the worker's own verdict, the flags after a failure,
\* or a retry when no flag is up.
LEMMA EndOutcome ==
  ASSUME TypeOK, Shape, NEW r \in Runs, FinishJob(r) \/ HandleFailure(r)
  PROVE  LET j == task[r].at
         IN  /\ j \in Jobs
             /\ nextId' = nextId /\ stopped' = stopped
             /\ \A i \in Jobs : i # j => job'[i] = job[i]
             /\ job'[j].session = job[j].session
             /\ job'[j].server = job[j].server
             /\ \/ /\ job'[j].state \in {"done", "cancelled", "paused", "failed"}
                   /\ job'[j].wait = job[j].wait
                \/ /\ job'[j].state = "queued"
                   /\ ~ job[j].cancel /\ ~ job[j].pause
                   /\ At(job'[j].wait, "idle") /\ job'[j].wait \in Runs
                   /\ task'[job'[j].wait].pc = "sleep"
<1> DEFINE j == task[r].at
<1>0. /\ job \in [Jobs -> JobRecords] /\ task \in [Threads -> TaskRecords]
      /\ Runs \subseteq Threads /\ j \in Jobs
  BY Kinds DEF TypeOK, JobRecords, TaskRecords, FinishJob, HandleFailure, At,
     Shape, Shaped, PhaseOf
<1>1. ASSUME NEW s \in {"done", "cancelled", "paused", "failed"},
             job' = [job EXCEPT ![j] = AtRest(j, s)]
      PROVE  /\ job'[j].state = s /\ job'[j].wait = job[j].wait
             /\ job'[j].session = job[j].session
             /\ job'[j].server = job[j].server
  BY <1>0, <1>1, AtRestFields
<1>2. ASSUME NEW t \in Runs, FailureStops(job[j]) = {}, At(t, "idle"),
             At(r, "settle"),
             job' = [job EXCEPT ![j] =
               [AtRest(j, "queued") EXCEPT !.attempts = @ + 1, !.wait = t]],
             task' = [task EXCEPT ![r] = Writes({j}, "dispatch"),
                                  ![t] = [Idle EXCEPT !.pc = "sleep"]]
      PROVE  /\ job'[j].state = "queued" /\ job'[j].wait = t
             /\ job'[j].session = job[j].session
             /\ job'[j].server = job[j].server
             /\ ~ job[j].cancel /\ ~ job[j].pause
             /\ task'[t].pc = "sleep"
  <2>1. ~ job[j].cancel /\ ~ job[j].pause
    BY <1>2 DEF FailureStops
  <2>2. task'[t].pc = "sleep"
    BY <1>0, <1>2 DEF At, Idle
  <2>3. /\ job'[j].state = "queued" /\ job'[j].wait = t
        /\ job'[j].session = job[j].session
        /\ job'[j].server = job[j].server
    BY <1>0, <1>2 DEF AtRest, JobRecords
  <2> QED
    BY <2>1, <2>2, <2>3
<1>3. nextId' = nextId /\ stopped' = stopped
      /\ \A i \in Jobs : i # j => job'[i] = job[i]
  BY <1>0 DEF FinishJob, HandleFailure
<1>4. CASE FinishJob(r)
  BY <1>0, <1>1, <1>3, <1>4 DEF FinishJob
<1>5. CASE HandleFailure(r)
  <2>1. CASE \E s \in {"done", "cancelled", "paused", "failed"} :
               job' = [job EXCEPT ![j] = AtRest(j, s)]
    BY <1>0, <1>1, <1>3, <2>1
  <2>2. CASE \E t \in Runs :
               /\ At(t, "idle") /\ FailureStops(job[j]) = {}
               /\ job' = [job EXCEPT ![j] =
                    [AtRest(j, "queued") EXCEPT !.attempts = @ + 1, !.wait = t]]
               /\ task' = [task EXCEPT ![r] = Writes({j}, "dispatch"),
                                       ![t] = [Idle EXCEPT !.pc = "sleep"]]
    <3>1. PICK t \in Runs :
               /\ At(t, "idle") /\ FailureStops(job[j]) = {}
               /\ job' = [job EXCEPT ![j] =
                    [AtRest(j, "queued") EXCEPT !.attempts = @ + 1, !.wait = t]]
               /\ task' = [task EXCEPT ![r] = Writes({j}, "dispatch"),
                                       ![t] = [Idle EXCEPT !.pc = "sleep"]]
      BY <2>2
    <3>2. At(r, "settle")
      BY <1>5 DEF HandleFailure
    <3>3. /\ job'[j].state = "queued" /\ job'[j].wait = t
          /\ job'[j].session = job[j].session
          /\ job'[j].server = job[j].server
          /\ ~ job[j].cancel /\ ~ job[j].pause
          /\ task'[t].pc = "sleep"
      BY <1>2, <3>1, <3>2
    <3>4. At(job'[j].wait, "idle") /\ task'[job'[j].wait].pc = "sleep"
      BY <3>1, <3>3 DEF At
    <3> QED
      BY <1>0, <1>3, <3>3, <3>4
  <2> QED
    BY <1>5, <2>1, <2>2 DEF HandleFailure, FailureStops
<1> QED
  BY <1>4, <1>5

\* Every step keeps a stopped job out of the queue.
LEMMA StoppedStep ==
  ASSUME TypeOK, Shape, FreshIds, OneWorkerPerActiveJob, StoppedNotQueued,
         [Next]_vars
  PROVE  StoppedNotQueued'
<1> USE DEF StoppedNotQueued
<1>0. /\ job \in [Jobs -> JobRecords] /\ stopped \subseteq Jobs
      /\ nextId \in Nat /\ Jobs \subseteq Nat
  BY NumbersAssumption DEF TypeOK, JobRecords
<1>1. CASE UNCHANGED <<job, nextId, stopped>>
  BY <1>1
<1>2. ASSUME NEW t \in Threads, Dispatch(t) PROVE StoppedNotQueued'
  <2>1. PICK start \in SUBSET Dispatchable :
          job' = [j \in Jobs |->
                    IF j \in start THEN [job[j] EXCEPT !.state = "active"]
                    ELSE job[j]]
    BY <1>2, DispatchStarts
  <2>2. stopped' = stopped /\ \A j \in stopped : j \notin start
    BY <1>2 DEF Dispatch, Dispatchable, With
  <2> QED
    BY <1>0, <2>1, <2>2
<1>3. ASSUME NEW r \in Runs, FinishJob(r) \/ HandleFailure(r)
      PROVE  StoppedNotQueued'
  <2>1. job[task[r].at].state = "active"
    BY <1>3, EndOutcome, Kinds DEF OneWorkerPerActiveJob, Carries
  <2>2. /\ stopped' = stopped
        /\ \A i \in Jobs : i # task[r].at => job'[i] = job[i]
    BY <1>3, EndOutcome
  <2>4. \/ job'[task[r].at].state \in {"done", "cancelled", "paused", "failed"}
        \/ ~ job[task[r].at].cancel /\ ~ job[task[r].at].pause
    BY <1>3, EndOutcome
  <2>3. task[r].at \in stopped =>
          job'[task[r].at].state \in {"done", "cancelled", "paused", "failed"}
    BY <2>1, <2>4
  <2> QED
    BY <1>0, <2>2, <2>3
<1>4. ASSUME NEW j \in Jobs, Elapse(j) PROVE StoppedNotQueued'
  BY <1>0, <1>4 DEF Elapse, JobRecords
<1>5. ASSUME NEW j \in Jobs, CancelJob(j) PROVE StoppedNotQueued'
  <2>1. /\ job'[j].cancel = (job[j].state = "active")
        /\ job'[j].state = IF job[j].state \in {"queued", "paused"}
                           THEN "cancelled" ELSE job[j].state
        /\ \A i \in Jobs : i # j => job'[i] = job[i]
    BY <1>0, <1>5 DEF CancelJob, JobRecords
  <2>2. stopped' \subseteq stopped \cup {j}
    BY <1>5 DEF CancelJob
  <2> QED
    BY <1>0, <2>1, <2>2
<1>6. ASSUME NEW j \in Jobs, RetryJob(j) PROVE StoppedNotQueued'
  <2>1. CASE stopped' = stopped \ {j}
    BY <1>0, <1>6, <2>1 DEF RetryJob
  <2>2. CASE UNCHANGED <<job, stopped>>
    BY <2>2
  <2> QED
    BY <1>6, <2>1, <2>2 DEF RetryJob
<1>7. ASSUME NEW js \in SUBSET Jobs, Pauses(js) PROVE StoppedNotQueued'
  <2> SUFFICES ASSUME NEW j \in stopped'
               PROVE  /\ job'[j].state # "queued"
                      /\ job'[j].state = "active" => job'[j].cancel \/ job'[j].pause
    OBVIOUS
  <2>1. j \in Jobs
    BY <1>0, <1>7 DEF Pauses
  <2>2. CASE j \notin js
    BY <1>7, <2>1, <2>2 DEF Pauses
  <2>3. CASE j \in js /\ job[j].state = "active"
    BY <1>0, <1>7, <2>1, <2>3 DEF Pauses, JobRecords
  <2>4. CASE j \in js /\ job[j].state = "queued"
    BY <1>0, <1>7, <2>1, <2>4 DEF Pauses, JobRecords
  <2>5. CASE j \in js /\ job[j].state \notin {"active", "queued"}
    BY <1>7, <2>1, <2>5 DEF Pauses
  <2> QED
    BY <2>2, <2>3, <2>4, <2>5
<1>8. ASSUME NEW js \in SUBSET With("paused"), ResumePaused(js)
      PROVE  StoppedNotQueued'
  BY <1>0, <1>8 DEF ResumePaused
<1>9. ASSUME NEW a \in Adders, NEW n \in 1 .. 2, Enqueue(a, n)
      PROVE  StoppedNotQueued'
  <2>1. \A j \in stopped : j \notin nextId .. nextId + n - 1
    BY <1>0 DEF FreshIds
  <2> QED
    BY <1>0, <1>9, <2>1 DEF Enqueue
<1>10. CASE ClearFinished
  BY <1>0, <1>10 DEF ClearFinished
<1>11. CASE Restart
  <2>1. stopped' = RestoredIds /\ RestoredIds \subseteq Jobs
    BY <1>11 DEF Restart, RestoredIds, Restored, TypeOK, Rows
  <2> QED
    BY <1>11, <2>1, RestartJobs
<1> QED
  BY JobSteps, <1>1, <1>2, <1>3, <1>4, <1>5, <1>6, <1>7, <1>8, <1>9, <1>10,
     <1>11

\* Only a dispatch makes a job active, and only a queued one.
LEMMA StartsQueued ==
  ASSUME TypeOK, Shape, FreshIds, [Next]_vars,
         NEW j \in Jobs, job[j].state # "active", job'[j].state = "active"
  PROVE  job[j].state = "queued"
<1>1. CASE Active' = Active
  BY <1>1 DEF Active, With
<1>2. ASSUME NEW t \in Threads, Dispatch(t) PROVE job[j].state = "queued"
  BY <1>2, DispatchStarts DEF Dispatchable, With
<1>3. ASSUME NEW r \in Runs, FinishJob(r) \/ HandleFailure(r) PROVE FALSE
  BY <1>3, EndOutcome
<1>4. CASE Restart
  BY <1>4, RestartJobs
<1> QED
  BY ActiveStep, <1>1, <1>2, <1>3, <1>4 DEF Turns

\* A session a job is rebound to keeps its server.
LEMMA ReboundKeepsHost ==
  ASSUME NEW rec, NEW seen, NEW s \in Rebound(rec, seen), rec.server # None,
         rec.session # None => ServerOf[rec.session] = rec.server,
         None \notin seen
  PROVE  ServerOf[s] = rec.server
BY DEF Rebound

\* Every step keeps every job on its host.
LEMMA HostStep ==
  ASSUME TypeOK, Shape, FreshIds, NeverMovesHosts, [Next]_vars
  PROVE  NeverMovesHosts'
<1> USE DEF NeverMovesHosts
<1>0. /\ job \in [Jobs -> JobRecords] /\ task[Main].seen \subseteq Sessions
      /\ None \notin task[Main].seen
  BY Kinds DEF TypeOK, JobRecords
<1> DEFINE Stays(j) == /\ job'[j].session = job[j].session
                       /\ job'[j].server = job[j].server
<1>1. CASE \A j \in Jobs : Stays(j)
  BY <1>1
<1>2. ASSUME NEW t \in Threads, Dispatch(t), NEW j \in Jobs PROVE Stays(j)
  BY <1>0, <1>2, DispatchStarts DEF JobRecords
<1>3. ASSUME NEW r \in Runs, FinishJob(r) \/ HandleFailure(r), NEW j \in Jobs
      PROVE  Stays(j)
  BY <1>3, EndOutcome
<1>4. ASSUME NEW j \in Jobs, Elapse(j) \/ CancelJob(j), NEW i \in Jobs
      PROVE  Stays(i)
  <2>1. CASE Elapse(j)
    BY <1>0, <2>1 DEF Elapse, JobRecords
  <2>2. CASE CancelJob(j)
    BY <1>0, <2>2 DEF CancelJob, JobRecords
  <2> QED
    BY <1>4, <2>1, <2>2
<1>5. ASSUME NEW j \in Jobs, RetryJob(j) PROVE NeverMovesHosts'
  <2>1. CASE UNCHANGED job
    BY <2>1
  <2>2. CASE ~ UNCHANGED job
    <3>1. PICK s \in Rebound(job[j], task[Main].seen) :
            job' = [job EXCEPT ![j] =
              [AtRest(j, "queued") EXCEPT !.attempts = 0, !.wait = None,
                                          !.session = s]]
      BY <1>5, <2>2 DEF RetryJob
    <3>2. /\ job'[j].session = s /\ job'[j].server = job[j].server
          /\ \A i \in Jobs : i # j => job'[i] = job[i]
      BY <1>0, <3>1 DEF AtRest, JobRecords
    <3>3. job[j].server # None => ServerOf[s] = job[j].server
      BY <1>0, ReboundKeepsHost
    <3> QED
      BY <3>2, <3>3
  <2> QED
    BY <2>1, <2>2
<1>6. ASSUME NEW js \in SUBSET Jobs, Pauses(js), NEW j \in Jobs PROVE Stays(j)
  BY <1>0, <1>6 DEF Pauses, JobRecords
<1>7. ASSUME NEW js \in SUBSET With("paused"), ResumePaused(js)
      PROVE  NeverMovesHosts'
  <2> SUFFICES ASSUME NEW j \in Jobs, job'[j].session # None,
                      job'[j].server # None
               PROVE  ServerOf[job'[j].session] = job'[j].server
    OBVIOUS
  <2> DEFINE bound == Rebound(job[j], task[Main].seen)
             s == CHOOSE s \in bound : TRUE
  <2>1. CASE j \in js /\ bound # {}
    <3>1. s \in bound
      BY <2>1
    <3>2. job'[j].session = s /\ job'[j].server = job[j].server
      BY <1>0, <1>7, <2>1 DEF ResumePaused, JobRecords
    <3> HIDE DEF s
    <3>3. job[j].server # None => ServerOf[s] = job[j].server
      BY <1>0, <3>1, ReboundKeepsHost
    <3> QED
      BY <3>2, <3>3
  <2>2. CASE ~ (j \in js /\ bound # {})
    BY <1>7, <2>2 DEF ResumePaused
  <2> QED
    BY <2>1, <2>2
<1>8. ASSUME NEW a \in Adders, NEW n \in 1 .. 2, Enqueue(a, n)
      PROVE  NeverMovesHosts'
  <2>1. PICK s \in Sessions : \E server \in {ServerOf[s], None} :
          job' = [j \in Jobs |->
                   IF j \in nextId .. nextId + n - 1
                   THEN [NoJob EXCEPT !.state = "queued", !.session = s,
                                      !.server = server]
                   ELSE job[j]]
    BY <1>8 DEF Enqueue
  <2> QED
    BY <2>1 DEF NoJob
<1>9. CASE ClearFinished
  BY <1>9 DEF ClearFinished, NoJob
<1>10. CASE Restart
  BY <1>10, RestartJobs
<1>11. CASE UNCHANGED <<job, nextId, stopped>>
  BY <1>11
<1> QED
  BY JobSteps, <1>1, <1>2, <1>3, <1>4, <1>5, <1>6, <1>7, <1>8, <1>9, <1>10,
     <1>11

-----------------------------------------------------------------------------
(* Timers and wake-ups *)

\* A thread past the mutex, on its way to dispatch.
Towards(t) ==
  \/ At(t, "dispatch")
  \/ At(t, "persist") /\ task[t].next = "dispatch"

\* The steps at which a thread neither sleeps nor is past the mutex.
Elsewhere == {"idle", "looked", "pauseAll", "delete", "spawn", "start", "copy",
              "settle"}

\* A thread that sleeps, writes or is about to dispatch is left alone by the
\* others.
LEMMA LeftAlone ==
  ASSUME TypeOK, [Next]_vars, ~ Restart, NEW u \in Threads
  PROVE  \/ task'[u] = task[u]
         \/ task[u].pc \in Elsewhere
         \/ Persist(u) \/ Dispatch(u)
         \/ u \in Runs /\ Wake(u)
<1> DEFINE Goal == \/ task'[u] = task[u]
                   \/ task[u].pc \in Elsewhere
                   \/ Persist(u) \/ Dispatch(u)
                   \/ u \in Runs /\ Wake(u)
<1> USE DEF At
<1>0. task \in [Threads -> TaskRecords]
  BY DEF TypeOK, TaskRecords
<1>1. ASSUME NEW t \in Threads, Persist(t) \/ Dispatch(t) PROVE Goal
  BY <1>0, <1>1 DEF Persist, Dispatch, Becomes
<1>2. ASSUME NEW t \in Threads, Spawn(t) PROVE Goal
  BY <1>0, <1>2 DEF Spawn, Elsewhere
<1>3. ASSUME NEW r \in Runs, Worker(r) PROVE Goal
  <2>1. CASE Wake(r)
    BY <1>0, <2>1 DEF Wake, MovesTo
  <2>2. CASE Open(r) \/ Progress(r) \/ Notice(r) \/ CopyEnds(r)
    BY <1>0, <2>2 DEF Open, Progress, Notice, CopyEnds, MovesTo, Becomes,
       Elsewhere
  <2>3. CASE FinishJob(r)
    BY <1>0, <2>3 DEF FinishJob, Becomes, Elsewhere
  <2>4. CASE HandleFailure(r)
    BY <1>0, <2>4 DEF HandleFailure, Becomes, Elsewhere
  <2> QED
    BY <1>3, <2>1, <2>2, <2>3, <2>4 DEF Worker
<1>4. CASE Command
  <2>1. ASSUME NEW j \in Jobs,
               CancelJob(j) \/ PauseJob(j) \/ ResumeJob(j) \/ RetryJob(j)
        PROVE  Goal
    BY <1>0, <2>1 DEF CancelJob, PauseJob, ResumeJob, ResumePaused, RetryJob,
       Becomes, Elsewhere
  <2>2. ASSUME NEW t \in {Main} \cup Lockers, PauseAll(t) PROVE Goal
    BY <1>0, <2>2 DEF PauseAll, Becomes, Elsewhere
  <2>3. ASSUME NEW a \in Adders, NEW n \in 1 .. 2, Enqueue(a, n) PROVE Goal
    BY <1>0, <2>3 DEF Enqueue, Becomes, Elsewhere
  <2>4. CASE LookAtSessions \/ ResumeAll \/ ClearFinished \/ DeleteRows
    BY <1>0, <2>4 DEF LookAtSessions, ResumeAll, ResumePaused, ClearFinished,
       DeleteRows, Becomes, Elsewhere
  <2> QED
    BY <1>4, <2>1, <2>2, <2>3, <2>4 DEF Command
<1>5. CASE Environment
  <2>1. ASSUME NEW l \in Lockers, LockKillsSessions(l) PROVE Goal
    BY <1>0, <2>1 DEF LockKillsSessions, MovesTo, Elsewhere
  <2> QED
    BY <1>5, <2>1 DEF Environment, Connect, Drop
<1>6. ASSUME NEW j \in Jobs, Elapse(j) PROVE Goal
  BY <1>6 DEF Elapse
<1>7. CASE UNCHANGED vars
  BY <1>7 DEF vars
<1> QED
  BY <1>1, <1>2, <1>3, <1>4, <1>5, <1>6, <1>7 DEF Next

\* A thread on its way to dispatch gets there, and a timer that sleeps goes on
\* sleeping or is on its way.
LEMMA WayStep ==
  ASSUME TypeOK, Shape, [Next]_vars, ~ Restart, NEW t \in Threads
  PROVE  /\ Towards(t) => Dispatch(t) \/ Towards(t)'
         /\ At(t, "sleep") =>
              \/ At(t, "sleep")'
              \/ t \in Runs /\ Wake(t) /\ Towards(t)'
<1>0. task \in [Threads -> TaskRecords]
  BY DEF TypeOK, TaskRecords
<1>1. CASE task'[t] = task[t]
  BY <1>1 DEF Towards, At
<1>2. CASE task[t].pc \in Elsewhere
  BY <1>2 DEF Towards, At, Elsewhere
<1>3. CASE Persist(t)
  <2>1. PICK row \in task[t].rows :
          LET rest == task[t].rows \ {row}
          IN  task' = [task EXCEPT
                ![t].rows = rest,
                ![t].pc = IF rest = {} THEN task[t].next ELSE "persist",
                ![t].next = IF rest = {} THEN "idle" ELSE task[t].next]
    BY <1>3 DEF Persist
  <2>2. \/ task'[t].pc = task[t].next
        \/ task'[t].pc = "persist" /\ task'[t].next = task[t].next
    BY <1>0, <2>1 DEF TaskRecords
  <2> QED
    BY <1>3, <2>2 DEF Persist, Towards, At
<1>4. CASE Dispatch(t)
  BY <1>4 DEF Dispatch, At
<1>5. CASE t \in Runs /\ Wake(t)
  <2>1. task'[t].pc = "dispatch"
    BY <1>0, <1>5 DEF Wake, MovesTo, TaskRecords
  <2> QED
    BY <1>5, <2>1 DEF Wake, Towards, At
<1> QED
  BY LeftAlone, <1>1, <1>2, <1>3, <1>4, <1>5

\* Only the end of an attempt sets a timer.
LEMMA WaitStep ==
  ASSUME TypeOK, Shape, [Next]_vars, NEW j \in Jobs,
         ~ \E r \in Runs : FinishJob(r) \/ HandleFailure(r)
  PROVE  job'[j].wait \in {job[j].wait, None}
<1> DEFINE Goal == job'[j].wait \in {job[j].wait, None}
<1>0. job \in [Jobs -> JobRecords]
  BY DEF TypeOK, JobRecords
<1>1. ASSUME NEW t \in Threads, Dispatch(t) PROVE Goal
  BY <1>0, <1>1, DispatchStarts DEF JobRecords
<1>2. ASSUME NEW i \in Jobs, Elapse(i) PROVE Goal
  BY <1>0, <1>2 DEF Elapse, JobRecords
<1>3. ASSUME NEW i \in Jobs, CancelJob(i) PROVE Goal
  BY <1>0, <1>3 DEF CancelJob, JobRecords
<1>4. ASSUME NEW i \in Jobs, RetryJob(i) PROVE Goal
  <2>1. CASE UNCHANGED job
    BY <2>1
  <2>2. CASE ~ UNCHANGED job
    <3>1. \E s \in Rebound(job[i], task[Main].seen) :
            job' = [job EXCEPT ![i] =
              [AtRest(i, "queued") EXCEPT !.attempts = 0, !.wait = None,
                                          !.session = s]]
      BY <1>4, <2>2 DEF RetryJob
    <3> QED
      BY <1>0, <3>1 DEF AtRest, JobRecords
  <2> QED
    BY <2>1, <2>2
<1>5. ASSUME NEW js \in SUBSET Jobs, Pauses(js) PROVE Goal
  BY <1>0, <1>5 DEF Pauses, JobRecords
<1>6. ASSUME NEW js \in SUBSET With("paused"), ResumePaused(js) PROVE Goal
  BY <1>0, <1>6 DEF ResumePaused, JobRecords
<1>7. ASSUME NEW a \in Adders, NEW n \in 1 .. 2, Enqueue(a, n) PROVE Goal
  BY <1>0, <1>7 DEF Enqueue, NoJob
<1>8. CASE ClearFinished
  BY <1>8 DEF ClearFinished, NoJob
<1>9. CASE Restart
  BY <1>9, RestartJobs
<1>10. CASE UNCHANGED <<job, nextId, stopped>>
  BY <1>10
<1> QED
  BY JobSteps, <1>1, <1>2, <1>3, <1>4, <1>5, <1>6, <1>7, <1>8, <1>9, <1>10

\* Every step keeps each waiting job its own sleeping timer.
LEMMA TimerStep ==
  ASSUME TypeOK, Shape, OwnTimer, [Next]_vars
  PROVE  OwnTimer'
<1>0. /\ job \in [Jobs -> JobRecords] /\ Runs \subseteq Threads
      /\ task' \in [Threads -> TaskRecords]
  BY Kinds, TaskStep DEF TypeOK, JobRecords, Wellformed
<1>1. CASE Restart
  BY <1>1, RestartJobs DEF OwnTimer
<1>2. ASSUME ~ Restart, NEW j \in Jobs, job[j].wait # None
      PROVE  task'[job[j].wait].pc = "sleep"
  <2>1. At(job[j].wait, "sleep") /\ job[j].wait \in Threads
    BY <1>0, <1>2 DEF OwnTimer, JobRecords
  <2>2. ~ (job[j].wait \in Runs /\ Wake(job[j].wait))
    BY <1>2 DEF Wake
  <2> DEFINE t == job[j].wait
  <2>3. ASSUME NEW u \in Threads, u = t PROVE task'[u].pc = "sleep"
    BY <1>2, <2>1, <2>2, <2>3, WayStep DEF At
  <2> QED
    BY <2>1, <2>3
<1>3. ASSUME ~ Restart, NEW r \in Runs, FinishJob(r) \/ HandleFailure(r)
      PROVE  OwnTimer'
  <2> DEFINE e == task[r].at
  <2>1. /\ e \in Jobs
        /\ \A i \in Jobs : i # e => job'[i].wait = job[i].wait
        /\ \/ job'[e].wait = job[e].wait
           \/ /\ At(job'[e].wait, "idle")
              /\ task'[job'[e].wait].pc = "sleep"
    BY <1>3, EndOutcome
  <2>2. \A i \in Jobs : job[i].wait # None => At(job[i].wait, "sleep")
    BY DEF OwnTimer
  <2>3. CASE job'[e].wait = job[e].wait
    <3>1. \A i \in Jobs : job'[i].wait = job[i].wait
      BY <2>1, <2>3
    <3> QED
      BY <1>2, <1>3, <3>1 DEF OwnTimer, At
  <2>4. CASE /\ At(job'[e].wait, "idle")
             /\ task'[job'[e].wait].pc = "sleep"
    <3>1. \A i \in Jobs : i # e /\ job[i].wait # None =>
            job[i].wait # job'[e].wait
      BY <2>2, <2>4 DEF At
    <3> QED
      BY <1>2, <1>3, <2>1, <2>4, <3>1 DEF OwnTimer, At
  <2> QED
    BY <2>1, <2>3, <2>4
<1>4. CASE ~ Restart /\ ~ \E r \in Runs : FinishJob(r) \/ HandleFailure(r)
  <2>1. \A j \in Jobs : job'[j].wait \in {job[j].wait, None}
    BY <1>4, WaitStep
  <2> QED
    BY <1>2, <1>4, <2>1 DEF OwnTimer, At
<1> QED
  BY <1>1, <1>3, <1>4

\* The jobs that are active are finitely many: all have ids below nextId.
LEMMA ActiveFinite ==
  ASSUME TypeOK, FreshIds
  PROVE  /\ IsFiniteSet(Active) /\ IsFiniteSet(Dispatchable)
         /\ Cardinality(Active) \in Nat
<1>1. \A j \in Active \cup Dispatchable : j \in Nat /\ j <= nextId
  BY NumbersAssumption DEF FreshIds, TypeOK, Active, Dispatchable, With
<1>2. /\ Active \subseteq 0 .. nextId /\ Dispatchable \subseteq 0 .. nextId
      /\ IsFiniteSet(0 .. nextId)
  BY <1>1, FS_Interval DEF TypeOK
<1>3. IsFiniteSet(Active) /\ IsFiniteSet(Dispatchable)
  BY <1>2, FS_Subset
<1> QED
  BY <1>3, FS_CardinalityType

\* What a dispatch does to the number of active jobs: they never pass the
\* limit, and a job that could run is left only when they reach it.
LEMMA DispatchFills ==
  ASSUME TypeOK, FreshIds, WithinLimit, NEW t \in Threads, Dispatch(t)
  PROVE  /\ Cardinality(Active') \in Nat
         /\ Cardinality(Active') <= Limit
         /\ Dispatchable' # {} => Cardinality(Active') >= Limit
<1> DEFINE capacity == IF Cardinality(Active) < Limit
                       THEN Limit - Cardinality(Active) ELSE 0
           start == First(Dispatchable, capacity)
<1>0. /\ Limit \in Nat /\ capacity \in Nat /\ Cardinality(Active) \in Nat
      /\ IsFiniteSet(Active) /\ IsFiniteSet(Dispatchable)
      /\ Dispatchable \in SUBSET Jobs /\ job \in [Jobs -> JobRecords]
  BY NumbersAssumption, ActiveFinite
  DEF TypeOK, JobRecords, Active, Dispatchable, With
<1>1. job' = [j \in Jobs |->
                IF j \in start THEN [job[j] EXCEPT !.state = "active"]
                ELSE job[j]]
  BY DEF Dispatch
<1> HIDE DEF capacity
<1>2. /\ start \subseteq Dispatchable /\ IsFiniteSet(start)
      /\ Cardinality(start) <= capacity
      /\ Dispatchable # start => Cardinality(start) >= capacity
  BY <1>0, FirstAtMost, FirstTakesAll
<1> HIDE DEF start
<1>3. \A j \in start : j \in Jobs /\ job[j].state = "queued" /\ job[j].wait = None
  BY <1>2 DEF Dispatchable, With
<1>4. Active' = Active \cup start /\ Active \cap start = {}
  BY <1>0, <1>1, <1>3 DEF Active, With, JobRecords
<1>5. Dispatchable' = Dispatchable \ start
  BY <1>0, <1>1, <1>3 DEF Dispatchable, With, JobRecords
<1>6. Cardinality(Active') = Cardinality(Active) + Cardinality(start)
      /\ Cardinality(start) \in Nat
  <2>1. Cardinality(Active \cap start) = 0
    BY <1>4, FS_EmptySet
  <2>2. Cardinality(start) \in Nat
    BY <1>2, FS_CardinalityType
  <2>3. Cardinality(Active \cup start) =
          Cardinality(Active) + Cardinality(start) - Cardinality(Active \cap start)
    BY <1>0, <1>2, FS_Union
  <2> QED
    BY <1>0, <1>4, <2>1, <2>2, <2>3
<1>7. Cardinality(Active) <= Limit
  BY DEF WithinLimit
<1> QED
  BY <1>0, <1>2, <1>5, <1>6, <1>7 DEF capacity

\* Every step keeps the active jobs within the limit.
LEMMA LimitStep ==
  ASSUME TypeOK, Shape, FreshIds, WithinLimit, [Next]_vars
  PROVE  WithinLimit'
<1>1. CASE Active' = Active
  BY <1>1 DEF WithinLimit
<1>2. ASSUME NEW t \in Threads, Dispatch(t) PROVE WithinLimit'
  BY <1>2, DispatchFills DEF WithinLimit
<1>3. CASE Active' \subseteq Active
  <2>1. Cardinality(Active') <= Cardinality(Active) /\ IsFiniteSet(Active')
    BY <1>3, ActiveFinite, FS_Subset
  <2>2. Cardinality(Active') \in Nat /\ Cardinality(Active) \in Nat
        /\ Limit \in Nat
    BY <2>1, ActiveFinite, FS_CardinalityType, NumbersAssumption
  <2> QED
    BY <2>1, <2>2 DEF WithinLimit
<1>4. ASSUME NEW r \in Runs, FinishJob(r) \/ HandleFailure(r)
      PROVE  Active' \subseteq Active
  BY <1>4, EndOutcome DEF Active, With
<1>5. CASE Restart
  BY <1>3, <1>5, RestartJobs DEF Active, With
<1> QED
  BY ActiveStep, <1>1, <1>2, <1>3, <1>4, <1>5 DEF Turns

\* A job that becomes dispatchable has somebody who will call dispatch: the
\* command that queued it, or the timer it waited for.
LEMMA NewlyDispatchable ==
  ASSUME TypeOK, Shape, OwnTimer, [Next]_vars, ~ Turns,
         NEW j \in Jobs, j \notin Dispatchable, j \in Dispatchable'
  PROVE  \E t \in Threads : OnItsWay(t)'
<1>0. /\ job \in [Jobs -> JobRecords] /\ task \in [Threads -> TaskRecords]
      /\ Main \in Threads /\ Adders \subseteq Threads /\ Runs \subseteq Threads
  BY Kinds DEF TypeOK, JobRecords, TaskRecords
<1>1. /\ job'[j].state = "queued" /\ job'[j].wait = None
      /\ ~ (job[j].state = "queued" /\ job[j].wait = None)
  BY DEF Dispatchable, With
<1>2. ASSUME NEW t \in Threads, NEW js \in SUBSET Jobs,
             Becomes(t, Writes(js, "dispatch"))
      PROVE  \E u \in Threads : OnItsWay(u)'
  <2>1. task'[t] = Writes(js, "dispatch")
    BY <1>0, <1>2 DEF Becomes
  <2>2. \/ Writes(js, "dispatch").pc = "dispatch"
        \/ /\ Writes(js, "dispatch").pc = "persist"
           /\ Writes(js, "dispatch").next = "dispatch"
    BY JobTypeStep, WritesShape
  <2> QED
    BY <2>1, <2>2 DEF OnItsWay, At
<1>3. ASSUME NEW i \in Jobs, Elapse(i)
      PROVE  \E u \in Threads : OnItsWay(u)'
  <2>1. i = j /\ job[j].wait # None
    BY <1>0, <1>1, <1>3 DEF Elapse, JobRecords
  <2>2. /\ At(job[j].wait, "sleep") /\ job[j].wait \in Threads
        /\ \A k \in Jobs : job[k].wait = job[j].wait => k = j
    BY <1>0, <2>1 DEF OwnTimer, JobRecords
  <2>3. /\ \A k \in Jobs : job'[k].wait = IF k = j THEN None ELSE job[k].wait
        /\ task' = task
    BY <1>0, <1>3, <2>1 DEF Elapse, JobRecords
  <2>4. PICK t \in Threads : t = job[j].wait
    BY <2>2
  <2>5. task'[t].pc = "sleep" /\ \A k \in Jobs : job'[k].wait # t
    BY <2>1, <2>2, <2>3, <2>4 DEF At
  <2> QED
    BY <2>5 DEF OnItsWay, At
<1>4. ASSUME NEW i \in Jobs, CancelJob(i) PROVE FALSE
  BY <1>0, <1>1, <1>4 DEF CancelJob, JobRecords
<1>5. ASSUME NEW i \in Jobs, RetryJob(i)
      PROVE  \E u \in Threads : OnItsWay(u)'
  <2>1. ~ UNCHANGED job
    BY <1>1
  <2>2. Becomes(Main, Writes({i}, "dispatch"))
    BY <1>5, <2>1 DEF RetryJob
  <2> QED
    BY <1>0, <1>2, <2>2
<1>6. ASSUME NEW js \in SUBSET Jobs, Pauses(js) PROVE FALSE
  BY <1>0, <1>1, <1>6 DEF Pauses, JobRecords
<1>7. ASSUME NEW js \in SUBSET With("paused"), ResumePaused(js)
      PROVE  \E u \in Threads : OnItsWay(u)'
  <2>1. js \in SUBSET Jobs
    BY DEF With
  <2> QED
    BY <1>0, <1>2, <1>7, <2>1 DEF ResumePaused
<1>8. ASSUME NEW a \in Adders, NEW n \in 1 .. 2, Enqueue(a, n)
      PROVE  \E u \in Threads : OnItsWay(u)'
  <2>1. \E new \in SUBSET Jobs : Becomes(a, Writes(new, "dispatch"))
    BY <1>8 DEF Enqueue
  <2> QED
    BY <1>0, <1>2, <2>1
<1>9. CASE ClearFinished
  BY <1>1, <1>9 DEF ClearFinished, NoJob
<1>10. CASE UNCHANGED <<job, nextId, stopped>>
  BY <1>1, <1>10
<1> QED
  BY JobSteps, <1>3, <1>4, <1>5, <1>6, <1>7, <1>8, <1>9, <1>10 DEF Turns

\* No step loses a wake-up.
LEMMA WakeupStep ==
  ASSUME TypeOK, Shape, FreshIds, OwnTimer, WithinLimit, NoLostWakeup,
         [Next]_vars
  PROVE  NoLostWakeup'
<1> SUFFICES ASSUME Dispatchable' # {}, Cardinality(Active') < Limit
             PROVE  \E t \in Threads : OnItsWay(t)'
  BY DEF NoLostWakeup
<1>1. ASSUME NEW t \in Threads, Dispatch(t) PROVE FALSE
  BY <1>1, DispatchFills, NumbersAssumption
<1>2. ASSUME NEW r \in Runs, FinishJob(r) \/ HandleFailure(r)
      PROVE  \E t \in Threads : OnItsWay(t)'
  BY <1>2, AttemptEnds, Kinds DEF OnItsWay, At
<1>3. CASE Restart
  BY <1>3, RestartJobs DEF Dispatchable, With
<1>4. CASE ~ Turns /\ Dispatchable = {}
  BY <1>4, NewlyDispatchable DEF Dispatchable, With
<1>5. CASE ~ Turns /\ Dispatchable # {}
  <2>1. Active' = Active
    BY <1>5, ActiveStep
  <2>2. PICK t \in Threads : OnItsWay(t)
    BY <1>5, <2>1 DEF NoLostWakeup
  <2>3. CASE Towards(t)
    BY <1>5, <2>3, WayStep DEF Turns, Towards, OnItsWay
  <2>4. CASE At(t, "sleep") /\ \A j \in Jobs : job[j].wait # t
    <3>1. \A j \in Jobs : job'[j].wait # t
      BY <1>5, <2>4, WaitStep, Kinds DEF Turns
    <3> QED
      BY <1>5, <2>4, <3>1, WayStep DEF Turns, Towards, OnItsWay
  <2> QED
    BY <2>2, <2>3, <2>4 DEF OnItsWay, Towards
<1> QED
  BY <1>1, <1>2, <1>3, <1>4, <1>5 DEF Turns

-----------------------------------------------------------------------------
(* The theorems *)

QueueInv ==
  /\ TypeOK /\ Shape
  /\ FreshIds
  /\ OneWorkerPerActiveJob
  /\ StoppedNotQueued
  /\ NeverMovesHosts
  /\ OwnTimer
  /\ WithinLimit
  /\ NoLostWakeup

\* An empty queue satisfies the invariant.
LEMMA QueueInit == Init => QueueInv
<1> SUFFICES ASSUME Init PROVE QueueInv
  OBVIOUS
<1>1. TypeOK /\ Shape
  BY TypeInit
<1>2. \A j \in Jobs : /\ job[j].state = "none" /\ job[j].wait = None
                      /\ job[j].session = None /\ j \notin stopped
  BY DEF Init, NoJob
<1>3. \A t \in Threads, j \in Jobs : ~ Carries(t, j)
  BY Kinds DEF Init, Idle, Carries
<1>4. Active = {} /\ Dispatchable = {}
  BY <1>2 DEF Active, Dispatchable, With
<1>5. WithinLimit
  BY <1>4, FS_EmptySet, NumbersAssumption DEF WithinLimit
<1>6. StoppedNotQueued
  BY DEF Init, StoppedNotQueued
<1> QED
  BY <1>1, <1>2, <1>3, <1>4, <1>5, <1>6
  DEF QueueInv, FreshIds, OneWorkerPerActiveJob, NeverMovesHosts, OwnTimer,
      NoLostWakeup

\* Every step keeps it.
LEMMA QueueStep == QueueInv /\ [Next]_vars => QueueInv'
<1> SUFFICES ASSUME QueueInv, [Next]_vars PROVE QueueInv'
  OBVIOUS
<1> USE DEF QueueInv
<1>1. TypeOK' /\ Shape'
  BY TypeStep
<1>2. FreshIds' /\ OneWorkerPerActiveJob'
  BY FreshStep, OneWorkerStep
<1>3. StoppedNotQueued' /\ NeverMovesHosts'
  BY StoppedStep, HostStep
<1>4. OwnTimer' /\ WithinLimit'
  BY TimerStep, LimitStep
<1>5. NoLostWakeup'
  BY WakeupStep
<1> QED
  BY <1>1, <1>2, <1>3, <1>4, <1>5

\* The invariant holds in every state.
THEOREM QueueInvariant == Spec => []QueueInv
BY QueueInit, QueueStep, PTL DEF Spec

\* An active job has exactly one worker, and no other job has any, however
\* many jobs, threads and restarts there are (dispatch, resume_paused,
\* finish_job): no two workers ever write the same `.part`.
THEOREM OneWorker == Spec => []OneWorkerPerActiveJob
<1>1. QueueInv => OneWorkerPerActiveJob
  BY DEF QueueInv
<1> QED
  BY <1>1, QueueInvariant, PTL

\* No more transfers run at once than the setting allows (dispatch).
THEOREM Limited == Spec => []WithinLimit
<1>1. QueueInv => WithinLimit
  BY DEF QueueInv
<1> QED
  BY <1>1, QueueInvariant, PTL

\* While a job could take a free slot, some thread is on its way to dispatch:
\* every function that frees a slot or queues a job calls it, and the timer of
\* a retry survives whatever happens to its job (handle_job_failure).
THEOREM WakeupKept == Spec => []NoLostWakeup
<1>1. QueueInv => NoLostWakeup
  BY DEF QueueInv
<1> QED
  BY <1>1, QueueInvariant, PTL

\* However sessions come and go, a job is only ever put on a session of the
\* server it was queued for (rebind_endpoint).
THEOREM HostsKept == Spec => []NeverMovesHosts
<1>1. QueueInv => NeverMovesHosts
  BY DEF QueueInv
<1> QED
  BY <1>1, QueueInvariant, PTL

\* A job that was stopped, or restored by a restart, is not started before the
\* user resumes or retries it (handle_job_failure, restore_pending).
THEOREM StoppedStays == Spec => StoppedStaysStopped
<1>1. QueueInv /\ [Next]_vars =>
        [\A j \in Jobs : job[j].state # "active" /\ job'[j].state = "active" =>
           j \notin stopped]_vars
  BY StartsQueued DEF QueueInv, StoppedNotQueued
<1> QED
  BY <1>1, QueueInvariant, PTL DEF Spec, StoppedStaysStopped

-----------------------------------------------------------------------------
(* The queue implements TransferLife *)

\* A flag is up only on a running job that was stopped, whoever is paused was
\* stopped, and a job that does not exist was never retried.
JobMarks ==
  \A j \in Jobs :
    /\ job[j].cancel \/ job[j].pause => job[j].state = "active" /\ j \in stopped
    /\ job[j].state = "paused" => j \in stopped
    /\ job[j].state = "none" => job[j].attempts = 0

\* What a worker saw of the flags still stands.
ResultStands ==
  \A t \in Threads : task[t].result \in {"cancelled", "paused"} =>
                       task[t].at \in stopped

HeldMarks == JobMarks /\ ResultStands

\* What an end does to the marks of its job.
LEMMA EndMarks ==
  ASSUME TypeOK, Shape, NEW r \in Runs, FinishJob(r) \/ HandleFailure(r)
  PROVE  LET j == task[r].at
         IN  /\ ~ job'[j].cancel /\ ~ job'[j].pause
             /\ \/ /\ job'[j].state = task[r].result
                   /\ task[r].result \in {"done", "cancelled", "paused"}
                   /\ job'[j].attempts = job[j].attempts
                \/ /\ job'[j].state \in {"cancelled", "paused"}
                   /\ job[j].cancel \/ job[j].pause
                   /\ job'[j].attempts = job[j].attempts
                \/ /\ job'[j].state = "failed"
                   /\ ~ job[j].cancel /\ ~ job[j].pause
                   /\ job'[j].attempts = job[j].attempts
                \/ /\ job'[j].state = "queued"
                   /\ ~ job[j].cancel /\ ~ job[j].pause
                   /\ job[j].attempts < MaxRetries
                   /\ job'[j].attempts = job[j].attempts + 1
<1> DEFINE j == task[r].at
           Again(t) == [AtRest(j, "queued") EXCEPT !.attempts = @ + 1, !.wait = t]
<1>0. /\ job \in [Jobs -> JobRecords] /\ j \in Jobs
  BY EndOutcome DEF TypeOK, JobRecords
<1>1. ASSUME NEW s \in Finished \cup {"paused"}, job' = [job EXCEPT ![j] = AtRest(j, s)]
      PROVE  /\ job'[j].state = s /\ ~ job'[j].cancel /\ ~ job'[j].pause
             /\ job'[j].attempts = job[j].attempts
  BY <1>0, <1>1 DEF AtRest, JobRecords
<1>2. ASSUME NEW t, job' = [job EXCEPT ![j] = Again(t)]
      PROVE  /\ job'[j].state = "queued" /\ ~ job'[j].cancel /\ ~ job'[j].pause
             /\ job'[j].attempts = job[j].attempts + 1
  BY <1>0, <1>2 DEF AtRest, JobRecords
<1> HIDE DEF Again
<1>3. CASE FinishJob(r)
  BY <1>1, <1>3 DEF FinishJob, Finished
<1>4. ASSUME NEW s \in FailureStops(job[j])
      PROVE  s \in {"cancelled", "paused"} /\ (job[j].cancel \/ job[j].pause)
  BY <1>4 DEF FailureStops
<1>5. FailureStops(job[j]) = {} => ~ job[j].cancel /\ ~ job[j].pause
  BY DEF FailureStops
<1>6. CASE /\ \E s \in FailureStops(job[j]) :
                job' = [job EXCEPT ![j] = AtRest(j, s)]
  BY <1>1, <1>4, <1>6 DEF Finished
<1>7. CASE /\ FailureStops(job[j]) = {}
           /\ job' = [job EXCEPT ![j] = AtRest(j, "failed")]
  BY <1>1, <1>5, <1>7 DEF Finished
<1>8. CASE /\ FailureStops(job[j]) = {} /\ Retryable(r)
           /\ \E t \in Runs :
                /\ At(t, "idle")
                /\ job' = [job EXCEPT ![j] =
                     [AtRest(j, "queued") EXCEPT !.attempts = @ + 1,
                                                 !.wait = t]]
                /\ task' = [task EXCEPT ![r] = Writes({j}, "dispatch"),
                                        ![t] = [Idle EXCEPT !.pc = "sleep"]]
  <2>1. job[j].attempts < MaxRetries /\ FailureStops(job[j]) = {}
    BY <1>8 DEF Retryable
  <2>2. PICK t \in Runs :
          /\ At(t, "idle")
          /\ job' = [job EXCEPT ![j] =
               [AtRest(j, "queued") EXCEPT !.attempts = @ + 1, !.wait = t]]
          /\ task' = [task EXCEPT ![r] = Writes({j}, "dispatch"),
                                  ![t] = [Idle EXCEPT !.pc = "sleep"]]
    BY <1>8, Zenon
  <2>3. /\ job'[j].state = "queued" /\ ~ job'[j].cancel /\ ~ job'[j].pause
        /\ job'[j].attempts = job[j].attempts + 1
    BY <1>2, <2>2, Zenon DEF Again
  <2> QED
    BY <1>5, <2>1, <2>3
<1>9. CASE HandleFailure(r)
  BY <1>6, <1>7, <1>8, <1>9 DEF HandleFailure
<1> QED
  BY <1>3, <1>9

\* What a restart restores was retried no more often than allowed, and what it
\* does not restore is new.
LEMMA RestartMarks ==
  ASSUME TypeOK, Restart
  PROVE  /\ stopped' = RestoredIds /\ RestoredIds \subseteq Jobs
         /\ \A j \in Jobs : /\ ~ job'[j].cancel /\ ~ job'[j].pause
                            /\ job'[j].attempts \in 0 .. MaxRetries
                            /\ j \notin RestoredIds => job'[j].attempts = 0
         /\ \A t \in Threads : task'[t].result = "none"
<1>1. stopped' = RestoredIds /\ RestoredIds \subseteq Jobs
  BY DEF Restart, RestoredIds, Restored, TypeOK, Rows
<1>2. \A t \in Threads : task'[t].result = "none"
  BY DEF Restart, Idle
<1>3. ASSUME NEW j \in Jobs
      PROVE  /\ ~ job'[j].cancel /\ ~ job'[j].pause
             /\ job'[j].attempts \in 0 .. MaxRetries
             /\ j \notin RestoredIds => job'[j].attempts = 0
  <2>1. job'[j] = IF j \in RestoredIds
                  THEN RestoredJob(CHOOSE d \in Restored : d.id = j) ELSE NoJob
    BY DEF Restart, RestoredIds
  <2>2. ASSUME j \in RestoredIds
        PROVE  (CHOOSE d \in Restored : d.id = j).attempts \in 0 .. MaxRetries
    BY <2>2 DEF RestoredIds, Restored, TypeOK, Rows
  <2> QED
    BY <2>1, <2>2, NumbersAssumption DEF RestoredJob, NoJob
<1> QED
  BY <1>1, <1>2, <1>3

\* A running job is not let go by the user: what is resumed is paused, and what
\* is retried or cleared has ended.
LEMMA HeldWhileRunning ==
  ASSUME TypeOK, Shape, [Next]_vars, ~ Restart,
         NEW j \in stopped, job[j].state = "active"
  PROVE  j \in stopped'
<1>0. stopped \subseteq Jobs
  BY DEF TypeOK
<1>1. ASSUME NEW r \in Runs, FinishJob(r) \/ HandleFailure(r) PROVE j \in stopped'
  BY <1>1, EndOutcome
<1>2. ASSUME NEW t \in Threads, Dispatch(t) PROVE j \in stopped'
  BY <1>2 DEF Dispatch
<1>3. ASSUME NEW i \in Jobs, Elapse(i) \/ CancelJob(i) PROVE j \in stopped'
  <2>1. stopped' \in {stopped, stopped \cup {i}}
    BY <1>3, Zenon DEF Elapse, CancelJob
  <2> QED
    BY <2>1, Zenon
<1>4. ASSUME NEW i \in Jobs, RetryJob(i) PROVE j \in stopped'
  <2>1. \/ stopped' = stopped
        \/ stopped' = stopped \ {i} /\ job[i].state \in {"failed", "cancelled"}
    BY <1>4, Zenon DEF RetryJob
  <2> QED
    BY <2>1, Zenon
<1>5. ASSUME NEW js \in SUBSET Jobs, Pauses(js) PROVE j \in stopped'
  <2>1. stopped \subseteq stopped'
    BY <1>5, Zenon DEF Pauses
  <2> QED
    BY <2>1, Zenon
<1>6. ASSUME NEW js \in SUBSET With("paused"), ResumePaused(js) PROVE j \in stopped'
  <2>1. stopped \ js \subseteq stopped'
    BY <1>6, Zenon DEF ResumePaused
  <2> QED
    BY <2>1 DEF With
<1>7. ASSUME NEW a \in Adders, NEW n \in 1 .. 2, Enqueue(a, n) PROVE j \in stopped'
  BY <1>7 DEF Enqueue
<1>8. CASE ClearFinished
  BY <1>8 DEF ClearFinished, Finished
<1>9. CASE UNCHANGED <<job, nextId, stopped>>
  BY <1>9
<1> QED
  BY JobSteps, <1>1, <1>2, <1>3, <1>4, <1>5, <1>6, <1>7, <1>8, <1>9

\* What a thread finds in a flag is the only way to a stopped result.
LEMMA ResultStep ==
  ASSUME TypeOK, Shape, [Next]_vars, NEW t \in Threads,
         task'[t].result \in {"cancelled", "paused"}
  PROVE  \/ /\ task[t].result = task'[t].result /\ task[t].at = task'[t].at
            /\ ~ Restart
         \/ /\ t \in Runs /\ Notice(t)
            /\ task'[t].at = task[t].at
<1> DEFINE Goal == \/ /\ task[t].result = task'[t].result /\ task[t].at = task'[t].at
                      /\ ~ Restart
                   \/ /\ t \in Runs /\ Notice(t)
                      /\ task'[t].at = task[t].at
<1>0. /\ task \in [Threads -> TaskRecords] /\ job' \in [Jobs -> JobRecords]
      /\ Runs \subseteq Threads /\ Main \in Threads /\ Adders \subseteq Threads
  BY Kinds, JobTypeStep DEF TypeOK, TaskRecords
<1>i. Idle.result = "none"
  BY DEF Idle
<1>w. \A js, next : Writes(js, next).result = "none"
  BY DEF Writes, Idle
<1>r. ~ Restart
  BY <1>i DEF Restart
<1>1. ASSUME task'[t] = task[t] PROVE Goal
  BY <1>1, <1>r
<1>2. ASSUME NEW u \in Threads, NEW rec, Becomes(u, rec), rec.result = "none"
      PROVE  Goal
  BY <1>0, <1>1, <1>2 DEF Becomes
<1>3. ASSUME NEW u \in Threads, NEW rec, Becomes(u, rec),
             rec.result \in {"closed", "done", "retryable", "terminal"}
      PROVE  Goal
  BY <1>0, <1>1, <1>3 DEF Becomes
<1>4. ASSUME NEW u \in Threads, NEW pc, MovesTo(u, pc) PROVE Goal
  BY <1>0, <1>r, <1>4 DEF MovesTo, TaskRecords
<1>5. ASSUME task' = task PROVE Goal
  BY <1>1, <1>5
<1> HIDE DEF Goal
<1>6. ASSUME NEW u \in Threads, Persist(u) PROVE Goal
  <2>1. PICK row \in task[u].rows :
          LET rest == task[u].rows \ {row}
          IN  task' = [task EXCEPT
                ![u].rows = rest,
                ![u].pc = IF rest = {} THEN task[u].next ELSE "persist",
                ![u].next = IF rest = {} THEN "idle" ELSE task[u].next]
    BY <1>6 DEF Persist
  <2> DEFINE rest == task[u].rows \ {row}
             pc == IF rest = {} THEN task[u].next ELSE "persist"
             next == IF rest = {} THEN "idle" ELSE task[u].next
  <2>2. task' = [task EXCEPT ![u].rows = rest, ![u].pc = pc, ![u].next = next]
    BY <2>1, Zenon
  <2> HIDE DEF rest, pc, next
  <2>3. task'[t].result = task[t].result /\ task'[t].at = task[t].at
    BY <1>0, <2>2 DEF TaskRecords
  <2> QED
    BY <1>r, <2>3 DEF Goal
<1>7. ASSUME NEW u \in Threads, Dispatch(u) PROVE Goal
  <2>1. PICK start \in SUBSET Dispatchable :
          task' = [task EXCEPT ![u] =
                     IF start = {} THEN Idle
                     ELSE [Writes(start, "spawn") EXCEPT !.starting = start]]
    BY <1>7, DispatchStarts
  <2>2. (IF start = {} THEN Idle
         ELSE [Writes(start, "spawn") EXCEPT !.starting = start]).result = "none"
    BY DEF Writes, Idle
  <2> QED
    BY <1>2, <2>1, <2>2 DEF Becomes
<1>8. ASSUME NEW u \in Threads, Spawn(u) PROVE Goal
  <2>1. PICK j \in task[u].starting, q \in Runs :
          LET rest == task[u].starting \ {j}
          IN  task' = [task EXCEPT
                ![u] = IF rest = {} THEN Idle ELSE [@ EXCEPT !.starting = rest],
                ![q] = [Idle EXCEPT !.pc = "start", !.at = j]]
    BY <1>8, Zenon DEF Spawn
  <2>2. t # q
    BY <1>0, <2>1 DEF Idle
  <2>3. task'[t].result = task[t].result /\ task'[t].at = task[t].at
    BY <1>0, <1>i, <2>1, <2>2 DEF TaskRecords
  <2> QED
    BY <1>r, <2>3 DEF Goal
<1>9. ASSUME NEW u \in Runs, Worker(u) PROVE Goal
  <2>1. CASE Open(u)
    <3>1. CASE Becomes(u, [task[u] EXCEPT !.pc = "settle", !.result = "closed"])
      <4>1. [task[u] EXCEPT !.pc = "settle", !.result = "closed"].result = "closed"
        BY <1>0 DEF TaskRecords
      <4> QED
        BY <1>0, <1>3, <3>1, <4>1
    <3> QED
      BY <1>0, <1>4, <2>1, <3>1 DEF Open
  <2>2. CASE Progress(u)
    <3>1. task'[t].result = task[t].result /\ task'[t].at = task[t].at
      BY <1>0, <2>2 DEF Progress, Becomes, TaskRecords
    <3> QED
      BY <1>r, <3>1 DEF Goal
  <2>3. CASE Notice(u)
    <3>1. task'[t].at = task[t].at /\ (u # t => task'[t] = task[t])
      BY <1>0, <2>3 DEF Notice, Becomes, TaskRecords
    <3> QED
      BY <1>1, <2>3, <3>1 DEF Goal
  <2>4. CASE CopyEnds(u)
    <3>1. PICK end \in {"done", "retryable", "terminal"} :
            Becomes(u, [task[u] EXCEPT !.pc = "settle", !.result = end])
      BY <2>4 DEF CopyEnds
    <3>2. [task[u] EXCEPT !.pc = "settle", !.result = end].result = end
      BY <1>0 DEF TaskRecords
    <3> QED
      BY <1>0, <1>3, <3>1, <3>2
  <2>5. CASE FinishJob(u)
    BY <1>0, <1>2, <1>w, <2>5 DEF FinishJob
  <2>6. CASE HandleFailure(u)
    <3>1. u # t
      <4>1. CASE \E js : Becomes(u, Writes(js, "dispatch"))
        BY <1>0, <1>w, <4>1 DEF Becomes
      <4>2. CASE \E js, v : task' = [task EXCEPT ![u] = Writes(js, "dispatch"),
                                                 ![v] = [Idle EXCEPT !.pc = "sleep"]]
        BY <1>0, <1>w, <1>i, <4>2 DEF Idle
      <4> QED
        BY <2>6, <4>1, <4>2, Zenon DEF HandleFailure
    <3>2. \/ task'[t] = task[t]
          \/ task'[t] = [Idle EXCEPT !.pc = "sleep"]
      BY <2>6, <3>1, AttemptEnds
    <3> QED
      BY <1>1, <3>2 DEF Idle
  <2>7. CASE Wake(u)
    BY <1>0, <1>4, <2>7 DEF Wake
  <2> QED
    BY <1>9, <2>1, <2>2, <2>3, <2>4, <2>5, <2>6, <2>7 DEF Worker
<1>10. ASSUME Command PROVE Goal
  <2>1. ASSUME NEW pc PROVE /\ [Idle EXCEPT !.pc = pc].result = "none"
                            /\ [Idle EXCEPT !.pc = pc, !.seen = live].result = "none"
    BY DEF Idle
  <2>2. ASSUME NEW i \in Jobs, CancelJob(i) \/ PauseJob(i) \/ ResumeJob(i)
        PROVE  Goal
    <3>1. \E js, next : Becomes(Main, Writes(js, next))
      BY <2>2, Zenon DEF CancelJob, PauseJob, ResumeJob, ResumePaused
    <3> QED
      BY <1>0, <1>2, <1>w, <3>1
  <2>3. ASSUME NEW i \in Jobs, RetryJob(i) PROVE Goal
    <3>1. \/ \E js, next : Becomes(Main, Writes(js, next))
          \/ Becomes(Main, [Idle EXCEPT !.pc = "dispatch"])
      BY <2>3, Zenon DEF RetryJob
    <3> QED
      BY <1>0, <1>2, <1>w, <2>1, <3>1
  <2>4. ASSUME NEW u \in {Main} \cup Lockers, PauseAll(u) PROVE Goal
    BY <1>2, <1>w, <2>4, Kinds DEF PauseAll
  <2>5. ASSUME NEW a \in Adders, NEW n \in 1 .. 2, Enqueue(a, n) PROVE Goal
    <3>1. \E js, next : Becomes(a, Writes(js, next))
      BY <2>5, Zenon DEF Enqueue
    <3> QED
      BY <1>0, <1>2, <1>w, <3>1
  <2>6. ASSUME LookAtSessions \/ ResumeAll \/ ClearFinished \/ DeleteRows
        PROVE  Goal
    <3>1. CASE LookAtSessions
      BY <1>0, <1>2, <2>1, <3>1 DEF LookAtSessions
    <3>2. CASE ResumeAll
      <4>1. \E js, next : Becomes(Main, Writes(js, next))
        BY <3>2, Zenon DEF ResumeAll, ResumePaused
      <4> QED
        BY <1>0, <1>2, <1>w, <4>1
    <3>3. CASE ClearFinished
      <4>1. Becomes(Main, [Idle EXCEPT !.pc = "delete"])
        BY <3>3, Zenon DEF ClearFinished
      <4> QED
        BY <1>0, <1>2, <2>1, <4>1
    <3>4. CASE DeleteRows
      BY <1>0, <1>2, <1>i, <3>4 DEF DeleteRows
    <3> QED
      BY <2>6, <3>1, <3>2, <3>3, <3>4
  <2>7. ASSUME NEW i \in Jobs,
               CancelJob(i) \/ PauseJob(i) \/ ResumeJob(i) \/ RetryJob(i)
        PROVE  Goal
    BY <2>2, <2>3, <2>7
  <2> QED
    BY <1>10, <2>4, <2>5, <2>6, <2>7 DEF Command
<1>11. ASSUME Environment PROVE Goal
  BY <1>4, <1>5, <1>r, <1>11, Kinds
  DEF Environment, Connect, Drop, LockKillsSessions
<1>12. ASSUME NEW j \in Jobs, Elapse(j) PROVE Goal
  BY <1>5, <1>12 DEF Elapse
<1> QED
  BY <1>5, <1>6, <1>7, <1>8, <1>9, <1>10, <1>11, <1>12 DEF Next, vars, Goal

\* A step of the abstract queue that keeps the marks.
Onward == JobMarks' /\ [Life!Next]_(Life!vars)

\* The stages, read job by job.
LEMMA Stages ==
  ASSUME TypeOK
  PROVE  /\ \A j \in Jobs : stages[j] = job[j].state /\ retries[j] = job[j].attempts
         /\ \A s : Life!In(s) = With(s)
BY DEF stages, retries, Life!In, With

LEMMA StagesNext ==
  /\ \A j \in Jobs : /\ (stages')[j] = (job')[j].state
                     /\ (retries')[j] = (job')[j].attempts
  /\ \A s : Life!In(s)' = With(s)'
BY DEF stages, retries, Life!In, With

LEMMA Becoming ==
  ASSUME TypeOK, NEW js, NEW s,
         \A j \in Jobs : (job')[j].state = IF j \in js THEN s ELSE job[j].state
  PROVE  Life!Become(js, s)
BY Stages DEF stages, Life!Become

LEMMA SameTries ==
  ASSUME \A j \in Jobs : (job')[j].attempts = job[j].attempts
  PROVE  retries' = retries
BY DEF retries

\* Steps that change neither stages nor retries nor who is held.
LEMMA Standing ==
  ASSUME \A j \in Jobs : /\ (job')[j].state = job[j].state
                         /\ (job')[j].attempts = job[j].attempts,
         stopped' = stopped
  PROVE  [Life!Next]_(Life!vars)
BY DEF stages, retries, Life!vars

\* The two modules count alike.
LEMMA Counts == ASSUME NEW S PROVE Life!Cardinality(S) = Cardinality(S)
BY DEF Life!Cardinality, Cardinality

\* dispatch.
LEMMA DispatchOnward ==
  ASSUME QueueInv, JobMarks, NEW t \in Threads, Dispatch(t)
  PROVE  Onward
<1> USE DEF QueueInv
<1>0. job \in [Jobs -> JobRecords] /\ TypeOK
  BY DEF TypeOK, JobRecords
<1>1. PICK start \in SUBSET Dispatchable :
        job' = [j \in Jobs |->
                  IF j \in start THEN [job[j] EXCEPT !.state = "active"]
                  ELSE job[j]]
  BY DispatchStarts
<1>2. start \subseteq Jobs /\ \A j \in start : job[j].state = "queued"
  BY DEF Dispatchable, With
<1>3. /\ stopped' = stopped
      /\ \A j \in Jobs :
           /\ (job')[j].state = IF j \in start THEN "active" ELSE job[j].state
           /\ (job')[j].attempts = job[j].attempts
           /\ (job')[j].cancel = job[j].cancel /\ (job')[j].pause = job[j].pause
  <2>1. stopped' = stopped
    BY DEF Dispatch
  <2> QED
    BY <1>0, <1>1, <2>1 DEF JobRecords
<1>4. start \subseteq Life!In("queued") \ stopped
  BY <1>0, <1>2, Stages DEF With, StoppedNotQueued
<1>5. Life!Cardinality(Life!In("active")') <= Limit
  <2>1. Life!In("active")' = Active'
    BY StagesNext DEF Active
  <2> QED
    BY <2>1, DispatchFills, Counts
<1>6. Life!Start(start)
  <2>1. Life!Become(start, "active") /\ retries' = retries
    BY <1>3, Becoming, SameTries
  <2> QED
    BY <1>3, <1>4, <1>5, <2>1 DEF Life!Start
<1>7. JobMarks'
  BY <1>2, <1>3 DEF JobMarks
<1> QED
  BY <1>2, <1>6, <1>7 DEF Onward, Life!Next

\* finish_job and handle_job_failure.
LEMMA EndOnward ==
  ASSUME QueueInv, JobMarks, ResultStands, NEW r \in Runs,
         FinishJob(r) \/ HandleFailure(r)
  PROVE  Onward
<1> USE DEF QueueInv
<1> DEFINE j == task[r].at
<1>0. TypeOK /\ job \in [Jobs -> JobRecords] /\ j \in Jobs /\ r \in Threads
  BY EndOutcome, Kinds DEF TypeOK, JobRecords
<1>1. job[j].state = "active"
  BY <1>0, Kinds DEF OneWorkerPerActiveJob, Carries
<1>2. /\ stopped' = stopped /\ \A i \in Jobs : i # j => (job')[i] = job[i]
      /\ ~ (job')[j].cancel /\ ~ (job')[j].pause
  BY EndOutcome, EndMarks
<1>3. ASSUME NEW s, (job')[j].state = s PROVE Life!Become({j}, s)
  BY <1>0, <1>2, <1>3, Becoming
<1>4. ASSUME (job')[j].attempts = job[j].attempts PROVE retries' = retries
  BY <1>2, <1>4, SameTries
<1>5. /\ j \in Life!In("active") /\ (j \in stopped => job[j].cancel \/ job[j].pause)
      /\ (job[j].cancel \/ job[j].pause => j \in stopped)
  BY <1>0, <1>1, Stages DEF With, StoppedNotQueued, JobMarks
<1>6. ASSUME (job')[j].attempts = job[j].attempts,
             \/ (job')[j].state = "done"
             \/ (job')[j].state \in {"cancelled", "paused"} /\ j \in stopped
             \/ (job')[j].state = "failed" /\ j \notin stopped
      PROVE  Onward
  <2>1. Life!Settle(j)
    BY <1>2, <1>3, <1>4, <1>5, <1>6 DEF Life!Settle
  <2>2. JobMarks'
    BY <1>2, <1>6 DEF JobMarks
  <2> QED
    BY <1>0, <2>1, <2>2 DEF Onward, Life!Next
<1>7. ASSUME (job')[j].state = "queued", ~ job[j].cancel, ~ job[j].pause,
             job[j].attempts < MaxRetries,
             (job')[j].attempts = job[j].attempts + 1
      PROVE  Onward
  <2>1. retries' = [retries EXCEPT ![j] = @ + 1]
    BY <1>0, <1>2, <1>7 DEF retries
  <2>2. Life!Retry(j)
    BY <1>0, <1>2, <1>3, <1>5, <1>7, <2>1, Stages DEF Life!Retry
  <2>3. JobMarks'
    BY <1>2, <1>7 DEF JobMarks
  <2> QED
    BY <1>0, <2>2, <2>3 DEF Onward, Life!Next
<1>8. task[r].result \in {"cancelled", "paused"} => j \in stopped
  BY <1>0 DEF ResultStands
<1> QED
  BY <1>5, <1>6, <1>7, <1>8, EndMarks

\* cancel_job.
LEMMA CancelOnward ==
  ASSUME QueueInv, JobMarks, NEW j \in Jobs, CancelJob(j)
  PROVE  Onward
<1> USE DEF QueueInv
<1>0. TypeOK /\ job \in [Jobs -> JobRecords]
  BY DEF TypeOK, JobRecords
<1>1. /\ stopped' = IF job[j].state \in Pending THEN stopped \cup {j} ELSE stopped
      /\ \A i \in Jobs : i # j => (job')[i] = job[i]
      /\ (job')[j].attempts = job[j].attempts /\ (job')[j].pause = job[j].pause
      /\ (job')[j].cancel = (job[j].state = "active")
      /\ (job')[j].state = IF job[j].state \in {"queued", "paused"}
                           THEN "cancelled" ELSE job[j].state
  BY <1>0 DEF CancelJob, JobRecords
<1>2. retries' = retries
  BY <1>1, SameTries
<1>3. JobMarks'
  BY <1>1 DEF JobMarks, Pending
<1>4. CASE job[j].state \in Pending
  <2>1. /\ j \in Life!In("queued") \cup Life!In("active") \cup Life!In("paused")
        /\ j \in Life!In("active") <=> job[j].state = "active"
    BY <1>0, <1>4, Stages DEF Pending, With
  <2>2. Life!Become({j} \ Life!In("active"), "cancelled")
    BY <1>0, <1>1, <1>4, <2>1, Becoming DEF Pending
  <2>3. Life!Cancel(j)
    BY <1>1, <1>2, <1>4, <2>1, <2>2 DEF Life!Cancel
  <2> QED
    BY <1>3, <2>3 DEF Onward, Life!Next
<1>5. CASE job[j].state \notin Pending
  <2>1. stopped' = stopped /\ \A i \in Jobs :
          (job')[i].state = job[i].state /\ (job')[i].attempts = job[i].attempts
    BY <1>1, <1>5 DEF Pending
  <2> QED
    BY <1>3, <2>1, Standing DEF Onward
<1> QED
  BY <1>4, <1>5

\* retry_job, when it finds a session.
LEMMA RetryOnward ==
  ASSUME QueueInv, JobMarks, NEW j \in Jobs, RetryJob(j),
         ~ UNCHANGED <<job, stopped>>
  PROVE  Onward
<1> USE DEF QueueInv
<1>0. TypeOK /\ job \in [Jobs -> JobRecords]
  BY DEF TypeOK, JobRecords
<1>1. /\ job[j].state \in {"failed", "cancelled"} /\ stopped' = stopped \ {j}
      /\ \E s \in Rebound(job[j], task[Main].seen) :
           job' = [job EXCEPT ![j] =
             [AtRest(j, "queued") EXCEPT !.attempts = 0, !.wait = None,
                                         !.session = s]]
  BY Zenon DEF RetryJob
<1>2. PICK s \in Rebound(job[j], task[Main].seen) :
        job' = [job EXCEPT ![j] =
          [AtRest(j, "queued") EXCEPT !.attempts = 0, !.wait = None,
                                      !.session = s]]
  BY <1>1, Zenon
<1>3. /\ \A i \in Jobs : i # j => (job')[i] = job[i]
      /\ (job')[j].state = "queued" /\ (job')[j].attempts = 0
      /\ ~ (job')[j].cancel /\ ~ (job')[j].pause
  BY <1>0, <1>2 DEF AtRest, JobRecords
<1>4. j \in Life!In("failed") \cup Life!In("cancelled")
  BY <1>0, <1>1, Stages DEF With
<1>5. Life!Become({j}, "queued")
  BY <1>0, <1>3, Becoming
<1>6. retries' = [retries EXCEPT ![j] = 0]
  BY <1>3 DEF retries
<1>7. Life!StartAgain(j)
  BY <1>1, <1>4, <1>5, <1>6 DEF Life!StartAgain
<1>8. JobMarks'
  BY <1>1, <1>3 DEF JobMarks
<1> QED
  BY <1>7, <1>8 DEF Onward, Life!Next

\* A job that is told to pause.
Told(rec) ==
  CASE rec.state = "active" -> [rec EXCEPT !.pause = TRUE]
    [] rec.state = "queued" -> [rec EXCEPT !.state = "paused", !.wait = None]
    [] OTHER -> rec

LEMMA ToldFields ==
  ASSUME NEW rec \in JobRecords
  PROVE  /\ Told(rec).attempts = rec.attempts /\ Told(rec).cancel = rec.cancel
         /\ rec.state = "active" => Told(rec).state = "active"
         /\ rec.state = "queued" => /\ Told(rec).state = "paused"
                                    /\ Told(rec).pause = rec.pause
         /\ rec.state \notin {"active", "queued"} => Told(rec) = rec
BY DEF Told, JobRecords

\* pause_job, pause_all and the teardown of a lock.
LEMMA PauseOnward ==
  ASSUME QueueInv, JobMarks, NEW js \in SUBSET Jobs, Pauses(js)
  PROVE  Onward
<1> USE DEF QueueInv
<1> DEFINE those == {j \in js : job[j].state \in {"active", "queued"}}
<1>0. TypeOK /\ job \in [Jobs -> JobRecords]
  BY DEF TypeOK, JobRecords
<1>1. stopped' = stopped \cup those
  BY Zenon DEF Pauses
<1>2. ASSUME NEW j \in Jobs
      PROVE  /\ j \notin those => (job')[j] = job[j]
             /\ (job')[j].attempts = job[j].attempts
             /\ (job')[j].cancel = job[j].cancel
             /\ j \in those /\ job[j].state = "active" =>
                  (job')[j].state = "active"
             /\ j \in those /\ job[j].state = "queued" =>
                  (job')[j].state = "paused" /\ (job')[j].pause = job[j].pause
  <2>1. (job')[j] = IF j \in js THEN Told(job[j]) ELSE job[j]
    BY Zenon DEF Pauses, Told
  <2>2. job[j] \in JobRecords
    BY <1>0
  <2> QED
    BY <2>1, <2>2, ToldFields
<1> HIDE DEF those
<1>3. /\ those \subseteq Jobs
      /\ \A j \in those : job[j].state \in {"active", "queued"}
  BY DEF those
<1>4. JobMarks'
  BY <1>1, <1>2, <1>3 DEF JobMarks
<1>5. retries' = retries
  BY <1>2, SameTries
<1>6. /\ those \subseteq Life!In("queued") \cup Life!In("active")
      /\ \A j \in Jobs : j \in those \cap Life!In("queued") <=>
                           j \in those /\ job[j].state = "queued"
  BY <1>0, <1>3, Stages DEF With
<1>7. Life!Become(those \cap Life!In("queued"), "paused")
  BY <1>0, <1>2, <1>3, <1>6, Becoming
<1>8. Life!Pause(those)
  BY <1>1, <1>5, <1>6, <1>7 DEF Life!Pause
<1> QED
  BY <1>3, <1>4, <1>8 DEF Onward, Life!Next

\* resume_paused.
LEMMA ResumeOnward ==
  ASSUME QueueInv, JobMarks, NEW js \in SUBSET With("paused"), ResumePaused(js)
  PROVE  Onward
<1> USE DEF QueueInv
<1> DEFINE ready == {j \in js : Rebound(job[j], task[Main].seen) # {}}
           session(j) == CHOOSE s \in Rebound(job[j], task[Main].seen) : TRUE
<1>0. TypeOK /\ job \in [Jobs -> JobRecords]
  BY DEF TypeOK, JobRecords
<1>1. job' = [j \in Jobs |->
        IF j \in ready
        THEN [job[j] EXCEPT !.state = "queued", !.wait = None,
                            !.session = session(j)]
        ELSE job[j]]
  BY Zenon DEF ResumePaused
<1>2. ready \subseteq js /\ stopped' = stopped \ ready
  BY Zenon DEF ResumePaused
<1> HIDE DEF ready, session
<1>3. \A j \in ready : j \in Jobs /\ job[j].state = "paused"
  BY <1>2 DEF With
<1>4. \A j \in Jobs :
        /\ (job')[j].state = IF j \in ready THEN "queued" ELSE job[j].state
        /\ (job')[j].attempts = job[j].attempts
        /\ (job')[j].cancel = job[j].cancel /\ (job')[j].pause = job[j].pause
  BY <1>0, <1>1 DEF JobRecords
<1>5. JobMarks'
  BY <1>2, <1>3, <1>4 DEF JobMarks
<1>6. ready \subseteq Life!In("paused") \cap stopped
  BY <1>0, <1>3, Stages DEF With, JobMarks
<1>7. Life!Become(ready, "queued") /\ retries' = retries
  BY <1>0, <1>4, Becoming, SameTries
<1>8. Life!Resume(ready)
  BY <1>2, <1>6, <1>7 DEF Life!Resume
<1> QED
  BY <1>3, <1>5, <1>8 DEF Onward, Life!Next

\* enqueue.
LEMMA EnqueueOnward ==
  ASSUME QueueInv, JobMarks, NEW a \in Adders, NEW n \in 1 .. 2, Enqueue(a, n)
  PROVE  Onward
<1> USE DEF QueueInv
<1> DEFINE new == nextId .. nextId + n - 1
<1>0. TypeOK /\ job \in [Jobs -> JobRecords] /\ nextId \in Nat /\ Jobs \subseteq Nat
  BY NumbersAssumption DEF TypeOK, JobRecords
<1>1. new \subseteq Jobs /\ stopped' = stopped
  BY Zenon DEF Enqueue
<1>2. PICK s \in Sessions :
        \E server \in {ServerOf[s]} \cup (IF s \in live THEN {} ELSE {None}) :
          job' = [j \in Jobs |->
            IF j \in new THEN [NoJob EXCEPT !.state = "queued",
                                 !.session = s, !.server = server]
            ELSE job[j]]
  BY Zenon DEF Enqueue
<1>3. \A j \in new : job[j].state = "none" /\ j \notin stopped /\ j \in Jobs
  BY <1>0, <1>1 DEF FreshIds
<1>4. \A j \in new : job[j].attempts = 0
  BY <1>3 DEF JobMarks
<1> HIDE DEF new
<1>5. \A j \in Jobs :
        /\ j \in new => /\ (job')[j].state = "queued" /\ (job')[j].attempts = 0
                        /\ ~ (job')[j].cancel /\ ~ (job')[j].pause
        /\ j \notin new => (job')[j] = job[j]
  BY <1>2 DEF NoJob
<1>6. JobMarks'
  BY <1>1, <1>5 DEF JobMarks
<1>7. Life!Become(new, "queued") /\ retries' = retries
  BY <1>0, <1>4, <1>5, Becoming, SameTries
<1>8. new \subseteq Life!In("none") \ stopped
  BY <1>0, <1>3, Stages DEF With
<1>9. Life!Add(new)
  BY <1>1, <1>7, <1>8 DEF Life!Add
<1> QED
  BY <1>1, <1>6, <1>9 DEF Onward, Life!Next

\* clear_finished.
LEMMA ClearOnward ==
  ASSUME QueueInv, JobMarks, ClearFinished
  PROVE  Onward
<1> USE DEF QueueInv
<1> DEFINE js == With("done") \cup With("failed") \cup With("cancelled")
<1>0. TypeOK /\ job \in [Jobs -> JobRecords] /\ stopped \subseteq Jobs
  BY DEF TypeOK, JobRecords
<1>1. /\ js \subseteq Jobs
      /\ \A j \in Jobs : j \in js <=> job[j].state \in Finished
  BY DEF With, Finished
<1> HIDE DEF js
<1>2. /\ stopped' = stopped \ js
      /\ \A j \in Jobs : (job')[j] = IF j \in js THEN NoJob ELSE job[j]
  <2>1. /\ stopped' = {j \in stopped : job[j].state \notin Finished}
        /\ job' = [j \in Jobs |-> IF job[j].state \in Finished THEN NoJob
                                  ELSE job[j]]
    BY Zenon DEF ClearFinished
  <2> QED
    BY <1>0, <1>1, <2>1
<1>3. JobMarks'
  BY <1>1, <1>2 DEF JobMarks, NoJob, Finished
<1>4. /\ Life!Become(js, "none")
      /\ retries' = [j \in Jobs |-> IF j \in js THEN 0 ELSE retries[j]]
  BY <1>0, <1>2, Becoming, Stages DEF NoJob, retries
<1>5. js = Life!In("done") \cup Life!In("failed") \cup Life!In("cancelled")
  BY <1>0, Stages DEF js
<1>6. Life!Clear(js)
  BY <1>2, <1>4, <1>5 DEF Life!Clear
<1> QED
  BY <1>1, <1>3, <1>6 DEF Onward, Life!Next

\* restore_pending.
LEMMA RestartOnward ==
  ASSUME QueueInv, Restart
  PROVE  Onward
<1> USE DEF QueueInv
<1>0. TypeOK
  OBVIOUS
<1>1. /\ stopped' = RestoredIds /\ RestoredIds \subseteq Jobs
      /\ \A j \in Jobs :
           /\ (job')[j].state = IF j \in RestoredIds THEN "paused" ELSE "none"
           /\ (job')[j].attempts \in 0 .. MaxRetries
           /\ j \notin RestoredIds => (job')[j].attempts = 0
           /\ ~ (job')[j].cancel /\ ~ (job')[j].pause
  BY RestartJobs, RestartMarks
<1>2. JobMarks'
  BY <1>1 DEF JobMarks
<1>3. stages' \in [Jobs -> {"none", "paused"}]
  BY <1>1 DEF stages
<1>4. retries' \in [Jobs -> 0 .. MaxRetries]
  BY <1>1 DEF retries
<1>5. /\ stopped' = Life!In("paused")'
      /\ \A j \in Life!In("none")' : (retries')[j] = 0
  BY <1>1, StagesNext DEF With
<1>6. Life!Restart
  BY <1>3, <1>4, <1>5 DEF Life!Restart
<1> QED
  BY <1>2, <1>6 DEF Onward, Life!Next

\* Every step is one of the abstract queue, or none.
LEMMA StepOnward ==
  ASSUME QueueInv, JobMarks, ResultStands, [Next]_vars
  PROVE  Onward
<1>1. ASSUME \A j \in Jobs :
               /\ (job')[j].state = job[j].state
               /\ (job')[j].attempts = job[j].attempts
               /\ (job')[j].cancel = job[j].cancel
               /\ (job')[j].pause = job[j].pause,
             stopped' = stopped
      PROVE  Onward
  BY <1>1, Standing DEF Onward, JobMarks
<1>2. ASSUME NEW i \in Jobs, Elapse(i) PROVE Onward
  <2>1. /\ job \in [Jobs -> JobRecords] /\ job' = [job EXCEPT ![i].wait = None]
        /\ stopped' = stopped
    BY <1>2 DEF Elapse, QueueInv, TypeOK, JobRecords
  <2> QED
    BY <1>1, <2>1 DEF JobRecords
<1>3. ASSUME UNCHANGED <<job, nextId, stopped>> PROVE Onward
  BY <1>1, <1>3
<1>4. ASSUME NEW i \in Jobs, RetryJob(i) PROVE Onward
  <2>1. CASE UNCHANGED <<job, stopped>>
    BY <1>1, <2>1
  <2> QED
    BY <1>4, <2>1, RetryOnward
<1> QED
  BY JobSteps, <1>2, <1>3, <1>4, DispatchOnward, EndOnward, CancelOnward,
     PauseOnward, ResumeOnward, EnqueueOnward, ClearOnward, RestartOnward

\* What a worker saw of the flags stands until its end is written.
LEMMA ResultsStand ==
  ASSUME QueueInv, JobMarks, ResultStands, [Next]_vars
  PROVE  ResultStands'
<1> USE DEF QueueInv
<1> SUFFICES ASSUME NEW t \in Threads,
                    (task')[t].result \in {"cancelled", "paused"}
             PROVE  (task')[t].at \in stopped'
  BY DEF ResultStands
<1>1. CASE /\ task[t].result = (task')[t].result /\ task[t].at = (task')[t].at
           /\ ~ Restart
  <2>1. task[t].at \in stopped
    BY <1>1 DEF ResultStands
  <2>2. task[t].at \in Jobs
    BY <2>1 DEF TypeOK
  <2>3. job[task[t].at].state = "active"
    BY <2>2 DEF OneWorkerPerActiveJob, Carries
  <2> QED
    BY <1>1, <2>1, <2>3, HeldWhileRunning
<1>2. CASE t \in Runs /\ Notice(t) /\ (task')[t].at = task[t].at
  <2>1. /\ job[task[t].at].cancel \/ job[task[t].at].pause
        /\ stopped' = stopped /\ At(t, "copy")
    BY <1>2, Zenon DEF Notice
  <2>2. task[t].at \in Jobs
    BY <2>1, Kinds DEF Shape, Shaped, PhaseOf, At, TypeOK
  <2> QED
    BY <1>2, <2>1, <2>2 DEF JobMarks
<1> QED
  BY <1>1, <1>2, ResultStep

\* The marks and the abstract queue, from the first state on.
LEMMA InitOnward == Init => JobMarks /\ ResultStands /\ Life!Init
<1> SUFFICES ASSUME Init PROVE JobMarks /\ ResultStands /\ Life!Init
  OBVIOUS
<1>1. \A j \in Jobs : /\ job[j].state = "none" /\ job[j].attempts = 0
                      /\ ~ job[j].cancel /\ ~ job[j].pause
  BY DEF Init, NoJob
<1>2. \A t \in Threads : task[t].result = "none"
  BY DEF Init, Idle
<1>3. /\ stages = [j \in Jobs |-> "none"] /\ retries = [j \in Jobs |-> 0]
      /\ stopped = {}
  BY <1>1 DEF Init, stages, retries
<1> QED
  BY <1>1, <1>2, <1>3 DEF JobMarks, ResultStands, Life!Init

\* A flag is up only on a running job that was stopped, whoever is paused was
\* stopped, and what a worker saw of the flags still stands when it ends
\* (cancel_job, pause_job, finish_job, restore_pending).
THEOREM HeldAreMarked == Spec => []HeldMarks
<1>1. Init => HeldMarks
  BY InitOnward DEF HeldMarks
<1>2. QueueInv /\ HeldMarks /\ [Next]_vars => HeldMarks'
  BY StepOnward, ResultsStand DEF Onward, HeldMarks
<1> QED
  BY <1>1, <1>2, QueueInvariant, PTL DEF Spec

\* Without its threads, rows and flags the queue does what TransferLife says:
\* whatever the interleaving of commands, workers, timers and locks, a job
\* starts within the limit and while nobody holds it, a failure is retried a
\* bounded number of times, and what the user, a lock or a restart stopped
\* waits for the user (dispatch, finish_job, handle_job_failure, pause_all,
\* resume_paused, restore_pending).
THEOREM QueueKeepsItsPromise == Spec => ImplementsTransferLife
<1>1. QueueInv /\ HeldMarks /\ [Next]_vars => [Life!Next]_(Life!vars)
  BY StepOnward DEF Onward, HeldMarks
<1> QED
  BY <1>1, InitOnward, QueueInvariant, HeldAreMarked, PTL
     DEF Spec, ImplementsTransferLife, Life!Spec

=============================================================================
