---------------------------- MODULE TransferQueue ----------------------------
(***************************************************************************)
(* The SFTP transfer queue of SSHSpan (src-tauri/src/sftp/queue.rs): jobs  *)
(* behind one mutex, started by whichever thread calls `dispatch`, copied  *)
(* by one async worker each, paused, resumed, cancelled and retried by the *)
(* user, paused by a lock of the vault, and shadowed by rows of the table  *)
(* transfer_queue that only a restart reads.                               *)
(*                                                                         *)
(* Every function changes the jobs under the mutex and writes the rows of  *)
(* what it changed AFTER it let go of it, so rows of two threads can cross.*)
(* A step is the code under one hold of the mutex, or one statement on the *)
(* table.  What a worker does with files and channels is reduced to how it *)
(* ends.                                                                   *)
(***************************************************************************)
EXTENDS Naturals, FiniteSets

CONSTANTS
  Jobs,        \* the ids handed out: 0 .. n
  Shadowed,    \* the jobs whose rows are followed; a bound of the runs
  Limit,       \* setting.sftpParallel, clamped to 1..4
  MaxRetries,  \* MAX_AUTO_RETRIES
  Sessions,    \* the SSH sessions ever opened, numbered as they start: 1 .. n
  ServerOf,    \* the saved server of each session
  Main,        \* the main thread: every queue command but sftp_queue_add
  Adders,      \* calls of sftp_queue_add, which is async
  Lockers,     \* threads that lock the vault
  Runs,        \* async tasks: workers, and the timers of automatic retries
  None

Threads == {Main} \cup Adders \cup Lockers \cup Runs
Servers == {ServerOf[s] : s \in Sessions} \cup {None}

ASSUME NumbersAssumption ==
  /\ Jobs \subseteq Nat /\ Shadowed \subseteq Jobs
  /\ Sessions \subseteq Nat \ {0}
  /\ Limit \in 1 .. 4 /\ MaxRetries \in Nat

ASSUME ThreadsDistinct ==
  /\ Main \notin Adders \cup Lockers \cup Runs
  /\ Adders \cap (Lockers \cup Runs) = {} /\ Lockers \cap Runs = {}
  /\ None \notin Threads \cup Jobs \cup Sessions

Pending == {"queued", "active", "paused"}
Finished == {"done", "failed", "cancelled"}

\* What a row keeps of a job, as far as a restart and clear_finished read it:
\* whether its state is one of Pending; neither the flags nor the backoff, and
\* of the session only the saved server, since no session outlives a run.
Rows == [id : Jobs, pending : BOOLEAN, attempts : 0 .. MaxRetries,
         server : Servers]

VARIABLES
  job,       \* per id, the TransferJob
  nextId,    \* TransferQueue.next_id
  disk,      \* the rows of transfer_queue
  live,      \* SessionRegistry
  opened,    \* sessions started so far
  task,      \* per thread, where it is and what it still has to do
  stopped    \* history: jobs stopped and since then not resumed or retried

vars == <<job, nextId, disk, live, opened, task, stopped>>

\* cancel, pause: the flags of the running worker, FALSE while there is none
\* (dispatch makes new ones).  wait: the timer of the backoff that retry_at
\* still counts down.
NoJob == [state |-> "none", cancel |-> FALSE, pause |-> FALSE, attempts |-> 0,
          wait |-> None, session |-> None, server |-> None]

\* rows: to persist; starting: to spawn workers for; next: what follows;
\* at, result: a worker's job and how its copy ended; seen: live_sessions().
Idle == [pc |-> "idle", rows |-> {}, starting |-> {}, next |-> "idle",
         at |-> None, result |-> "none", seen |-> {}]

-----------------------------------------------------------------------------
(* Helpers *)

With(s) == {j \in Jobs : job[j].state = s}
Active == With("active")

\* TransferJob::to_row.
ToRow(j, rec) == [id |-> j, pending |-> rec.state \in Pending,
                  attempts |-> rec.attempts, server |-> rec.server]

\* A thread that has changed the jobs in js: it goes on to write their rows,
\* and then to `next`.
Writes(js, next) ==
  IF js \cap Shadowed = {} THEN [Idle EXCEPT !.pc = next]
  ELSE [Idle EXCEPT !.pc = "persist", !.next = next,
                    !.rows = {ToRow(j, job'[j]) : j \in js \cap Shadowed}]

At(t, pc) == task[t].pc = pc
Becomes(t, record) == task' = [task EXCEPT ![t] = record]
MovesTo(t, pc) == task' = [task EXCEPT ![t].pc = pc]

\* The first k of the ids in js; jobs are listed by id.
First(js, k) == {j \in js : Cardinality({i \in js : i < j}) < k}

\* Fault: the newest live session of any server.
ReboundAnywhere(rec, seen) ==
  IF rec.session \in seen THEN {rec.session}
  ELSE {s \in seen : \A o \in seen : o <= s}

\* rebind_endpoint: the session while it lives, else the newest live session
\* of the same saved server, else none.
Rebound(rec, seen) ==
  LET same == {s \in seen : rec.server # None /\ ServerOf[s] = rec.server}
  IN  IF rec.session \in seen THEN {rec.session}
      ELSE {s \in same : \A o \in same : o <= s}

\* is_dispatchable
Dispatchable == {j \in With("queued") : job[j].wait = None}

-----------------------------------------------------------------------------
(* What every thread does after it let go of the mutex *)

\* persist_job: upsert the rows one after the other.
Persist(t) ==
  /\ At(t, "persist")
  /\ \E row \in task[t].rows :
       /\ \A other \in task[t].rows : row.id <= other.id
       /\ disk' = {d \in disk : d.id # row.id} \cup {row}
       /\ LET rest == task[t].rows \ {row}
          IN  task' = [task EXCEPT
                ![t].rows = rest,
                ![t].pc = IF rest = {} THEN task[t].next ELSE "persist",
                ![t].next = IF rest = {} THEN "idle" ELSE task[t].next]
  /\ UNCHANGED <<job, nextId, live, opened, stopped>>

\* Fault: the capacity is taken from the limit alone.
DispatchOverActive(t) ==
  /\ At(t, "dispatch")
  /\ LET start == First(Dispatchable, Limit)
     IN  /\ job' = [j \in Jobs |->
                      IF j \in start THEN [job[j] EXCEPT !.state = "active"]
                      ELSE job[j]]
         /\ Becomes(t, IF start = {} THEN Idle
                       ELSE [Writes(start, "spawn") EXCEPT !.starting = start])
  /\ UNCHANGED <<nextId, disk, live, opened, stopped>>

\* dispatch: the first dispatchable jobs, up to the free capacity, become
\* Active; their workers are spawned once their rows are written.
Dispatch(t) ==
  /\ At(t, "dispatch")
  /\ LET capacity == IF Cardinality(Active) < Limit
                       THEN Limit - Cardinality(Active) ELSE 0
         start == First(Dispatchable, capacity)
     IN  /\ job' = [j \in Jobs |->
                      IF j \in start THEN [job[j] EXCEPT !.state = "active"]
                      ELSE job[j]]
         /\ Becomes(t, IF start = {} THEN Idle
                       ELSE [Writes(start, "spawn") EXCEPT !.starting = start])
  /\ UNCHANGED <<nextId, disk, live, opened, stopped>>

Spawn(t) ==
  /\ At(t, "spawn")
  /\ \E j \in task[t].starting, r \in Runs :
       /\ At(r, "idle")
       /\ LET rest == task[t].starting \ {j}
          IN  task' = [task EXCEPT
                ![t] = IF rest = {} THEN Idle ELSE [@ EXCEPT !.starting = rest],
                ![r] = [Idle EXCEPT !.pc = "start", !.at = j]]
  /\ UNCHANGED <<job, nextId, disk, live, opened, stopped>>

-----------------------------------------------------------------------------
(* A worker: run_job *)

\* open_transfer_channel: a session that is gone is a terminal error.
Open(r) ==
  /\ At(r, "start")
  /\ \/ /\ job[task[r].at].session \in live
        /\ MovesTo(r, "copy")
     \/ /\ job[task[r].at].session \notin live
        /\ Becomes(r, [task[r] EXCEPT !.pc = "settle", !.result = "closed"])
  /\ UNCHANGED <<job, nextId, disk, live, opened, stopped>>

\* update_progress, when a row is due.
Progress(r) ==
  /\ At(r, "copy") /\ task[r].at \in Shadowed
  /\ Becomes(r, [task[r] EXCEPT !.pc = "persist", !.next = "copy",
                                !.rows = {ToRow(task[r].at, job[task[r].at])}])
  /\ UNCHANGED <<job, nextId, disk, live, opened, stopped>>

\* copy_chunks, at a chunk boundary: cancel is looked at before pause.
Notice(r) ==
  /\ At(r, "copy")
  /\ LET rec == job[task[r].at]
     IN  /\ rec.cancel \/ rec.pause
         /\ Becomes(r, [task[r] EXCEPT !.pc = "settle",
              !.result = IF rec.cancel THEN "cancelled" ELSE "paused"])
  /\ UNCHANGED <<job, nextId, disk, live, opened, stopped>>

\* The copy completes, or fails with an error of either class.
CopyEnds(r) ==
  /\ At(r, "copy")
  /\ \E end \in {"done", "retryable", "terminal"} :
       Becomes(r, [task[r] EXCEPT !.pc = "settle", !.result = end])
  /\ UNCHANGED <<job, nextId, disk, live, opened, stopped>>

\* The job comes to rest, and the worker's flags go with it.
AtRest(j, s) == [job[j] EXCEPT !.state = s, !.cancel = FALSE, !.pause = FALSE]

\* Fault: nobody is told of the free slot.
FinishJobQuietly(r) ==
  /\ At(r, "settle") /\ task[r].result \in {"done", "cancelled", "paused"}
  /\ job' = [job EXCEPT ![task[r].at] = AtRest(task[r].at, task[r].result)]
  /\ Becomes(r, Writes({task[r].at}, "idle"))
  /\ UNCHANGED <<nextId, disk, live, opened, stopped>>

\* finish_job, with what the worker saw, whatever the flags say by now.
FinishJob(r) ==
  /\ At(r, "settle") /\ task[r].result \in {"done", "cancelled", "paused"}
  /\ job' = [job EXCEPT ![task[r].at] = AtRest(task[r].at, task[r].result)]
  /\ Becomes(r, Writes({task[r].at}, "dispatch"))
  /\ UNCHANGED <<nextId, disk, live, opened, stopped>>

\* Fault: the failure is handled without a look at the flags.
FailureStopsNever(rec) == {}

\* The state a failed attempt comes to when its job was stopped meanwhile.
FailureStops(rec) ==
  IF rec.cancel THEN {"cancelled"} ELSE IF rec.pause THEN {"paused"} ELSE {}

\* Fault: a job is retried for ever.
RetryableAlways(r) == task[r].result = "retryable"

Retryable(r) ==
  /\ task[r].result = "retryable"
  /\ job[task[r].at].attempts < MaxRetries

\* handle_job_failure: a retry waits for its backoff, and a timer calls
\* dispatch when that has passed.
HandleFailure(r) ==
  /\ At(r, "settle") /\ task[r].result \in {"retryable", "terminal", "closed"}
  /\ LET j == task[r].at
     IN  \/ /\ \E s \in FailureStops(job[j]) :
                 job' = [job EXCEPT ![j] = AtRest(j, s)]
            /\ Becomes(r, Writes({j}, "dispatch"))
         \/ /\ FailureStops(job[j]) = {} /\ ~Retryable(r)
            /\ job' = [job EXCEPT ![j] = AtRest(j, "failed")]
            /\ Becomes(r, Writes({j}, "dispatch"))
         \/ /\ FailureStops(job[j]) = {} /\ Retryable(r)
            /\ \E t \in Runs :
                 /\ At(t, "idle")
                 /\ job' = [job EXCEPT ![j] =
                      [AtRest(j, "queued") EXCEPT !.attempts = @ + 1,
                                                  !.wait = t]]
                 /\ task' = [task EXCEPT
                      ![r] = Writes({j}, "dispatch"),
                      ![t] = [Idle EXCEPT !.pc = "sleep"]]
  /\ UNCHANGED <<nextId, disk, live, opened, stopped>>

\* retry_at passes.
Elapse(j) ==
  /\ job[j].wait # None
  /\ job' = [job EXCEPT ![j].wait = None]
  /\ UNCHANGED <<nextId, disk, live, opened, task, stopped>>

\* Fault: the timer wakes too early.
WakeEarly(r) ==
  /\ At(r, "sleep")
  /\ MovesTo(r, "dispatch")
  /\ UNCHANGED <<job, nextId, disk, live, opened, stopped>>

\* The timer wakes, not before its retry is due: the sleep and retry_at have the
\* same length. The code leaves room for a timer that wakes early and then
\* dispatches nothing; that such a job waits for another dispatch is not seen.
Wake(r) ==
  /\ At(r, "sleep")
  /\ \A j \in Jobs : job[j].wait # r
  /\ MovesTo(r, "dispatch")
  /\ UNCHANGED <<job, nextId, disk, live, opened, stopped>>

-----------------------------------------------------------------------------
(* The commands *)

\* enqueue: n files on a session that was live at some time; the saved server
\* is looked up before the mutex is taken and unknown if the session is gone.
Enqueue(a, n) ==
  /\ At(a, "idle")
  /\ \E s \in Sessions :
       /\ s <= opened
       /\ \E server \in {ServerOf[s]} \cup (IF s \in live THEN {} ELSE {None}) :
            LET new == nextId .. nextId + n - 1
            IN  /\ new \subseteq Jobs
                /\ job' = [j \in Jobs |->
                     IF j \in new THEN [NoJob EXCEPT !.state = "queued",
                                          !.session = s, !.server = server]
                     ELSE job[j]]
                /\ Becomes(a, Writes(new, "dispatch"))
  /\ nextId' = nextId + n
  /\ UNCHANGED <<disk, live, opened, stopped>>

\* cancel_job: the row is written even while the worker is still active.
CancelJob(j) ==
  /\ At(Main, "idle") /\ job[j].state # "none"
  /\ job' = [job EXCEPT
       ![j].cancel = (job[j].state = "active"),
       ![j].state = IF @ \in {"queued", "paused"} THEN "cancelled" ELSE @]
  /\ stopped' = IF job[j].state \in Pending THEN stopped \cup {j} ELSE stopped
  /\ Becomes(Main, Writes({j}, "idle"))
  /\ UNCHANGED <<nextId, disk, live, opened>>

\* pause_job and pause_all, on the jobs in js: a worker sees the flag later.
Pauses(js) ==
  /\ job' = [j \in Jobs |->
       IF j \notin js THEN job[j]
       ELSE CASE job[j].state = "active" -> [job[j] EXCEPT !.pause = TRUE]
              [] job[j].state = "queued" -> [job[j] EXCEPT !.state = "paused",
                                                           !.wait = None]
              [] OTHER -> job[j]]
  /\ stopped' = stopped \cup {j \in js : job[j].state \in {"active", "queued"}}

PauseJob(j) ==
  /\ At(Main, "idle") /\ job[j].state \in {"active", "queued"}
  /\ Pauses({j})
  /\ Becomes(Main, Writes({j} \cap With("queued"), "idle"))
  /\ UNCHANGED <<nextId, disk, live, opened>>

\* By the user, or in the teardown of a lock.
PauseAll(t) ==
  /\ \/ t = Main /\ At(t, "idle")
     \/ t \in Lockers /\ At(t, "pauseAll")
  /\ Pauses(Jobs)
  /\ Becomes(t, Writes(With("queued"), "idle"))
  /\ UNCHANGED <<nextId, disk, live, opened>>

\* lock_vault_internal ends the sessions before it pauses the queue.
LockKillsSessions(l) ==
  /\ At(l, "idle")
  /\ live' = {}
  /\ MovesTo(l, "pauseAll")
  /\ UNCHANGED <<job, nextId, disk, opened, stopped>>

\* live_sessions, before the mutex is taken: resume_job, resume_all, retry_job.
LookAtSessions ==
  /\ At(Main, "idle")
  /\ Becomes(Main, [Idle EXCEPT !.pc = "looked", !.seen = live])
  /\ UNCHANGED <<job, nextId, disk, live, opened, stopped>>

\* resume_paused, for the jobs in js that can reach their server.
ResumePaused(js) ==
  LET ready == {j \in js : Rebound(job[j], task[Main].seen) # {}}
  IN  /\ job' = [j \in Jobs |->
           IF j \in ready
           THEN [job[j] EXCEPT !.state = "queued", !.wait = None,
                  !.session = CHOOSE s \in Rebound(job[j], task[Main].seen) :
                                TRUE]
           ELSE job[j]]
      /\ stopped' = stopped \ ready
      /\ Becomes(Main, Writes(js, "dispatch"))
      /\ UNCHANGED <<nextId, disk, live, opened>>

\* Fault: a job that is still winding down is resumed too.
ResumeUnguarded(j) ==
  /\ At(Main, "looked") /\ job[j].state # "none"
  /\ ResumePaused({j} \cap (With("paused") \cup Active))

ResumeJob(j) ==
  /\ At(Main, "looked") /\ job[j].state # "none"
  /\ ResumePaused({j} \cap With("paused"))

ResumeAll ==
  /\ At(Main, "looked")
  /\ ResumePaused(With("paused"))

\* retry_job: a fresh start, also of the automatic retries.
RetryJob(j) ==
  /\ At(Main, "looked") /\ job[j].state # "none"
  /\ \/ /\ job[j].state \in {"failed", "cancelled"}
        /\ \/ \E s \in Rebound(job[j], task[Main].seen) :
                /\ job' = [job EXCEPT ![j] =
                     [AtRest(j, "queued") EXCEPT !.attempts = 0, !.wait = None,
                                                 !.session = s]]
                /\ stopped' = stopped \ {j}
           \/ /\ Rebound(job[j], task[Main].seen) = {}
              /\ UNCHANGED <<job, stopped>>
        /\ Becomes(Main, Writes({j}, "dispatch"))
     \/ /\ job[j].state \in Pending \cup {"done"}
        /\ Becomes(Main, [Idle EXCEPT !.pc = "dispatch"])
        /\ UNCHANGED <<job, stopped>>
  /\ UNCHANGED <<nextId, disk, live, opened>>

ClearFinished ==
  /\ At(Main, "idle")
  /\ job' = [j \in Jobs |-> IF job[j].state \in Finished THEN NoJob
                            ELSE job[j]]
  /\ stopped' = {j \in stopped : job[j].state \notin Finished}
  /\ Becomes(Main, [Idle EXCEPT !.pc = "delete"])
  /\ UNCHANGED <<nextId, disk, live, opened>>

\* delete_finished_queue_jobs
DeleteRows ==
  /\ At(Main, "delete")
  /\ disk' = {d \in disk : d.pending}
  /\ Becomes(Main, Idle)
  /\ UNCHANGED <<job, nextId, live, opened, stopped>>

-----------------------------------------------------------------------------
(* Sessions, and the end of the program *)

Connect ==
  /\ opened + 1 \in Sessions
  /\ opened' = opened + 1
  /\ live' = live \cup {opened + 1}
  /\ UNCHANGED <<job, nextId, disk, task, stopped>>

Drop(s) ==
  /\ s \in live
  /\ live' = live \ {s}
  /\ UNCHANGED <<job, nextId, disk, opened, task, stopped>>

Restored == {d \in disk : d.pending}

\* Fault: a restored job goes on by itself.
RestoredRunning(d) ==
  [NoJob EXCEPT !.state = "queued", !.attempts = d.attempts,
                !.server = d.server]

\* job_from_row
RestoredJob(d) ==
  [NoJob EXCEPT !.state = "paused", !.attempts = d.attempts,
                !.server = d.server]

\* The program ends, between any two steps, and starts again: restore_pending
\* runs before the first command; the rows it writes again say the same.
Restart ==
  /\ LET ids == {d.id : d \in Restored}
         row(j) == CHOOSE d \in Restored : d.id = j
     IN  /\ job' = [j \in Jobs |-> IF j \in ids THEN RestoredJob(row(j))
                                   ELSE NoJob]
         /\ nextId' \in {0} \cup {i + 1 : i \in ids}
         /\ \A i \in ids : i < nextId'
         /\ stopped' = ids
  /\ task' = [t \in Threads |-> Idle]
  /\ live' = {}
  /\ UNCHANGED <<disk, opened>>

-----------------------------------------------------------------------------
Init ==
  /\ job = [j \in Jobs |-> NoJob]
  /\ nextId = 0
  /\ disk = {}
  /\ live = {} /\ opened = 0
  /\ task = [t \in Threads |-> Idle]
  /\ stopped = {}

Worker(r) == \/ Open(r) \/ Progress(r) \/ Notice(r) \/ CopyEnds(r)
             \/ FinishJob(r) \/ HandleFailure(r) \/ Wake(r)

Command == \/ \E j \in Jobs : \/ CancelJob(j) \/ PauseJob(j) \/ ResumeJob(j)
                              \/ RetryJob(j)
           \/ \E t \in {Main} \cup Lockers : PauseAll(t)
           \/ \E a \in Adders, n \in 1 .. 2 : Enqueue(a, n)
           \/ LookAtSessions \/ ResumeAll \/ ClearFinished \/ DeleteRows

Environment == \/ Connect
               \/ \E s \in Sessions : Drop(s)
               \/ \E l \in Lockers : LockKillsSessions(l)
               \/ Restart

Next ==
  \/ \E t \in Threads : Persist(t) \/ Dispatch(t) \/ Spawn(t)
  \/ \E r \in Runs : Worker(r)
  \/ \E j \in Jobs : Elapse(j)
  \/ Command
  \/ Environment

Spec == Init /\ [][Next]_vars

\* A thread past its mutex goes on, and time passes.  Nothing is assumed of
\* the user, of the sessions or of a copy, which may hang on the network.
FairSpec ==
  /\ Spec
  /\ \A t \in Threads : WF_vars(Persist(t) \/ Dispatch(t) \/ Spawn(t))
  /\ \A r \in Runs : WF_vars(Wake(r))
  /\ \A j \in Jobs : WF_vars(Elapse(j))

-----------------------------------------------------------------------------
(* Properties *)

Steps == {"idle", "looked", "pauseAll", "delete", "persist", "dispatch",
          "spawn", "start", "copy", "settle", "sleep"}

TypeOK ==
  /\ job \in [Jobs -> [state : Pending \cup Finished \cup {"none"},
                       cancel : BOOLEAN, pause : BOOLEAN,
                       attempts : 0 .. MaxRetries, wait : Runs \cup {None},
                       session : Sessions \cup {None}, server : Servers]]
  /\ nextId \in Nat
  /\ disk \subseteq Rows
  /\ live \subseteq Sessions /\ opened \in Nat
  /\ task \in [Threads ->
       [pc : Steps, rows : SUBSET Rows, starting : SUBSET Jobs, next : Steps,
        at : Jobs \cup {None}, seen : SUBSET Sessions,
        result : {"none", "done", "cancelled", "paused", "retryable",
                  "terminal", "closed"}]]
  /\ stopped \subseteq Jobs

\* The workers of a job, and the threads about to spawn one.
Carries(t, j) ==
  \/ task[t].at = j
  \/ j \in task[t].starting

\* Two workers never copy into the same `.part`, and a job shown as Active is
\* being worked on: an Active job has exactly one worker, no other has any
\* (dispatch, finish_job, handle_job_failure).
OneWorkerPerActiveJob ==
  \A j \in Jobs :
    /\ job[j].state = "active" => \E t \in Threads : Carries(t, j)
    /\ \A t \in Threads : Carries(t, j) =>
         /\ job[j].state = "active"
         /\ \A u \in Threads : Carries(u, j) => u = t

\* Never more transfers at once than the setting allows, whichever threads
\* call dispatch together.
WithinLimit == Cardinality(Active) <= Limit

\* No wake-up is lost: while a slot is free and a job could take it, some
\* thread is on its way to dispatch.  pause, cancel and clear do not call it,
\* and a retry relies on its timer.
OnItsWay(t) ==
  \/ At(t, "dispatch")
  \/ At(t, "persist") /\ task[t].next = "dispatch"
  \/ At(t, "sleep") /\ \A j \in Jobs : job[j].wait # t

NoLostWakeup ==
  Dispatchable # {} /\ Cardinality(Active) < Limit =>
    \E t \in Threads : OnItsWay(t)

\* A job the user or a lock has paused or cancelled, and one that a restart
\* brought back, is not started again before the user resumes or retries it:
\* not by the automatic retry of a failure that raced with the flag, not by a
\* timer that was already running (handle_job_failure, restore_pending).
StoppedStaysStopped ==
  [][\A j \in Jobs : job[j].state # "active" /\ job'[j].state = "active" =>
       j \notin stopped]_vars

\* What the rest of the program sees of the jobs.
stages == [j \in Jobs |-> job[j].state]
retries == [j \in Jobs |-> job[j].attempts]

Life == INSTANCE TransferLife WITH
  stage <- stages, tries <- retries, held <- stopped

\* Without its threads, rows and flags, the queue starts a job only within the
\* limit and while nobody holds it, settles only what runs, retries a bounded
\* number of times, and lets what the user, a lock or a restart holds wait for
\* the user (dispatch, finish_job, handle_job_failure, restore_pending).
ImplementsTransferLife == Life!Spec

\* A transfer must not silently move hosts (rebind_endpoint): whatever session
\* a resume or a retry puts it on is one of the server it was queued for.
NeverMovesHosts ==
  \A j \in Jobs : job[j].session # None /\ job[j].server # None =>
                    ServerOf[job[j].session] = job[j].server

\* A job that could run gets its slot, or loses its claim: a free slot does
\* not stay empty.
SlotsFill ==
  \A j \in Jobs :
    j \in Dispatchable /\ Cardinality(Active) < Limit ~>
      j \notin Dispatchable \/ Cardinality(Active) >= Limit

\* A dropped connection fails the attempts in flight and leaves the rest: a
\* worker or a timer that calls dispatch starts no job whose session is gone.
DropLeavesTheRest ==
  [][\A r \in Runs, j \in Jobs :
       At(r, "dispatch") /\ j \in task'[r].starting => job[j].session \in live]_vars
=============================================================================
