---------------------------- MODULE TransferLife ----------------------------
(***************************************************************************)
(* What the transfer queue promises about its jobs (sftp/queue.rs), without *)
(* threads, rows, sessions, flags or timers: a job is started within the    *)
(* limit and not while it is held, only a running one is settled, a failure *)
(* is retried a bounded number of times, and what the user, a lock or a     *)
(* restart holds waits for the user.                                        *)
(***************************************************************************)
EXTENDS Naturals, FiniteSets

CONSTANTS Jobs, Limit, MaxRetries

VARIABLES
  stage,   \* of each job
  tries,   \* automatic retries of each job since the user started it
  held     \* jobs stopped and since then not resumed or retried

vars == <<stage, tries, held>>

In(s) == {j \in Jobs : stage[j] = s}

Init ==
  /\ stage = [j \in Jobs |-> "none"]
  /\ tries = [j \in Jobs |-> 0]
  /\ held = {}

\* Jobs change their stage and nothing else.
Become(js, s) == stage' = [j \in Jobs |-> IF j \in js THEN s ELSE stage[j]]

Add(js) ==
  /\ js \subseteq In("none") \ held
  /\ Become(js, "queued")
  /\ UNCHANGED <<tries, held>>

Start(js) ==
  /\ js \subseteq In("queued") \ held
  /\ Become(js, "active")
  /\ Cardinality(In("active")') <= Limit
  /\ UNCHANGED <<tries, held>>

\* A running job ends; held ones do not fail and others do not stop.
Settle(j) ==
  /\ j \in In("active")
  /\ \E s \in {"done"} \cup (IF j \in held THEN {"cancelled", "paused"}
                             ELSE {"failed"}) : Become({j}, s)
  /\ UNCHANGED <<tries, held>>

Retry(j) ==
  /\ j \in In("active") \ held
  /\ tries[j] < MaxRetries
  /\ Become({j}, "queued")
  /\ tries' = [tries EXCEPT ![j] = @ + 1]
  /\ UNCHANGED held

\* The user or a lock: what waits is paused, what runs winds down.
Pause(js) ==
  /\ js \subseteq In("queued") \cup In("active")
  /\ Become(js \cap In("queued"), "paused")
  /\ held' = held \cup js
  /\ UNCHANGED tries

Cancel(j) ==
  /\ j \in In("queued") \cup In("active") \cup In("paused")
  /\ Become({j} \ In("active"), "cancelled")
  /\ held' = held \cup {j}
  /\ UNCHANGED tries

\* Only the user lets a job go on, or starts it again.
Resume(js) ==
  /\ js \subseteq In("paused") \cap held
  /\ Become(js, "queued")
  /\ held' = held \ js
  /\ UNCHANGED tries

StartAgain(j) ==
  /\ j \in In("failed") \cup In("cancelled")
  /\ Become({j}, "queued")
  /\ tries' = [tries EXCEPT ![j] = 0]
  /\ held' = held \ {j}

Clear(js) ==
  /\ js = In("done") \cup In("failed") \cup In("cancelled")
  /\ Become(js, "none")
  /\ tries' = [j \in Jobs |-> IF j \in js THEN 0 ELSE tries[j]]
  /\ held' = held \ js

\* The program ends and starts again: what it finds waits for the user.
Restart ==
  /\ stage' \in [Jobs -> {"none", "paused"}]
  /\ held' = In("paused")'
  /\ tries' \in [Jobs -> 0 .. MaxRetries]
  /\ \A j \in In("none")' : tries'[j] = 0

Next ==
  \/ \E j \in Jobs : Settle(j) \/ Retry(j) \/ Cancel(j) \/ StartAgain(j)
  \/ \E js \in SUBSET Jobs : Add(js) \/ Start(js) \/ Pause(js) \/ Resume(js)
                             \/ Clear(js)
  \/ Restart

Spec == Init /\ [][Next]_vars

=============================================================================
