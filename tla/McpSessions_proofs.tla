------------------------- MODULE McpSessions_proofs -------------------------
(***************************************************************************)
(* Proofs about McpSessions, for any commands, settings, session ids and    *)
(* bounds.  The inductive invariant says where each session id came from:   *)
(* whatever a request holds or a job is to end was issued for exactly the   *)
(* settings it is sent with, and a session that is not registered yet is    *)
(* known to the request that set it up and to nobody else.                  *)
(***************************************************************************)
EXTENDS McpSessions, TLAPS

-----------------------------------------------------------------------------
(* The invariant.                                                           *)

\* The parts of TypeOK, by what they are about.
VaultTyped ==
  /\ unlocked \in BOOLEAN /\ generation \in Nat
  /\ lockStep \in {"none", "drain", "clear"}

StoredTyped ==
  stored \in [binding : Bindings, confirmed : BOOLEAN, callable : BOOLEAN]
             \cup {None}

SessionsTyped ==
  /\ registry \in Jobs \cup {None}
  /\ deferred \subseteq Jobs /\ taken \subseteq Jobs

\* What a request took out of the registry it holds until it has ended it.
Taking == {"retiring", "replacing"}

HandsTyped ==
  /\ old \in [Requests -> Jobs \cup {None}]
  /\ \A r \in Requests : old[r] # None <=> pc[r] \in Taking

EndsTyped == ends \subseteq Jobs /\ left \subseteq Sids

ServerTyped ==
  /\ alive \subseteq Sids /\ lost \subseteq Sids
  /\ issued \in [Sids -> Bindings \cup {None}] /\ since \in [Sids -> Nat]

RequestsTyped ==
  /\ pc \in [Requests -> Steps]
  /\ frame \in [Requests -> Frames]

UserTyped ==
  /\ saving \in [binding : Bindings, gen : Nat, moved : BOOLEAN, asks : BOOLEAN]
               \cup {None}
  /\ question \in [binding : Bindings, gen : Nat] \cup {None}
  /\ removing \in {"none", "ending", "done"}
  /\ allowed \subseteq Bindings

BudgetTyped ==
  budget \in [requests : SUBSET Requests, settings : SUBSET Bindings,
              expiring : SUBSET Sids, saves : Nat, removals : Nat,
              toggles : Nat, locks : Nat]

CallsTyped == refused \subseteq Calls /\ ran \in [Calls -> Nat]

Typed ==
  /\ VaultTyped /\ StoredTyped /\ SessionsTyped /\ EndsTyped /\ ServerTyped
  /\ RequestsTyped /\ HandsTyped /\ UserTyped /\ BudgetTyped /\ CallsTyped

\* The steps in which nobody but the request knows its session.
New == {"answered", "register"}

\* What is or will be ended where it was set up.
AllJobs == Registered \cup deferred \cup InHand \cup ends \cup taken

\* A request holds a session of its own settings.
HeldAsIssued ==
  \A r \in Requests : pc[r] \in Holding =>
    frame[r].sid \in Sids /\ issued[frame[r].sid] = frame[r].binding

\* A job ends a session where it was set up.
JobsAsIssued == \A j \in AllJobs : issued[j.sid] = j.binding

\* A session not yet registered belongs to the generation of its request, and
\* to nobody else.
NewIsMine ==
  \A r \in Requests : pc[r] \in New =>
    /\ since[frame[r].sid] = frame[r].gen
    /\ registry # None => registry.sid # frame[r].sid
    /\ \A q \in Requests \ {r} : pc[q] \in Holding => frame[q].sid # frame[r].sid

\* A session is taken by a removal that is under way.
TakenByRemoval == removing # "ending" => taken = {}

\* A call that ran only lists the tools from then on.
RanOnlyLists ==
  \A k \in Calls :
    \/ ran[k] = 0
    \/ ran[k] = 1 /\ pc[k] \in {"refresh", "done"}
    \/ ran[k] = 1 /\ frame[k].list /\ pc[k] \notin {"idle", "load", "gate", "calling"}

\* A revoked tool may not be called.
RefusedIsRevoked == refused # {} => stored = None \/ ~stored.callable

SessionInv ==
  /\ HeldAsIssued /\ JobsAsIssued /\ NewIsMine /\ TakenByRemoval
  /\ LockEndsSessions /\ OpenIsAccountedFor

CallInv == RanOnlyLists /\ RefusedIsRevoked

Inv == Typed /\ SessionInv /\ ConfirmedAsAllowed /\ CallInv

-----------------------------------------------------------------------------
(* Teardowns and the registry.                                              *)

LEMMA Names ==
  /\ None \notin Bindings /\ None \notin Sids /\ None \notin Jobs
  /\ Connects \cap Calls = {}
  /\ Start \in Bindings /\ MaxTeardowns \in Nat
BY NamesApart, BindingsAreRecords, BoundsAreNat DEF Jobs

\* The registered session as a set of jobs.
LEMMA RegisteredJobs ==
  ASSUME SessionsTyped
  PROVE  /\ Registered = IF registry = None THEN {}
                         ELSE {Job(registry.sid, registry.binding)}
         /\ registry # None => /\ registry \in Jobs
                               /\ Registered = {registry}
         /\ Registered \subseteq Jobs
<1>1. Registered = IF registry = None THEN {}
                   ELSE {Job(registry.sid, registry.binding)}
  BY DEF Registered
<1>2. ASSUME registry # None PROVE registry \in Jobs /\ Registered = {registry}
  <2>1. registry \in Jobs
    BY <1>2 DEF SessionsTyped
  <2>2. Job(registry.sid, registry.binding) = registry
    BY <2>1 DEF Job, Jobs
  <2> QED
    BY <1>1, <1>2, <2>1, <2>2
<1>3. Registered \subseteq Jobs
  BY <1>1, <1>2
<1> QED
  BY <1>1, <1>2, <1>3

\* What is in hand is a job.
LEMMA InHandTyped ==
  ASSUME HandsTyped
  PROVE  InHand \subseteq Jobs
BY DEF HandsTyped, InHand

\* What starting teardowns does: every job is under way or given up, and nothing
\* else is.
LEMMA Started ==
  ASSUME EndsTyped, NEW jobs, jobs \subseteq Jobs, StartTeardowns(jobs)
  PROVE  /\ EndsTyped'
         /\ ends \subseteq ends' /\ ends' \subseteq ends \cup jobs
         /\ left \subseteq left'
         /\ SidsOf(jobs) \subseteq SidsOf(ends') \cup left'
<1>1. PICK fit \in SUBSET jobs :
        ends' = ends \cup fit /\ left' = left \cup {j.sid : j \in jobs \ fit}
  BY DEF StartTeardowns
<1>2. EndsTyped'
  BY <1>1 DEF EndsTyped, Jobs
<1>3. SidsOf(jobs) \subseteq SidsOf(ends') \cup left'
  BY <1>1 DEF SidsOf
<1> QED
  BY <1>1, <1>2, <1>3

-----------------------------------------------------------------------------
(* How a request goes on.                                                   *)

\* The request alone moves.
Moved(r, p, f) ==
  /\ p \in Steps /\ f \in Frames
  /\ pc' = [pc EXCEPT ![r] = p]
  /\ frame' = [frame EXCEPT ![r] = f]

\* What it goes on with: a session it holds is the one it held, with the same
\* settings; who lists the tools goes on listing.
Along(r, p, f) ==
  /\ p \in Holding => /\ pc[r] \in Holding
                      /\ f.sid = frame[r].sid /\ f.binding = frame[r].binding
  /\ p \in New => pc[r] \in New /\ f.gen = frame[r].gen
  /\ p \notin {"idle", "load"} /\ pc[r] # "done"
  /\ p \in Taking => pc[r] \in {"load", "register"}
  /\ pc[r] = "refresh" => p = "done" \/ (f.list /\ p = "check")
  /\ frame[r].list /\ pc[r] \notin {"gate", "calling"}
       => p = "done" \/ (f.list /\ p \notin {"gate", "calling"})

GoesOn(r) == \E p \in Steps, f \in Frames : Moved(r, p, f) /\ Along(r, p, f)

LEMMA NoFrameTyped == NoFrame \in Frames
BY Names DEF NoFrame, Frames

LEMMA Finishes ==
  ASSUME RequestsTyped, NEW r \in Requests, Finish(r)
  PROVE  Moved(r, "done", NoFrame)
BY NoFrameTyped DEF Finish, Moved, Steps

LEMMA FinishGoesOn ==
  ASSUME RequestsTyped, NEW r \in Requests, Finish(r), pc[r] # "done"
  PROVE  GoesOn(r)
<1>1. Moved(r, "done", NoFrame)
  BY Finishes
<1>2. ASSUME NEW f \in Frames PROVE Along(r, "done", f)
  BY DEF Along, Holding, New, Taking
<1> QED
  BY <1>1, <1>2 DEF GoesOn, Moved

LEMMA GoMoves ==
  ASSUME RequestsTyped, NEW r \in Requests, NEW p \in Steps, Go(r, p),
         UNCHANGED frame
  PROVE  Moved(r, p, frame[r])
<1>1. frame[r] \in Frames
  BY DEF RequestsTyped
<1>2. frame' = [frame EXCEPT ![r] = frame[r]]
  BY DEF RequestsTyped
<1> QED
  BY <1>1, <1>2 DEF Go, Moved

\* A request that goes to a next step keeps its context.
LEMMA GoGoesOn ==
  ASSUME RequestsTyped, NEW r \in Requests, NEW p \in Steps, Go(r, p),
         UNCHANGED frame, Along(r, p, frame[r])
  PROVE  GoesOn(r)
<1>1. Moved(r, p, frame[r])
  BY GoMoves
<1> QED
  BY <1>1 DEF GoesOn, Moved

\* A refused call ends, or fetches the announced change: on the session it
\* still has or on one of its own.
LEMMA RefusedMoves ==
  ASSUME RequestsTyped, NEW r \in Requests, NEW sid \in Sids \cup {None},
         Refused(r, sid)
  PROVE  \/ Moved(r, "done", NoFrame)
         \/ \E f \in Frames :
              /\ Moved(r, IF sid = None THEN "setup" ELSE "check", f)
              /\ f.sid = sid /\ f.binding = frame[r].binding /\ f.list
<1>1. CASE frame[r].announced /\ Contactable(r)
  <2> DEFINE f == [frame[r] EXCEPT !.sid = sid, !.list = TRUE,
                                   !.renewed = FALSE, !.announced = FALSE]
             p == IF sid = None THEN "setup" ELSE "check"
  <2>1. frame[r] \in Frames
    BY DEF RequestsTyped
  <2>2. f \in Frames /\ f.sid = sid /\ f.binding = frame[r].binding /\ f.list
    BY <2>1 DEF Frames
  <2>3. frame' = [frame EXCEPT ![r] = f]
    BY <1>1 DEF Refused, RequestsTyped
  <2>4. pc' = [pc EXCEPT ![r] = p] /\ p \in Steps
    BY <1>1 DEF Refused, Go, Steps
  <2> QED
    BY <2>2, <2>3, <2>4 DEF Moved
<1>2. CASE ~(frame[r].announced /\ Contactable(r))
  BY <1>2, Finishes DEF Refused
<1> QED
  BY <1>1, <1>2

\* A step forward in its own context.
LEMMA Forward ==
  ASSUME RequestsTyped, NEW r \in Requests, NEW p \in Steps, Go(r, p),
         UNCHANGED frame,
         pc[r] \in {"setup", "answered", "registered", "check", "listing",
                    "gate", "calling"},
         p \in Holding => pc[r] \in Holding,
         p \in New => pc[r] \in New,
         p \notin {"idle", "load"} \cup Taking,
         p \in {"gate", "calling"} => pc[r] = "gate" \/ ~frame[r].list
  PROVE  GoesOn(r)
<1>1. Along(r, p, frame[r])
  BY DEF Along
<1> QED
  BY <1>1, GoGoesOn

\* A request whose answer came to nothing ends, or fetches what was announced.
LEMMA NoAnswerGoesOn ==
  ASSUME RequestsTyped, NEW r \in Requests,
         pc[r] \in {"registered", "gate", "calling"},
         (Go(r, "refresh") /\ UNCHANGED frame) \/ Finish(r)
  PROVE  GoesOn(r) /\ pc'[r] \in {"refresh", "done"}
<1>1. CASE Go(r, "refresh") /\ UNCHANGED frame
  <2>1. GoesOn(r)
    BY <1>1, Forward DEF Steps, Holding, New, Taking
  <2> QED
    BY <1>1, <2>1 DEF Go, RequestsTyped
<1>2. CASE Finish(r)
  BY <1>2, FinishGoesOn DEF Finish, RequestsTyped
<1> QED
  BY <1>1, <1>2

\* So does a call whose set-up failed; with a session only if it held it.
LEMMA SetUpFailsGoesOn ==
  ASSUME RequestsTyped, NEW r \in Requests, NEW sid \in Sids \cup {None},
         SetUpFails(r, sid), pc[r] \in {"setup", "init", "registered"},
         sid # None => sid = frame[r].sid /\ pc[r] \in Holding
  PROVE  GoesOn(r)
<1>1. CASE Finish(r)
  BY <1>1, FinishGoesOn
<1>2. CASE ~frame[r].list /\ Refused(r, sid)
  <2>1. CASE Moved(r, "done", NoFrame)
    BY <2>1 DEF GoesOn, Moved, Along, Holding, New, Taking
  <2>2. ASSUME NEW f \in Frames,
               Moved(r, IF sid = None THEN "setup" ELSE "check", f),
               f.sid = sid, f.binding = frame[r].binding, f.list
        PROVE  GoesOn(r)
    <3>1. Along(r, IF sid = None THEN "setup" ELSE "check", f)
      BY <1>2, <2>2 DEF Along, Holding, New, Taking
    <3> QED
      BY <2>2, <3>1 DEF GoesOn, Moved
  <2> QED
    BY <1>2, <2>1, <2>2, RefusedMoves
<1>3. CASE sid # None /\ NoAnswer(r)
  <2>1. pc[r] = "registered"
    BY <1>3 DEF Holding
  <2> QED
    BY <1>3, <2>1, NoAnswerGoesOn DEF NoAnswer
<1> QED
  BY <1>1, <1>2, <1>3 DEF SetUpFails

\* A request that forgets a lost session sets up another.
LEMMA ForgetGoesOn ==
  ASSUME RequestsTyped, NEW r \in Requests, Forget(r),
         pc[r] \in {"listing", "calling"}
  PROVE  GoesOn(r)
<1> DEFINE f == [frame[r] EXCEPT !.sid = None, !.renewed = TRUE]
<1>1. frame[r] \in Frames
  BY DEF RequestsTyped
<1>2. f \in Frames /\ f.list = frame[r].list
  BY <1>1 DEF Frames
<1>3. frame' = [frame EXCEPT ![r] = f]
  BY DEF Forget, RequestsTyped
<1>4. Moved(r, "setup", f)
  BY <1>2, <1>3 DEF Forget, Go, Moved, Steps
<1>5. Along(r, "setup", f)
  BY <1>2 DEF Along, Holding, New, Taking
<1> QED
  BY <1>4, <1>5 DEF GoesOn, Moved

-----------------------------------------------------------------------------
(* Every step of a request goes on that way.                                *)

LEMMA SetUpGoesOn ==
  ASSUME RequestsTyped, NEW r \in Requests, SetUp(r)
  PROVE  GoesOn(r)
<1>1. CASE Go(r, "init") /\ UNCHANGED frame
  BY <1>1, Forward DEF SetUp, Steps, Holding, New, Taking
<1>2. CASE SetUpFails(r, None)
  BY <1>2, SetUpFailsGoesOn DEF SetUp
<1> QED
  BY <1>1, <1>2 DEF SetUp

LEMMA CheckAnsweredGoesOn ==
  ASSUME RequestsTyped, NEW r \in Requests, CheckAnswered(r)
  PROVE  GoesOn(r)
<1>1. CASE Go(r, "register") /\ UNCHANGED frame
  BY <1>1, Forward DEF CheckAnswered, Steps, Holding, New, Taking
<1>2. CASE Finish(r)
  BY <1>2, FinishGoesOn DEF CheckAnswered
<1> QED
  BY <1>1, <1>2 DEF CheckAnswered

LEMMA RegisterGoesOn ==
  ASSUME RequestsTyped, NEW r \in Requests, Register(r)
  PROVE  GoesOn(r)
<1>1. ASSUME NEW p \in {"registered", "replacing"}, Go(r, p), UNCHANGED frame
      PROVE  GoesOn(r)
  <2>1. Along(r, p, frame[r])
    BY <1>1 DEF Along, Register, Holding, New, Taking
  <2> QED
    BY <1>1, <2>1, GoGoesOn DEF Steps
<1>2. CASE Finish(r)
  BY <1>2, FinishGoesOn DEF Register
<1> QED
  BY <1>1, <1>2 DEF Register

LEMMA EndOldGoesOn ==
  ASSUME RequestsTyped, NEW r \in Requests, EndOld(r)
  PROVE  GoesOn(r)
<1> DEFINE p == IF pc[r] = "retiring" THEN "setup" ELSE "registered"
<1>1. Along(r, p, frame[r]) /\ p \in Steps
  BY DEF EndOld, Along, Holding, New, Taking, Steps
<1>2. Go(r, p) /\ UNCHANGED frame
  BY DEF EndOld
<1> QED
  BY <1>1, <1>2, GoGoesOn

LEMMA InitializedGoesOn ==
  ASSUME RequestsTyped, HeldAsIssued, NEW r \in Requests, Initialized(r)
  PROVE  GoesOn(r)
<1>1. pc[r] = "registered" /\ frame[r].sid \in Sids /\ frame[r] \in Frames
  BY DEF Initialized, HeldAsIssued, Holding, RequestsTyped
<1>2. ASSUME NEW changed \in BOOLEAN,
             frame' = [frame EXCEPT ![r].announced = @ \/ changed],
             Go(r, IF frame[r].list THEN "check" ELSE "gate")
      PROVE  GoesOn(r)
  <2> DEFINE f == [frame[r] EXCEPT !.announced = @ \/ changed]
             p == IF frame[r].list THEN "check" ELSE "gate"
  <2>1. /\ f \in Frames /\ f.sid = frame[r].sid /\ f.list = frame[r].list
        /\ f.binding = frame[r].binding
    BY <1>1 DEF Frames
  <2>2. frame' = [frame EXCEPT ![r] = f]
    BY <1>2 DEF RequestsTyped
  <2>3. p \in Steps
    BY DEF Steps
  <2>4. Moved(r, p, f)
    BY <1>2, <2>1, <2>2, <2>3 DEF Moved, Go
  <2>5. Along(r, p, f)
    BY <1>1, <2>1 DEF Along, Holding, New, Taking
  <2> QED
    BY <2>1, <2>3, <2>4, <2>5 DEF GoesOn
<1>3. CASE SetUpFails(r, frame[r].sid)
  BY <1>1, <1>3, SetUpFailsGoesOn DEF Holding
<1> QED
  BY <1>2, <1>3 DEF Initialized

LEMMA CheckListGoesOn ==
  ASSUME RequestsTyped, NEW r \in Requests, CheckList(r)
  PROVE  GoesOn(r)
<1>1. CASE Go(r, "listing") /\ UNCHANGED frame
  BY <1>1, Forward DEF CheckList, Steps, Holding, New, Taking
<1>2. CASE Finish(r)
  BY <1>2, FinishGoesOn DEF CheckList
<1> QED
  BY <1>1, <1>2 DEF CheckList

LEMMA ListGoesOn ==
  ASSUME RequestsTyped, NEW r \in Requests, List(r)
  PROVE  GoesOn(r)
<1>1. CASE Go(r, "store") /\ UNCHANGED frame
  BY <1>1, Forward DEF List, Steps, Holding, New, Taking
<1>2. CASE Forget(r)
  BY <1>2, ForgetGoesOn DEF List
<1>3. CASE Finish(r)
  BY <1>3, FinishGoesOn DEF List
<1> QED
  BY <1>1, <1>2, <1>3 DEF List

LEMMA StoreGoesOn ==
  ASSUME RequestsTyped, NEW r \in Requests, Store(r)
  PROVE  GoesOn(r)
BY FinishGoesOn DEF Store

LEMMA GateBeforeCallGoesOn ==
  ASSUME RequestsTyped, HeldAsIssued, NEW r \in Requests, GateBeforeCall(r)
  PROVE  GoesOn(r)
<1>1. pc[r] = "gate" /\ frame[r].sid \in Sids
  BY DEF GateBeforeCall, HeldAsIssued, Holding
<1>2. CASE Go(r, "calling") /\ UNCHANGED frame
  BY <1>1, <1>2, Forward DEF Steps, Holding, New, Taking
<1>3. CASE NoAnswer(r)
  BY <1>1, <1>3, NoAnswerGoesOn DEF NoAnswer
<1>4. CASE Refused(r, IF frame[r].setUp THEN None ELSE frame[r].sid)
  <2> DEFINE sid == IF frame[r].setUp THEN None ELSE frame[r].sid
             p == IF sid = None THEN "setup" ELSE "check"
  <2>1. sid \in Sids \cup {None}
    BY <1>1
  <2>2. CASE Moved(r, "done", NoFrame)
    BY <1>1, <2>2 DEF GoesOn, Moved, Along, Holding, New, Taking
  <2>3. ASSUME NEW f \in Frames, Moved(r, p, f), f.sid = sid,
               f.binding = frame[r].binding, f.list
        PROVE  GoesOn(r)
    <3>1. sid # None => sid = frame[r].sid
      OBVIOUS
    <3>2. Along(r, p, f)
      BY <1>1, <2>3, <3>1 DEF Along, Holding, New, Taking
    <3> QED
      BY <2>3, <3>2 DEF GoesOn, Moved
  <2> HIDE DEF sid, p
  <2> QED
    BY <1>4, <2>1, <2>2, <2>3, RefusedMoves DEF sid, p
<1> QED
  BY <1>2, <1>3, <1>4 DEF GateBeforeCall

LEMMA CallGoesOn ==
  ASSUME RequestsTyped, NEW r \in Requests, Call(r)
  PROVE  GoesOn(r)
<1>1. CASE (Go(r, "refresh") /\ UNCHANGED frame) \/ Finish(r)
  BY <1>1, NoAnswerGoesOn DEF Call
<1>2. CASE Forget(r)
  BY <1>2, ForgetGoesOn DEF Call
<1> QED
  BY <1>1, <1>2 DEF Call, NoAnswer

LEMMA RefreshGoesOn ==
  ASSUME RequestsTyped, NEW r \in Requests, Refresh(r)
  PROVE  GoesOn(r)
<1>0. pc[r] = "refresh" /\ frame[r] \in Frames
  BY DEF Refresh, RequestsTyped
<1>1. CASE Contactable(r)
  <2> DEFINE f == [frame[r] EXCEPT !.list = TRUE, !.renewed = FALSE,
                                   !.announced = FALSE]
  <2>1. /\ f \in Frames /\ f.sid = frame[r].sid /\ f.list
        /\ f.binding = frame[r].binding
    BY <1>0 DEF Frames
  <2>2. frame' = [frame EXCEPT ![r] = f]
    BY <1>1 DEF Refresh, RequestsTyped
  <2>3. Moved(r, "check", f)
    BY <1>1, <2>1, <2>2 DEF Refresh, Moved, Go, Steps
  <2>4. Along(r, "check", f)
    BY <1>0, <2>1 DEF Along, Holding, New, Taking
  <2> QED
    BY <2>1, <2>3, <2>4 DEF GoesOn, Moved
<1>2. CASE Finish(r)
  BY <1>0, <1>2, FinishGoesOn
<1> QED
  BY <1>1, <1>2 DEF Refresh

-----------------------------------------------------------------------------
(* Keeping track of the sessions.                                           *)

Known == SidsOf(AllJobs) \cup left

\* A step of a request: what is to be ended was to be ended before or is the
\* request's own session, no session that is alive is forgotten, and only a
\* request whose vault is still the one it began in registers one.
KeepsTrack(r) ==
  /\ SessionsTyped' /\ EndsTyped' /\ taken' = taken
  /\ \A j \in AllJobs' : j \in AllJobs \/ (pc[r] \in Holding /\ j = Mine(r))
  /\ Known \cap alive \subseteq Known'
  /\ pc[r] \in New => pc'[r] \in New \/ frame[r].sid \in Known'
  /\ \/ registry' \in {registry, None}
     \/ /\ registry' = Mine(r) /\ Guard(r)
        /\ pc[r] = "register" /\ pc'[r] \notin New

LEMMA UntouchedTracks ==
  ASSUME SessionsTyped, EndsTyped, NEW r \in Requests, UNCHANGED state,
         pc[r] \in New => pc'[r] \in New
  PROVE  KeepsTrack(r)
<1>1. AllJobs' = AllJobs /\ Known' = Known
  BY DEF state, AllJobs, Known, Registered, InHand
<1>2. SessionsTyped' /\ EndsTyped'
  BY DEF state, SessionsTyped, EndsTyped
<1> QED
  BY <1>1, <1>2 DEF KeepsTrack, state

LEMMA MineIsJob ==
  ASSUME RequestsTyped, NEW r \in Requests, frame[r].sid \in Sids
  PROVE  /\ Mine(r) \in Jobs /\ Mine(r) # None
         /\ Mine(r).sid = frame[r].sid /\ Mine(r).binding = frame[r].binding
BY Names DEF RequestsTyped, Frames, Mine, Job, Jobs

\* The request ends its own session: it leaves the registry or was not there.
LEMMA EndedTracks ==
  ASSUME SessionsTyped, EndsTyped, RequestsTyped, NEW r \in Requests,
         pc[r] \in Holding, frame[r].sid \in Sids,
         \/ registry' = registry
         \/ registry' = None /\ registry # None /\ registry.sid = frame[r].sid,
         UNCHANGED <<deferred, old, taken>>, StartTeardowns({Mine(r)})
  PROVE  KeepsTrack(r)
<1>1. Mine(r) \in Jobs /\ Mine(r).sid = frame[r].sid
  BY MineIsJob
<1>2. /\ EndsTyped'
      /\ ends \subseteq ends' /\ ends' \subseteq ends \cup {Mine(r)}
      /\ left \subseteq left'
      /\ SidsOf({Mine(r)}) \subseteq SidsOf(ends') \cup left'
  BY <1>1, Started
<1>3. SessionsTyped'
  BY DEF SessionsTyped
<1>4. frame[r].sid \in Known'
  BY <1>1, <1>2 DEF Known, SidsOf, AllJobs
<1>5. Registered' \subseteq Registered /\ InHand' = InHand
  BY DEF Registered, InHand
<1>6. \A j \in AllJobs' : j \in AllJobs \/ j = Mine(r)
  BY <1>2, <1>5 DEF AllJobs
<1>7. \A j \in AllJobs : j \in AllJobs' \/ j.sid = frame[r].sid
  <2>1. CASE registry' = registry
    BY <1>2, <1>5, <2>1 DEF AllJobs, Registered
  <2>2. CASE registry # None /\ registry.sid = frame[r].sid
    <3>1. \A j \in Registered : j.sid = frame[r].sid
      BY <2>2, RegisteredJobs
    <3> QED
      BY <1>2, <1>5, <3>1 DEF AllJobs
  <2> QED
    BY <2>1, <2>2
<1>8. Known \subseteq Known'
  BY <1>2, <1>4, <1>7 DEF Known, SidsOf
<1> QED
  BY <1>2, <1>3, <1>4, <1>6, <1>8 DEF KeepsTrack

LEMMA EndMineTracks ==
  ASSUME SessionsTyped, EndsTyped, RequestsTyped, NEW r \in Requests,
         pc[r] \in Holding, pc[r] \notin New, frame[r].sid \in Sids,
         UNCHANGED <<deferred, old, taken>>, EndMine(r)
  PROVE  KeepsTrack(r)
<1>1. CASE registry' = None /\ registry # None /\ registry.sid = frame[r].sid
           /\ StartTeardowns({Mine(r)})
  BY <1>1, EndedTracks
<1>2. CASE UNCHANGED <<registry, ends, left>>
  BY <1>2, UntouchedTracks DEF state
<1> QED
  BY <1>1, <1>2 DEF EndMine

\* A request stops using its session; the registry forgets it only if the
\* server did.
LEMMA ReleaseTracks ==
  ASSUME SessionsTyped, EndsTyped, NEW r \in Requests, pc[r] \notin New,
         \/ registry' = registry
         \/ registry' = None /\ registry # None /\ registry.sid \notin alive,
         UNCHANGED <<old, taken>>, Release(r)
  PROVE  KeepsTrack(r)
<1> DEFINE due == {j \in deferred : j.sid = frame[r].sid /\ ~OthersUse(r, j.sid)}
<1>1. deferred' = deferred \ due /\ StartTeardowns(due)
  BY DEF Release
<1>2. due \subseteq Jobs /\ due \subseteq deferred
  BY DEF SessionsTyped
<1> HIDE DEF due
<1>4. /\ EndsTyped'
      /\ ends \subseteq ends' /\ ends' \subseteq ends \cup due
      /\ left \subseteq left'
      /\ SidsOf(due) \subseteq SidsOf(ends') \cup left'
  BY <1>1, <1>2, Started
<1>5. SessionsTyped'
  BY <1>1 DEF SessionsTyped
<1>6. Registered' \subseteq Registered /\ InHand' = InHand
  BY DEF Registered, InHand
<1>7. AllJobs' \subseteq AllJobs
  BY <1>1, <1>2, <1>4, <1>6 DEF AllJobs
<1>8. \A j \in AllJobs : j \in AllJobs' \/ j \in due \/ j.sid \notin alive
  <2>1. \A j \in Registered : j \in Registered' \/ j.sid \notin alive
    <3>1. CASE registry' = registry
      BY <3>1 DEF Registered
    <3>2. CASE registry # None /\ registry.sid \notin alive
      BY <3>2, RegisteredJobs
    <3> QED
      BY <3>1, <3>2
  <2> QED
    BY <1>1, <1>4, <1>6, <2>1 DEF AllJobs
<1>9. Known \cap alive \subseteq Known'
  <2>1. SidsOf(due) \subseteq Known'
    BY <1>4 DEF Known, SidsOf, AllJobs
  <2> QED
    BY <1>4, <1>8, <2>1 DEF Known, SidsOf
<1> QED
  BY <1>4, <1>5, <1>7, <1>9 DEF KeepsTrack

\* What end_replaced does with a session taken out of the registry.
LEMMA Replaced ==
  ASSUME SessionsTyped, EndsTyped, NEW j \in Jobs, EndReplaced(j)
  PROVE  /\ EndsTyped' /\ deferred' \subseteq Jobs
         /\ deferred \subseteq deferred' /\ deferred' \subseteq deferred \cup {j}
         /\ ends \subseteq ends' /\ ends' \subseteq ends \cup {j}
         /\ left \subseteq left'
         /\ j.sid \in SidsOf(deferred' \cup ends') \cup left'
<1>1. CASE deferred' = deferred \cup {j} /\ UNCHANGED <<ends, left>>
  BY <1>1 DEF SessionsTyped, EndsTyped, SidsOf
<1>2. CASE StartTeardowns({j}) /\ UNCHANGED deferred
  <2>1. /\ EndsTyped'
        /\ ends \subseteq ends' /\ ends' \subseteq ends \cup {j}
        /\ left \subseteq left'
        /\ SidsOf({j}) \subseteq SidsOf(ends') \cup left'
    BY <1>2, Started
  <2> QED
    BY <1>2, <2>1 DEF SessionsTyped, SidsOf
<1> QED
  BY <1>1, <1>2 DEF EndReplaced

\* The request takes the registered session; it has none in hand yet.
LEMMA TakesTracks ==
  ASSUME SessionsTyped, EndsTyped, RequestsTyped, HandsTyped, NEW r \in Requests,
         pc[r] \in {"load", "register"}, old' = [old EXCEPT ![r] = registry],
         UNCHANGED <<deferred, ends, taken, left>>,
         \/ registry' = None /\ pc[r] \notin New
         \/ /\ registry' = Mine(r) /\ Guard(r) /\ frame[r].sid \in Sids
            /\ pc[r] = "register" /\ pc'[r] \notin New
  PROVE  KeepsTrack(r)
<1>1. SessionsTyped' /\ EndsTyped'
  BY MineIsJob DEF SessionsTyped, EndsTyped
<1>2. InHand' = InHand \cup Registered
  <2>1. old[r] = None /\ old'[r] = registry
        /\ \A q \in Requests \ {r} : old'[q] = old[q]
    BY DEF HandsTyped, Taking
  <2>2. InHand' = InHand \cup ({registry} \ {None})
    BY <2>1 DEF InHand
  <2>3. Registered = {registry} \ {None}
    BY RegisteredJobs
  <2> QED
    BY <2>2, <2>3
<1>3. \A j \in Registered' : j = Mine(r) /\ pc[r] = "register"
  BY <1>1, RegisteredJobs, MineIsJob, Names DEF Registered, Job, Jobs, Mine
<1>4. \A j \in AllJobs' : j \in AllJobs \/ (pc[r] \in Holding /\ j = Mine(r))
  BY <1>2, <1>3 DEF AllJobs, Holding
<1>5. Known \subseteq Known'
  BY <1>2 DEF Known, SidsOf, AllJobs
<1>6. pc[r] \in New => frame[r].sid \in Known'
  <2>1. CASE pc[r] \notin New
    BY <2>1
  <2>2. CASE registry' = Mine(r) /\ frame[r].sid \in Sids
    <3>1. Mine(r) \in Registered'
      BY <2>2, MineIsJob DEF Registered, Mine, Job
    <3> QED
      BY <2>2, <3>1, MineIsJob DEF Known, SidsOf, AllJobs
  <2> QED
    BY <2>1, <2>2
<1> QED
  BY <1>1, <1>4, <1>5, <1>6 DEF KeepsTrack, New

LEMMA EndOldTracks ==
  ASSUME SessionsTyped, EndsTyped, HandsTyped, NEW r \in Requests,
         pc[r] \in Taking, EndReplaced(old[r]), old' = [old EXCEPT ![r] = None],
         UNCHANGED <<registry, taken>>
  PROVE  KeepsTrack(r)
<1>1. old[r] \in Jobs /\ old[r] \in InHand
  BY DEF HandsTyped, InHand
<1>2. /\ EndsTyped' /\ deferred' \subseteq Jobs
      /\ deferred \subseteq deferred' /\ deferred' \subseteq deferred \cup {old[r]}
      /\ ends \subseteq ends' /\ ends' \subseteq ends \cup {old[r]}
      /\ left \subseteq left'
      /\ old[r].sid \in SidsOf(deferred' \cup ends') \cup left'
  BY <1>1, Replaced
<1>3. SessionsTyped' /\ Registered' = Registered
  BY <1>2 DEF SessionsTyped, Registered
<1>4. /\ InHand' \subseteq InHand
      /\ \A j \in InHand : j \in InHand' \/ j = old[r]
  <2>1. old'[r] = None /\ \A q \in Requests \ {r} : old'[q] = old[q]
    BY DEF HandsTyped
  <2> QED
    BY <2>1 DEF InHand
<1>5. AllJobs' \subseteq AllJobs
  BY <1>1, <1>2, <1>3, <1>4 DEF AllJobs
<1>6. Known \subseteq Known'
  <2>1. \A j \in AllJobs : j \in AllJobs' \/ j = old[r]
    BY <1>2, <1>3, <1>4 DEF AllJobs
  <2>2. old[r].sid \in Known'
    BY <1>2 DEF Known, SidsOf, AllJobs
  <2> QED
    BY <1>2, <2>1, <2>2 DEF Known, SidsOf
<1> QED
  BY <1>2, <1>3, <1>5, <1>6 DEF KeepsTrack, New, Taking

\* What the request holds of the registry after its step; nobody else's changes.
HandsKept(r) ==
  /\ old' \in [Requests -> Jobs \cup {None}]
  /\ old'[r] # None <=> pc'[r] \in Taking
  /\ \A q \in Requests \ {r} : old'[q] = old[q]

LEMMA HandsStay ==
  ASSUME HandsTyped, RequestsTyped, NEW r \in Requests, GoesOn(r), old' = old,
         pc[r] \notin {"load", "register"} \cup Taking
  PROVE  HandsKept(r)
<1>1. pc'[r] \notin Taking
  BY DEF GoesOn, Moved, Along, RequestsTyped
<1> QED
  BY <1>1 DEF HandsKept, HandsTyped

LEMMA GoesOnKeepsHands ==
  ASSUME HandsTyped, RequestsTyped, NEW r \in Requests, GoesOn(r), HandsKept(r)
  PROVE  HandsTyped'
<1>1. \A q \in Requests \ {r} : pc'[q] = pc[q]
  BY DEF GoesOn, Moved, RequestsTyped
<1> QED
  BY <1>1 DEF HandsKept, HandsTyped

\* The server keeps what it issued; what it issues, nobody learns of.
ServerGoesOn ==
  /\ \A s \in Sids : issued[s] # None => issued'[s] = issued[s] /\ since'[s] = since[s]
  /\ alive' \subseteq alive \cup lost' /\ lost \subseteq lost'

LEMMA ServerStays ==
  ASSUME UNCHANGED server
  PROVE  ServerGoesOn
BY DEF server, ServerGoesOn

\* Held sessions stay the ones they were issued as.
LEMMA GoesOnHolds ==
  ASSUME RequestsTyped, HeldAsIssued, NEW r \in Requests, GoesOn(r),
         ServerGoesOn
  PROVE  RequestsTyped' /\ HeldAsIssued'
<1>1. PICK p \in Steps, f \in Frames : Moved(r, p, f) /\ Along(r, p, f)
  BY DEF GoesOn
<1>2. RequestsTyped'
  BY <1>1 DEF RequestsTyped, Moved
<1>3. \A q \in Requests : pc[q] \in Holding =>
        /\ frame[q].sid \in Sids /\ issued[frame[q].sid] # None
        /\ issued'[frame[q].sid] = frame[q].binding
  BY Names DEF HeldAsIssued, ServerGoesOn, RequestsTyped, Frames
<1>4. ASSUME NEW q \in Requests, pc'[q] \in Holding
      PROVE  frame'[q].sid \in Sids /\ issued'[frame'[q].sid] = frame'[q].binding
  <2>1. CASE q = r
    <3>1. pc'[r] = p /\ frame'[r] = f
      BY <1>1 DEF Moved, RequestsTyped
    <3> QED
      BY <1>1, <1>3, <1>4, <2>1, <3>1 DEF Along
  <2>2. CASE q # r
    <3>1. pc'[q] = pc[q] /\ frame'[q] = frame[q]
      BY <1>1, <2>2 DEF Moved, RequestsTyped
    <3> QED
      BY <1>3, <1>4, <3>1
  <2> QED
    BY <2>1, <2>2
<1> QED
  BY <1>2, <1>4 DEF HeldAsIssued

\* A session nobody else knows stays so.
LEMMA GoesOnKeepsNew ==
  ASSUME RequestsTyped, NewIsMine, NEW r \in Requests, GoesOn(r),
         KeepsTrack(r), HeldAsIssued, ServerGoesOn
  PROVE  NewIsMine'
<1>1. PICK p \in Steps, f \in Frames : Moved(r, p, f) /\ Along(r, p, f)
  BY DEF GoesOn
<1>2. pc'[r] = p /\ frame'[r] = f
  BY <1>1 DEF Moved, RequestsTyped
<1>3. \A q \in Requests \ {r} : pc'[q] = pc[q] /\ frame'[q] = frame[q]
  BY <1>1 DEF Moved, RequestsTyped
<1>4. \A q \in Requests : pc'[q] \in Holding =>
        pc[q] \in Holding /\ frame'[q].sid = frame[q].sid
  BY <1>1, <1>2, <1>3 DEF Along
<1>5. \A q \in Requests : pc'[q] \in New =>
        /\ pc[q] \in New /\ frame'[q].sid = frame[q].sid
        /\ frame'[q].gen = frame[q].gen
  BY <1>1, <1>2, <1>3 DEF Along, New, Holding
<1>6. ASSUME NEW q \in Requests, pc'[q] \in New, registry' # None
      PROVE  registry'.sid # frame'[q].sid
  <2>1. CASE registry' = registry
    BY <1>5, <1>6, <2>1 DEF NewIsMine
  <2>2. CASE registry' = Mine(r) /\ pc[r] = "register" /\ pc'[r] \notin New
    <3>1. q # r
      BY <1>6, <2>2
    <3>2. Mine(r).sid = frame[r].sid
      BY DEF Mine, Job
    <3>3. frame[r].sid # frame[q].sid
      BY <1>5, <1>6, <2>2, <3>1 DEF NewIsMine, Holding
    <3> QED
      BY <1>5, <1>6, <2>2, <3>2, <3>3
  <2> QED
    BY <1>6, <2>1, <2>2 DEF KeepsTrack
<1>7. \A q \in Requests : pc[q] \in New =>
        /\ frame[q].sid \in Sids /\ pc[q] \in Holding
        /\ since'[frame[q].sid] = since[frame[q].sid]
  BY Names DEF HeldAsIssued, ServerGoesOn, RequestsTyped, Frames, New, Holding
<1> QED
  BY <1>4, <1>5, <1>6, <1>7 DEF NewIsMine

LEMMA AllJobsTyped ==
  ASSUME SessionsTyped, EndsTyped, HandsTyped
  PROVE  AllJobs \subseteq Jobs
BY RegisteredJobs, InHandTyped DEF AllJobs, SessionsTyped, EndsTyped

LEMMA GoesOnKeeps ==
  ASSUME Typed, SessionInv, NEW r \in Requests, GoesOn(r), KeepsTrack(r),
         HandsKept(r), ServerGoesOn, UNCHANGED <<generation, lockStep, removing>>
  PROVE  RequestsTyped' /\ SessionsTyped' /\ HandsTyped' /\ EndsTyped' /\ SessionInv'
<1> USE DEF Typed, SessionInv
<1>1. RequestsTyped' /\ HeldAsIssued'
  BY GoesOnHolds
<1>2. NewIsMine'
  BY GoesOnKeepsNew
<1>0. \A j \in AllJobs : /\ j.sid \in Sids /\ issued[j.sid] = j.binding
                         /\ issued[j.sid] # None
  BY AllJobsTyped, Names DEF JobsAsIssued, Jobs
<1>3. JobsAsIssued'
  <2>1. Mine(r).sid = frame[r].sid /\ Mine(r).binding = frame[r].binding
    BY DEF Mine, Job
  <2>2. pc[r] \in Holding => /\ frame[r].sid \in Sids
                             /\ issued'[frame[r].sid] = frame[r].binding
    BY Names DEF HeldAsIssued, ServerGoesOn, RequestsTyped, Frames
  <2> QED
    BY <1>0, <2>1, <2>2 DEF JobsAsIssued, KeepsTrack, ServerGoesOn
<1>4. TakenByRemoval'
  BY DEF TakenByRemoval, KeepsTrack
<1>5. LockEndsSessions'
  <2>1. CASE registry' \in {registry, None}
    <3>1. registry # None => since'[registry.sid] = since[registry.sid]
      BY <1>0, RegisteredJobs DEF AllJobs, ServerGoesOn
    <3> QED
      BY <2>1, <3>1 DEF LockEndsSessions
  <2>2. CASE registry' = Mine(r) /\ Guard(r) /\ pc[r] = "register"
    <3>1. Mine(r).sid = frame[r].sid
      BY DEF Mine, Job
    <3>2. since'[frame[r].sid] = frame[r].gen
      BY <2>2, Names DEF NewIsMine, New, HeldAsIssued, Holding, ServerGoesOn,
                         RequestsTyped, Frames
    <3> QED
      BY <2>2, <3>1, <3>2 DEF LockEndsSessions, Guard
  <2> QED
    BY <2>1, <2>2 DEF KeepsTrack
<1>6. OpenIsAccountedFor'
  <2>1. PICK p \in Steps, f \in Frames : Moved(r, p, f) /\ Along(r, p, f)
    BY DEF GoesOn
  <2>2. /\ pc'[r] \in New => frame'[r].sid = frame[r].sid
        /\ \A q \in Requests \ {r} : pc'[q] = pc[q] /\ frame'[q] = frame[q]
    BY <2>1 DEF Moved, Along, RequestsTyped, New, Holding
  <2>3. ASSUME NEW s \in alive, s \notin lost
        PROVE  s \in Known' \/ \E q \in Requests : pc'[q] \in New /\ s = frame'[q].sid
    <3>1. CASE s \in Known
      BY <3>1 DEF KeepsTrack
    <3>2. ASSUME NEW q \in Requests, pc[q] \in New, s = frame[q].sid
          PROVE  s \in Known' \/ (pc'[q] \in New /\ s = frame'[q].sid)
      BY <2>2, <3>2 DEF KeepsTrack
    <3>3. s \in Known \/ \E q \in Requests : pc[q] \in New /\ s = frame[q].sid
      BY <2>3 DEF OpenIsAccountedFor, Known, AllJobs, New
    <3> QED
      BY <3>1, <3>2, <3>3
  <2>4. \A s \in alive' : \/ s \in Known' \/ s \in lost'
                         \/ \E q \in Requests : pc'[q] \in New /\ s = frame'[q].sid
    BY <2>3 DEF ServerGoesOn
  <2> QED
    BY <2>4 DEF OpenIsAccountedFor, Known, AllJobs, New
<1>7. HandsTyped'
  BY GoesOnKeepsHands
<1> QED
  BY <1>1, <1>2, <1>3, <1>4, <1>5, <1>6, <1>7 DEF KeepsTrack

\* What a call did not run yet stays so; what it did run it does not run again.
LEMMA GoesOnRuns ==
  ASSUME RequestsTyped, RanOnlyLists, NEW r \in Requests, GoesOn(r),
         UNCHANGED ran
  PROVE  RanOnlyLists'
<1>1. PICK p \in Steps, f \in Frames : Moved(r, p, f) /\ Along(r, p, f)
  BY DEF GoesOn
<1>2. pc'[r] = p /\ frame'[r] = f
  BY <1>1 DEF Moved, RequestsTyped
<1>3. \A q \in Requests \ {r} : pc'[q] = pc[q] /\ frame'[q] = frame[q]
  BY <1>1 DEF Moved, RequestsTyped
<1>4. ASSUME r \in Calls, ran[r] = 1
      PROVE  p = "done" \/ (f.list /\ p \notin {"idle", "load", "gate", "calling"})
  BY <1>1, <1>4 DEF RanOnlyLists, Along
<1> QED
  BY <1>2, <1>3, <1>4 DEF RanOnlyLists, Requests

-----------------------------------------------------------------------------
(* What each step of a request leaves.                                      *)

\* The rest of the invariant.
RestTyped == VaultTyped /\ StoredTyped /\ ServerTyped /\ UserTyped /\ BudgetTyped

LEMMA RestStays ==
  ASSUME RestTyped, ConfirmedAsAllowed,
         UNCHANGED <<vault, stored, server, user, budget>>
  PROVE  RestTyped' /\ ConfirmedAsAllowed'
BY DEF RestTyped, ConfirmedAsAllowed, vault, server, user,
       VaultTyped, StoredTyped, ServerTyped, UserTyped, BudgetTyped

LEMMA AnsweredKeeps ==
  ASSUME CallsTyped, RefusedIsRevoked, NEW r \in Requests, Answered(r),
         UNCHANGED stored
  PROVE  refused' \subseteq Calls /\ RefusedIsRevoked'
BY DEF CallsTyped, RefusedIsRevoked, Answered

LEMMA QuietKeeps ==
  ASSUME CallsTyped, RefusedIsRevoked, RanOnlyLists, RequestsTyped,
         NEW r \in Requests, GoesOn(r),
         UNCHANGED <<stored, calls>>
  PROVE  CallsTyped' /\ CallInv'
BY GoesOnRuns DEF CallsTyped, RefusedIsRevoked, CallInv, calls

\* A step that asks nothing of the server and saves nothing.
LEMMA QuietStep ==
  ASSUME Inv, NEW r \in Requests, GoesOn(r), KeepsTrack(r), HandsKept(r),
         UNCHANGED <<vault, stored, server, user, calls, budget>>
  PROVE  Inv'
<1>1. RequestsTyped' /\ SessionsTyped' /\ HandsTyped' /\ EndsTyped' /\ SessionInv'
  BY GoesOnKeeps, ServerStays DEF Inv, vault, user
<1>2. RestTyped' /\ ConfirmedAsAllowed'
  BY RestStays DEF Inv, Typed, RestTyped
<1>3. CallsTyped' /\ CallInv'
  BY QuietKeeps DEF Inv, Typed, CallInv
<1> QED
  BY <1>1, <1>2, <1>3 DEF Inv, Typed, RestTyped

LEMMA SetUpKeeps ==
  ASSUME Inv, NEW r \in Requests, SetUp(r)
  PROVE  Inv'
<1>1. GoesOn(r)
  BY SetUpGoesOn DEF Inv, Typed
<1>7. HandsKept(r)
  BY <1>1, HandsStay DEF Inv, Typed, SetUp, state, Taking
<1>2. KeepsTrack(r)
  BY UntouchedTracks DEF Inv, Typed, SetUp, New
<1> QED
  BY <1>1, <1>2, <1>7, QuietStep DEF SetUp

LEMMA CheckAnsweredKeeps ==
  ASSUME Inv, NEW r \in Requests, CheckAnswered(r)
  PROVE  Inv'
<1>1. GoesOn(r)
  BY CheckAnsweredGoesOn DEF Inv, Typed
<1>2. pc[r] = "answered" /\ frame[r].sid \in Sids
  BY DEF CheckAnswered, Inv, SessionInv, HeldAsIssued, Holding
<1>7. HandsKept(r)
  BY <1>1, HandsStay DEF Inv, Typed, CheckAnswered, state, Taking
<1>3. KeepsTrack(r)
  <2>1. CASE Go(r, "register") /\ UNCHANGED <<ends, left>>
    <3>1. pc'[r] = "register"
      BY <2>1 DEF Go, Inv, Typed, RequestsTyped
    <3> QED
      BY <2>1, <3>1, UntouchedTracks DEF Inv, Typed, CheckAnswered, New, state
  <2>2. CASE StartTeardowns({Mine(r)})
    BY <1>2, <2>2, EndedTracks DEF Inv, Typed, CheckAnswered, Holding
  <2> QED
    BY <2>1, <2>2 DEF CheckAnswered
<1> QED
  BY <1>1, <1>3, <1>7, QuietStep DEF CheckAnswered

LEMMA RegisterKeeps ==
  ASSUME Inv, NEW r \in Requests, Register(r)
  PROVE  Inv'
<1>1. GoesOn(r)
  BY RegisterGoesOn DEF Inv, Typed
<1>2. pc[r] = "register" /\ frame[r].sid \in Sids
  BY DEF Register, Inv, SessionInv, HeldAsIssued, Holding
<1>3. CASE MayRegister(r)
  <2>1. pc'[r] = IF registry = None THEN "registered" ELSE "replacing"
    BY <1>3 DEF Register, Go, Inv, Typed, RequestsTyped
  <2>2. KeepsTrack(r)
    BY <1>2, <1>3, <2>1, TakesTracks DEF Inv, Typed, Register, MayRegister, New
  <2>3. HandsKept(r)
    BY <1>2, <1>3, <2>1 DEF Inv, Typed, Register, HandsTyped, HandsKept, Taking,
                            SessionsTyped
  <2> QED
    BY <1>1, <2>2, <2>3, QuietStep DEF Register
<1>4. CASE ~MayRegister(r)
  <2>1. KeepsTrack(r)
    BY <1>2, <1>4, EndedTracks DEF Inv, Typed, Register, Holding
  <2>2. pc'[r] = "done"
    BY <1>4 DEF Register, Finish, Inv, Typed, RequestsTyped
  <2>3. HandsKept(r)
    BY <1>2, <1>4, <2>2 DEF Inv, Typed, Register, HandsTyped, HandsKept, Taking
  <2> QED
    BY <1>1, <2>1, <2>3, QuietStep DEF Register
<1> QED
  BY <1>3, <1>4

LEMMA EndOldKeeps ==
  ASSUME Inv, NEW r \in Requests, EndOld(r)
  PROVE  Inv'
<1>1. GoesOn(r)
  BY EndOldGoesOn DEF Inv, Typed
<1>2. KeepsTrack(r)
  BY EndOldTracks DEF Inv, Typed, EndOld, Taking
<1>3. HandsKept(r)
  <2>1. pc'[r] \notin Taking
    BY DEF EndOld, Go, Inv, Typed, RequestsTyped, Taking
  <2> QED
    BY <2>1 DEF EndOld, Inv, Typed, HandsTyped, HandsKept
<1> QED
  BY <1>1, <1>2, <1>3, QuietStep DEF EndOld

LEMMA InitializedKeeps ==
  ASSUME Inv, NEW r \in Requests, Initialized(r)
  PROVE  Inv'
<1>1. GoesOn(r)
  BY InitializedGoesOn DEF Inv, Typed, SessionInv
<1>10. HandsKept(r)
  BY <1>1, HandsStay DEF Inv, Typed, Initialized, state, Taking
<1>2. KeepsTrack(r)
  BY UntouchedTracks DEF Inv, Typed, Initialized, New
<1>3. RequestsTyped' /\ SessionsTyped' /\ HandsTyped' /\ EndsTyped' /\ SessionInv'
  BY <1>1, <1>2, <1>10, GoesOnKeeps, ServerStays DEF Inv, Initialized, vault, user
<1>4. RestTyped' /\ ConfirmedAsAllowed'
  BY RestStays DEF Inv, Typed, RestTyped, Initialized
<1>5. RefusedIsRevoked' /\ CallsTyped'
  BY AnsweredKeeps DEF Inv, Typed, CallInv, CallsTyped, Initialized
<1>6. RanOnlyLists'
  BY <1>1, GoesOnRuns DEF Inv, Typed, CallInv, Initialized
<1> QED
  BY <1>3, <1>4, <1>5, <1>6 DEF Inv, Typed, RestTyped, CallInv

LEMMA CheckListKeeps ==
  ASSUME Inv, NEW r \in Requests, CheckList(r)
  PROVE  Inv'
<1>1. GoesOn(r)
  BY CheckListGoesOn DEF Inv, Typed
<1>2. pc[r] = "check" /\ frame[r].sid \in Sids
  BY DEF CheckList, Inv, SessionInv, HeldAsIssued, Holding
<1>7. HandsKept(r)
  BY <1>1, HandsStay DEF Inv, Typed, CheckList, state, Taking
<1>3. KeepsTrack(r)
  <2>1. CASE UNCHANGED <<registry, ends, left>>
    BY <1>2, <2>1, UntouchedTracks DEF Inv, Typed, CheckList, New, state
  <2>2. CASE EndMine(r)
    BY <1>2, <2>2, EndMineTracks DEF Inv, Typed, CheckList, New, Holding
  <2> QED
    BY <2>1, <2>2 DEF CheckList
<1> QED
  BY <1>1, <1>3, <1>7, QuietStep DEF CheckList

LEMMA ListKeeps ==
  ASSUME Inv, NEW r \in Requests, List(r)
  PROVE  Inv'
<1>1. GoesOn(r)
  BY ListGoesOn DEF Inv, Typed
<1>2. pc[r] = "listing" /\ pc[r] \notin New
  BY DEF List, New
<1>3. \/ registry' = registry
      \/ registry' = None /\ registry # None /\ registry.sid \notin alive
  BY DEF List, Forget
<1>7. HandsKept(r)
  BY <1>1, HandsStay DEF Inv, Typed, List, state, Taking
<1>4. KeepsTrack(r)
  BY <1>2, <1>3, ReleaseTracks DEF Inv, Typed, List
<1> QED
  BY <1>1, <1>4, <1>7, QuietStep DEF List

LEMMA StoreKeeps ==
  ASSUME Inv, NEW r \in Requests, Store(r)
  PROVE  Inv'
<1>1. GoesOn(r)
  BY StoreGoesOn DEF Inv, Typed
<1>2. pc[r] = "store" /\ frame[r].sid \in Sids
  BY DEF Store, Inv, SessionInv, HeldAsIssued, Holding
<1>10. HandsKept(r)
  BY <1>1, HandsStay DEF Inv, Typed, Store, state, Taking
<1>3. KeepsTrack(r)
  <2>1. CASE UNCHANGED <<registry, ends, left>>
    BY <1>2, <2>1, UntouchedTracks DEF Inv, Typed, Store, New, state
  <2>2. CASE EndMine(r)
    BY <1>2, <2>2, EndMineTracks DEF Inv, Typed, Store, New, Holding
  <2> QED
    BY <2>1, <2>2 DEF Store
<1>4. RequestsTyped' /\ SessionsTyped' /\ HandsTyped' /\ EndsTyped' /\ SessionInv'
  BY <1>1, <1>3, <1>10, GoesOnKeeps, ServerStays DEF Inv, Store, vault, user
<1>5. CASE stored' = stored
  <2>1. RestTyped' /\ ConfirmedAsAllowed'
    BY <1>5, RestStays DEF Inv, Typed, RestTyped, Store
  <2>2. CallsTyped' /\ CallInv'
    BY <1>1, <1>5, QuietKeeps DEF Inv, Typed, CallInv, Store
  <2> QED
    BY <1>4, <2>1, <2>2 DEF Inv, Typed, RestTyped
<1>6. ASSUME NEW same \in BOOLEAN, SameSettings(r),
             stored' = [stored EXCEPT !.callable = @ /\ same]
      PROVE  Inv'
  <2>1. stored \in [binding : Bindings, confirmed : BOOLEAN, callable : BOOLEAN]
    BY <1>6 DEF SameSettings, Inv, Typed, StoredTyped
  <2>2. /\ StoredTyped' /\ stored'.binding = stored.binding
        /\ stored'.confirmed = stored.confirmed
        /\ stored'.callable => stored.callable
    BY <1>6, <2>1 DEF StoredTyped
  <2>3. ConfirmedAsAllowed'
    BY <1>6, <2>2 DEF Inv, ConfirmedAsAllowed, Store, user, SameSettings
  <2>4. VaultTyped' /\ ServerTyped' /\ UserTyped' /\ BudgetTyped' /\ CallsTyped'
    BY DEF Inv, Typed, Store, vault, server, user, calls, VaultTyped,
           ServerTyped, UserTyped, BudgetTyped, CallsTyped
  <2>5. RanOnlyLists'
    BY <1>1, GoesOnRuns DEF Inv, Typed, CallInv, Store, calls
  <2>6. RefusedIsRevoked'
    BY <1>6, <2>2 DEF Inv, CallInv, RefusedIsRevoked, Store, calls, SameSettings
  <2> QED
    BY <1>4, <2>2, <2>3, <2>4, <2>5, <2>6 DEF Inv, Typed, CallInv
<1> QED
  BY <1>5, <1>6 DEF Store

LEMMA GateBeforeCallKeeps ==
  ASSUME Inv, NEW r \in Requests, GateBeforeCall(r)
  PROVE  Inv'
<1>1. GoesOn(r)
  BY GateBeforeCallGoesOn DEF Inv, Typed, SessionInv
<1>2. pc[r] = "gate" /\ frame[r].sid \in Sids
  BY DEF GateBeforeCall, Inv, SessionInv, HeldAsIssued, Holding
<1>7. HandsKept(r)
  BY <1>1, HandsStay DEF Inv, Typed, GateBeforeCall, state, Taking
<1>3. KeepsTrack(r)
  <2>1. CASE UNCHANGED <<registry, ends, left>>
    BY <1>2, <2>1, UntouchedTracks DEF Inv, Typed, GateBeforeCall, New, state
  <2>2. CASE EndMine(r)
    BY <1>2, <2>2, EndMineTracks DEF Inv, Typed, GateBeforeCall, New, Holding
  <2> QED
    BY <2>1, <2>2 DEF GateBeforeCall
<1> QED
  BY <1>1, <1>3, <1>7, QuietStep DEF GateBeforeCall

LEMMA CallKeeps ==
  ASSUME Inv, NEW r \in Calls, Call(r)
  PROVE  Inv'
<1>0. r \in Requests
  BY DEF Requests
<1>1. GoesOn(r)
  BY <1>0, CallGoesOn DEF Inv, Typed
<1>2. pc[r] = "calling" /\ pc[r] \notin New
  BY DEF Call, New
<1>3. \/ registry' = registry
      \/ registry' = None /\ registry # None /\ registry.sid \notin alive
  BY DEF Call, Forget
<1>10. HandsKept(r)
  BY <1>0, <1>1, HandsStay DEF Inv, Typed, Call, state, Taking
<1>4. KeepsTrack(r)
  BY <1>0, <1>2, <1>3, ReleaseTracks DEF Inv, Typed, Call
<1>5. RequestsTyped' /\ SessionsTyped' /\ HandsTyped' /\ EndsTyped' /\ SessionInv'
  BY <1>0, <1>1, <1>4, <1>10, GoesOnKeeps, ServerStays DEF Inv, Call, vault, user
<1>6. RestTyped' /\ ConfirmedAsAllowed'
  BY RestStays DEF Inv, Typed, RestTyped, Call
<1>7. refused' \subseteq Calls /\ RefusedIsRevoked'
  BY <1>0, AnsweredKeeps DEF Inv, Typed, CallInv, Call
<1>8. ran[r] = 0
  BY <1>2 DEF Inv, CallInv, RanOnlyLists
<1>9. CallsTyped' /\ RanOnlyLists'
  <2>1. CASE ran' = ran
    BY <1>0, <1>1, <1>7, <2>1, GoesOnRuns DEF Inv, Typed, CallInv, CallsTyped
  <2>2. CASE /\ ran' = [ran EXCEPT ![r] = @ + 1]
             /\ (Go(r, "refresh") /\ UNCHANGED frame) \/ Finish(r)
    <3>1. ran' \in [Calls -> Nat] /\ ran'[r] = 1
      BY <1>8, <2>2 DEF Inv, Typed, CallsTyped
    <3>2. \A k \in Calls \ {r} : ran'[k] = ran[k]
      BY <2>2 DEF Inv, Typed, CallsTyped
    <3>3. pc'[r] \in {"refresh", "done"}
      BY <1>0, <1>2, <2>2, NoAnswerGoesOn DEF Inv, Typed
    <3>4. \A q \in Requests \ {r} : pc'[q] = pc[q] /\ frame'[q] = frame[q]
      BY <1>1 DEF GoesOn, Moved, Inv, Typed, RequestsTyped
    <3>5. RanOnlyLists'
      BY <3>1, <3>2, <3>3, <3>4 DEF Inv, CallInv, RanOnlyLists, Requests
    <3> QED
      BY <1>7, <3>1, <3>5 DEF CallsTyped
  <2> QED
    BY <2>1, <2>2 DEF Call, NoAnswer
<1> QED
  BY <1>5, <1>6, <1>7, <1>9 DEF Inv, Typed, RestTyped, CallInv

LEMMA RefreshKeeps ==
  ASSUME Inv, NEW r \in Requests, Refresh(r)
  PROVE  Inv'
<1>1. GoesOn(r)
  BY RefreshGoesOn DEF Inv, Typed
<1>2. pc[r] = "refresh" /\ frame[r].sid \in Sids
  BY DEF Refresh, Inv, SessionInv, HeldAsIssued, Holding
<1>7. HandsKept(r)
  BY <1>1, HandsStay DEF Inv, Typed, Refresh, state, Taking
<1>3. KeepsTrack(r)
  <2>1. CASE UNCHANGED <<registry, ends, left>>
    BY <1>2, <2>1, UntouchedTracks DEF Inv, Typed, Refresh, New, state
  <2>2. CASE EndMine(r)
    BY <1>2, <2>2, EndMineTracks DEF Inv, Typed, Refresh, New, Holding
  <2> QED
    BY <2>1, <2>2 DEF Refresh
<1> QED
  BY <1>1, <1>3, <1>7, QuietStep DEF Refresh

LEMMA BeginKeeps ==
  ASSUME Inv, NEW r \in Requests, Begin(r)
  PROVE  Inv'
<1> DEFINE f == [frame[r] EXCEPT !.binding = stored.binding, !.gen = generation,
                                 !.list = r \in Connects]
<1>1. f \in Frames
  <2>1. frame[r] \in Frames /\ generation \in Nat
    BY DEF Inv, Typed, RequestsTyped, VaultTyped
  <2>2. stored.binding \in Bindings
    BY DEF Begin, Inv, Typed, StoredTyped
  <2>3. (r \in Connects) \in BOOLEAN
    OBVIOUS
  <2> DEFINE lists == r \in Connects
  <2> HIDE DEF lists
  <2>4. [frame[r] EXCEPT !.binding = stored.binding, !.gen = generation,
                         !.list = lists] \in Frames
    BY <2>1, <2>2, <2>3 DEF Frames, lists
  <2> QED
    BY <2>4 DEF lists
<1>2. frame' = [frame EXCEPT ![r] = f] /\ pc' = [pc EXCEPT ![r] = "load"]
  BY DEF Begin, Go, Inv, Typed, RequestsTyped
<1> HIDE DEF f
<1>3. RequestsTyped'
  BY <1>1, <1>2 DEF Inv, Typed, RequestsTyped, Steps
<1>4. /\ pc'[r] = "load" /\ pc[r] = "idle"
      /\ \A q \in Requests \ {r} : pc'[q] = pc[q] /\ frame'[q] = frame[q]
  BY <1>2 DEF Begin, Inv, Typed, RequestsTyped
<1>5. \A q \in Requests : pc'[q] \in Holding =>
        q # r /\ pc[q] \in Holding /\ frame'[q] = frame[q]
  BY <1>4 DEF Holding
<1>6. \A q \in Requests : pc'[q] \in New =>
        q # r /\ pc[q] \in New /\ frame'[q] = frame[q]
  BY <1>4 DEF New
<1>7. UNCHANGED <<vault, stored, state, server, user, calls, budget>>
  BY DEF Begin
<1>15. HandsTyped'
  BY <1>4, <1>7 DEF Inv, Typed, HandsTyped, Taking, state
<1>8. HeldAsIssued'
  BY <1>5, <1>7 DEF Inv, SessionInv, HeldAsIssued, server
<1>9. NewIsMine'
  BY <1>5, <1>6, <1>7 DEF Inv, SessionInv, NewIsMine, server, state
<1>10. JobsAsIssued' /\ TakenByRemoval' /\ LockEndsSessions'
  BY <1>7 DEF Inv, SessionInv, JobsAsIssued, AllJobs, Registered, InHand,
              TakenByRemoval, LockEndsSessions, state, server, user, vault
<1>11. OpenIsAccountedFor'
  <2>1. \A q \in Requests : pc[q] \in New => pc'[q] \in New /\ frame'[q] = frame[q]
    BY <1>4 DEF New
  <2> QED
    BY <1>7, <2>1 DEF Inv, SessionInv, OpenIsAccountedFor, New, state, server,
                      Registered, InHand, SidsOf
<1>12. RestTyped' /\ ConfirmedAsAllowed'
  BY <1>7, RestStays DEF Inv, Typed, RestTyped
<1>13. SessionsTyped' /\ EndsTyped' /\ CallsTyped' /\ RefusedIsRevoked'
  BY <1>7 DEF Inv, Typed, CallInv, SessionsTyped, EndsTyped, CallsTyped,
              RefusedIsRevoked, state, calls
<1>14. RanOnlyLists'
  <2>1. r \in Calls => ran[r] = 0
    BY <1>4 DEF Inv, CallInv, RanOnlyLists
  <2> QED
    BY <1>4, <1>7, <2>1 DEF Inv, CallInv, RanOnlyLists, calls, Requests
<1> QED
  BY <1>3, <1>8, <1>9, <1>10, <1>11, <1>12, <1>13, <1>14, <1>15
     DEF Inv, Typed, RestTyped, SessionInv, CallInv

LEMMA LoadKeeps ==
  ASSUME Inv, NEW r \in Requests, Load(r)
  PROVE  Inv'
<1>0. pc[r] = "load"
  BY DEF Load
<1>1. CASE ~Usable(r)
  <2> DEFINE p == IF Stale THEN "retiring" ELSE "setup"
  <2>1. Go(r, p) /\ UNCHANGED frame /\ p \in Steps
    BY <1>1 DEF Load, Steps
  <2>2. GoesOn(r)
    <3>1. Along(r, p, frame[r])
      BY <1>0 DEF Along, Holding, New, Taking
    <3> QED
      BY <2>1, <3>1, GoGoesOn DEF Inv, Typed
  <2>3. pc'[r] = p
    BY <2>1 DEF Go, Inv, Typed, RequestsTyped
  <2>4. KeepsTrack(r)
    <3>1. CASE Stale
      BY <1>0, <1>1, <3>1, TakesTracks DEF Load, Inv, Typed, New
    <3>2. CASE ~Stale
      BY <1>0, <1>1, <3>2, UntouchedTracks DEF Load, Inv, Typed, New, state
    <3> QED
      BY <3>1, <3>2
  <2>5. HandsKept(r)
    <3>1. CASE Stale
      BY <1>0, <1>1, <2>3, <3>1 DEF Load, Inv, Typed, HandsTyped, HandsKept, Taking,
                                    SessionsTyped, Stale
    <3>2. CASE ~Stale
      BY <1>0, <1>1, <2>3, <3>2 DEF Load, Inv, Typed, HandsTyped, HandsKept, Taking
    <3> QED
      BY <3>1, <3>2
  <2> QED
    BY <2>2, <2>4, <2>5, QuietStep DEF Load
<1>2. CASE Usable(r)
  <2> DEFINE f == [frame[r] EXCEPT !.sid = registry.sid]
             p == IF r \in Calls THEN "gate" ELSE "setup"
  <2>1. /\ registry # None /\ registry \in Jobs /\ registry \in AllJobs
        /\ registry.sid \in Sids /\ registry.binding = frame[r].binding
    BY <1>2, RegisteredJobs DEF Usable, Inv, Typed, AllJobs, Jobs
  <2>2. f \in Frames /\ f.sid = registry.sid /\ f.binding = frame[r].binding
    BY <2>1 DEF Inv, Typed, RequestsTyped, Frames
  <2>3. frame' = [frame EXCEPT ![r] = f] /\ pc' = [pc EXCEPT ![r] = p] /\ p \in Steps
    BY <1>2 DEF Load, Go, Inv, Typed, RequestsTyped, Steps
  <2>4. p \notin New /\ p \in {"gate", "setup"}
    BY DEF New
  <2> HIDE DEF f, p
  <2>5. RequestsTyped'
    BY <2>2, <2>3 DEF Inv, Typed, RequestsTyped
  <2>6. /\ pc'[r] = p /\ frame'[r] = f
        /\ \A q \in Requests \ {r} : pc'[q] = pc[q] /\ frame'[q] = frame[q]
    BY <2>3 DEF Inv, Typed, RequestsTyped
  <2>7. UNCHANGED <<vault, stored, state, server, user, calls, budget>>
    BY <1>2 DEF Load, state
  <2>15. HandsTyped'
    BY <1>0, <2>4, <2>6, <2>7 DEF Inv, Typed, HandsTyped, Taking, state
  <2>8. HeldAsIssued'
    BY <2>1, <2>2, <2>6, <2>7
       DEF Inv, SessionInv, HeldAsIssued, JobsAsIssued, server
  <2>9. NewIsMine'
    BY <2>1, <2>2, <2>4, <2>6, <2>7 DEF Inv, SessionInv, NewIsMine, server, state
  <2>10. JobsAsIssued' /\ TakenByRemoval' /\ LockEndsSessions'
    BY <2>7 DEF Inv, SessionInv, JobsAsIssued, AllJobs, Registered, InHand,
                TakenByRemoval, LockEndsSessions, state, server, user, vault
  <2>11. OpenIsAccountedFor'
    <3>1. \A q \in Requests : pc[q] \in New => pc'[q] \in New /\ frame'[q] = frame[q]
      BY <1>0, <2>6 DEF New
    <3> QED
      BY <2>7, <3>1 DEF Inv, SessionInv, OpenIsAccountedFor, New, state, server,
                        Registered, InHand, SidsOf
  <2>12. RestTyped' /\ ConfirmedAsAllowed'
    BY <2>7, RestStays DEF Inv, Typed, RestTyped
  <2>13. SessionsTyped' /\ EndsTyped' /\ CallsTyped' /\ RefusedIsRevoked'
    BY <2>7 DEF Inv, Typed, CallInv, SessionsTyped, EndsTyped, CallsTyped,
                RefusedIsRevoked, state, calls
  <2>14. RanOnlyLists'
    <3>1. r \in Calls => ran[r] = 0
      BY <1>0 DEF Inv, CallInv, RanOnlyLists
    <3> QED
      BY <2>6, <2>7, <3>1 DEF Inv, CallInv, RanOnlyLists, calls, Requests
  <2> QED
    BY <2>5, <2>8, <2>9, <2>10, <2>11, <2>12, <2>13, <2>14, <2>15
       DEF Inv, Typed, RestTyped, SessionInv, CallInv
<1> QED
  BY <1>1, <1>2

LEMMA InitializeKeeps ==
  ASSUME Inv, NEW r \in Requests, Initialize(r)
  PROVE  Inv'
<1>0. pc[r] = "init"
  BY DEF Initialize
<1>1. RefusedIsRevoked' /\ CallsTyped'
  BY AnsweredKeeps DEF Inv, Typed, CallInv, CallsTyped, Initialize
<1>2. ASSUME SetUpFails(r, None), ServerGoesOn, ServerTyped'
      PROVE  Inv'
  <2>1. GoesOn(r)
    BY <1>0, <1>2, SetUpFailsGoesOn DEF Inv, Typed
  <2>2. KeepsTrack(r)
    BY <1>0, UntouchedTracks DEF Inv, Typed, Initialize, New
  <2>3. HandsKept(r)
    BY <1>0, <2>1, HandsStay DEF Inv, Typed, Initialize, state, Taking
  <2>4. RequestsTyped' /\ SessionsTyped' /\ HandsTyped' /\ EndsTyped' /\ SessionInv'
    BY <1>2, <2>1, <2>2, <2>3, GoesOnKeeps DEF Inv, Initialize, vault, user
  <2>5. VaultTyped' /\ StoredTyped' /\ UserTyped' /\ BudgetTyped' /\ ConfirmedAsAllowed'
    BY DEF Initialize, Inv, Typed, VaultTyped, StoredTyped, UserTyped, BudgetTyped,
           ConfirmedAsAllowed, vault, user
  <2>6. RanOnlyLists'
    BY <2>1, GoesOnRuns DEF Inv, Typed, CallInv, Initialize
  <2> QED
    BY <1>1, <1>2, <2>4, <2>5, <2>6 DEF Inv, Typed, CallInv
<1>3. ASSUME NEW s \in Sids, issued[s] = None,
             issued' = [issued EXCEPT ![s] = frame[r].binding],
             since' = [since EXCEPT ![s] = frame[r].gen],
             alive' = alive \cup {s}, lost' = lost,
             frame' = [frame EXCEPT ![r].sid = s, ![r].setUp = TRUE],
             Go(r, "answered")
      PROVE  Inv'
  <2> DEFINE f == [frame[r] EXCEPT !.sid = s, !.setUp = TRUE]
  <2>1. /\ f \in Frames /\ f.sid = s /\ f.binding = frame[r].binding
        /\ f.gen = frame[r].gen
    BY DEF Inv, Typed, RequestsTyped, Frames
  <2>2. frame' = [frame EXCEPT ![r] = f] /\ pc' = [pc EXCEPT ![r] = "answered"]
    BY <1>3 DEF Go, Inv, Typed, RequestsTyped
  <2> HIDE DEF f
  <2>3. RequestsTyped'
    BY <2>1, <2>2 DEF Inv, Typed, RequestsTyped, Steps
  <2>4. /\ pc'[r] = "answered" /\ frame'[r] = f
        /\ \A q \in Requests \ {r} : pc'[q] = pc[q] /\ frame'[q] = frame[q]
    BY <2>2 DEF Inv, Typed, RequestsTyped
  <2>5. frame[r].binding \in Bindings /\ frame[r].gen \in Nat
    BY DEF Inv, Typed, RequestsTyped, Frames
  <2>6. ServerTyped'
    BY <1>3, <2>5 DEF Inv, Typed, ServerTyped
  <2>7. /\ issued'[s] = frame[r].binding /\ since'[s] = frame[r].gen
        /\ \A x \in Sids \ {s} : issued'[x] = issued[x] /\ since'[x] = since[x]
    BY <1>3 DEF Inv, Typed, ServerTyped
  <2>8. UNCHANGED <<vault, stored, state, user, ran, budget>>
    BY DEF Initialize
  <2>9. \A q \in Requests : pc[q] \in Holding => frame[q].sid # s
    BY <1>3, Names DEF Inv, SessionInv, HeldAsIssued, Typed, RequestsTyped, Frames
  <2>10. \A j \in AllJobs : j.sid \in Sids \ {s}
    <3>1. AllJobs \subseteq Jobs
      BY AllJobsTyped DEF Inv, Typed
    <3> QED
      BY <1>3, <3>1, Names DEF Inv, SessionInv, JobsAsIssued, Jobs
  <2>11. registry # None => registry.sid \in Sids \ {s}
    BY <2>10, RegisteredJobs DEF AllJobs, Inv, Typed
  <2>12. HeldAsIssued'
    BY <2>1, <2>4, <2>7, <2>9 DEF Inv, SessionInv, HeldAsIssued
  <2>13. AllJobs' = AllJobs
    BY <2>8 DEF AllJobs, Registered, InHand, state
  <2>14. JobsAsIssued' /\ TakenByRemoval' /\ LockEndsSessions'
    BY <2>7, <2>8, <2>10, <2>11, <2>13
       DEF Inv, SessionInv, JobsAsIssued, TakenByRemoval, LockEndsSessions,
           state, user, vault
  <2>15. NewIsMine'
    <3>1. registry' = registry
      BY <2>8 DEF state
    <3>2. \A q \in Requests \ {r} : pc[q] \in New =>
            pc[q] \in Holding /\ frame[q].sid \in Sids
      BY DEF New, Holding, Inv, SessionInv, HeldAsIssued
    <3> QED
      BY <2>1, <2>4, <2>7, <2>9, <2>11, <3>1, <3>2
         DEF Inv, SessionInv, NewIsMine, New
  <2>16. OpenIsAccountedFor'
    <3>1. \A q \in Requests : pc[q] \in New => pc'[q] \in New /\ frame'[q] = frame[q]
      BY <1>0, <2>4 DEF New
    <3>2. r \in {q \in Requests : pc'[q] \in New} /\ frame'[r].sid = s
      BY <2>1, <2>4 DEF New
    <3>3. Known' = Known
      BY <2>8, <2>13 DEF Known, SidsOf, state
    <3>4. ASSUME NEW a \in alive'
          PROVE  \/ a \in Known' \/ a \in lost'
                 \/ \E q \in Requests : pc'[q] \in New /\ a = frame'[q].sid
      <4>1. CASE a = s
        BY <3>2, <4>1
      <4>2. CASE a \in alive
        <5>1. \/ a \in Known \/ a \in lost
              \/ \E q \in Requests : pc[q] \in New /\ a = frame[q].sid
          BY <4>2 DEF Inv, SessionInv, OpenIsAccountedFor, Known, AllJobs, New
        <5> QED
          BY <1>3, <3>1, <3>3, <5>1
      <4> QED
        BY <1>3, <4>1, <4>2
    <3> QED
      BY <3>4 DEF OpenIsAccountedFor, Known, AllJobs, New
  <2>17. VaultTyped' /\ StoredTyped' /\ UserTyped' /\ BudgetTyped' /\ ConfirmedAsAllowed'
    BY <2>8 DEF Inv, Typed, VaultTyped, StoredTyped, UserTyped, BudgetTyped,
                ConfirmedAsAllowed, vault, user
  <2>18. SessionsTyped' /\ EndsTyped' /\ HandsTyped'
    BY <1>0, <2>4, <2>8 DEF Inv, Typed, SessionsTyped, EndsTyped, HandsTyped,
                            Taking, state
  <2>19. RanOnlyLists'
    BY <1>0, <2>1, <2>2, <2>4, <2>8
       DEF Inv, CallInv, RanOnlyLists, Requests, f, Typed, RequestsTyped, Frames
  <2> QED
    BY <1>1, <2>3, <2>6, <2>12, <2>14, <2>15, <2>16, <2>17, <2>18, <2>19
       DEF Inv, Typed, SessionInv, CallInv
<1>4. Issue(r) => NewSid \in Sids /\ issued[NewSid] = None
  BY DEF Issue, NewSid
<1>5. CASE /\ Issue(r) /\ lost' = lost /\ Go(r, "answered")
           /\ frame' = [frame EXCEPT ![r].sid = NewSid, ![r].setUp = TRUE]
  BY <1>3, <1>4, <1>5 DEF Issue
<1>6. CASE Issue(r) /\ lost' = lost \cup {NewSid} /\ SetUpFails(r, None)
  <2> DEFINE s == NewSid
  <2>1. s \in Sids /\ issued[s] = None
    BY <1>4, <1>6
  <2>2. /\ issued' = [issued EXCEPT ![s] = frame[r].binding]
        /\ since' = [since EXCEPT ![s] = frame[r].gen]
        /\ alive' = alive \cup {s} /\ lost' = lost \cup {s}
    BY <1>6 DEF Issue
  <2> HIDE DEF s
  <2>3. frame[r].binding \in Bindings /\ frame[r].gen \in Nat
    BY DEF Inv, Typed, RequestsTyped, Frames
  <2>4. ServerTyped'
    BY <2>1, <2>2, <2>3 DEF Inv, Typed, ServerTyped
  <2>5. ServerGoesOn
    BY <2>1, <2>2 DEF Inv, Typed, ServerTyped, ServerGoesOn
  <2> QED
    BY <1>2, <1>6, <2>4, <2>5
<1>7. CASE SetUpFails(r, None) /\ UNCHANGED server
  <2>1. ServerTyped'
    BY <1>7 DEF Inv, Typed, ServerTyped, server
  <2> QED
    BY <1>2, <1>7, <2>1, ServerStays
<1> QED
  BY <1>5, <1>6, <1>7 DEF Initialize

-----------------------------------------------------------------------------
(* The vault, the server and the user.                                      *)

\* A step that no request takes and that forgets no session that stays alive.
LEMMA OthersKeep ==
  ASSUME Typed, SessionInv, UNCHANGED <<old, pc, frame, issued, since>>,
         AllJobs' \subseteq AllJobs, registry' \in {registry, None},
         alive' \subseteq alive, lost \subseteq lost',
         Known \cap alive' \subseteq Known' \cup lost'
  PROVE  RequestsTyped' /\ HandsTyped' /\ HeldAsIssued' /\ JobsAsIssued'
         /\ NewIsMine' /\ OpenIsAccountedFor'
<1>1. RequestsTyped' /\ HandsTyped' /\ HeldAsIssued' /\ JobsAsIssued'
  BY DEF Typed, SessionInv, RequestsTyped, HandsTyped, HeldAsIssued, JobsAsIssued
<1>2. NewIsMine'
  BY DEF SessionInv, NewIsMine
<1>3. OpenIsAccountedFor'
  <2>1. ASSUME NEW a \in alive'
        PROVE  \/ a \in Known' \/ a \in lost'
               \/ \E q \in Requests : pc'[q] \in New /\ a = frame'[q].sid
    <3>1. \/ a \in Known \/ a \in lost
          \/ \E q \in Requests : pc[q] \in New /\ a = frame[q].sid
      BY DEF SessionInv, OpenIsAccountedFor, Known, AllJobs, New
    <3> QED
      BY <3>1
  <2> QED
    BY <2>1 DEF OpenIsAccountedFor, Known, AllJobs, New
<1> QED
  BY <1>1, <1>2, <1>3

LEMMA CallsStay ==
  ASSUME CallInv, CallsTyped, UNCHANGED <<pc, frame, calls, stored>>
  PROVE  CallInv' /\ CallsTyped'
BY DEF CallInv, CallsTyped, RanOnlyLists, RefusedIsRevoked, calls

\* The sessions as they were.
LEMMA SessionsStay ==
  ASSUME Typed, SessionInv, UNCHANGED <<state, pc, frame, server>>
  PROVE  /\ RequestsTyped' /\ HandsTyped' /\ HeldAsIssued' /\ JobsAsIssued'
         /\ NewIsMine' /\ OpenIsAccountedFor'
         /\ SessionsTyped' /\ EndsTyped' /\ ServerTyped'
<1>1. AllJobs' = AllJobs /\ Known' = Known
  BY DEF state, AllJobs, Known, Registered, InHand
<1>2. RequestsTyped' /\ HandsTyped' /\ HeldAsIssued' /\ JobsAsIssued' /\ NewIsMine'
      /\ OpenIsAccountedFor'
  BY <1>1, OthersKeep DEF state, server
<1> QED
  BY <1>2 DEF Typed, SessionsTyped, EndsTyped, ServerTyped, state, server

LEMMA LockBumpKeeps ==
  ASSUME Inv, LockBump
  PROVE  Inv'
<1>1. SessionInv'
  BY SessionsStay DEF Inv, LockBump, SessionInv, TakenByRemoval, LockEndsSessions,
                      user, state
<1>2. /\ SessionsTyped' /\ EndsTyped' /\ ServerTyped' /\ RequestsTyped' /\ HandsTyped'
  BY SessionsStay DEF Inv, LockBump
<1>3. VaultTyped' /\ StoredTyped' /\ UserTyped' /\ ConfirmedAsAllowed'
  BY DEF LockBump, Inv, Typed, VaultTyped, StoredTyped, UserTyped,
         ConfirmedAsAllowed, user
<1>4. BudgetTyped'
  BY DEF LockBump, Spend, Inv, Typed, BudgetTyped
<1>5. CallInv' /\ CallsTyped'
  BY CallsStay DEF Inv, Typed, LockBump
<1> QED
  BY <1>1, <1>2, <1>3, <1>4, <1>5 DEF Inv, Typed

\* The registry is drained, with the ends that waited.
LEMMA LockDrainKeeps ==
  ASSUME Inv, LockDrain
  PROVE  Inv'
<1>1. (Registered \cup deferred) \subseteq Jobs
  BY RegisteredJobs DEF Inv, Typed, SessionsTyped
<1>2. /\ EndsTyped'
      /\ ends \subseteq ends' /\ ends' \subseteq ends \cup (Registered \cup deferred)
      /\ left \subseteq left'
      /\ SidsOf(Registered \cup deferred) \subseteq SidsOf(ends') \cup left'
  BY <1>1, Started DEF Inv, Typed, LockDrain
<1>3. SessionsTyped'
  BY DEF Inv, Typed, SessionsTyped, LockDrain
<1>4. registry' = None /\ Registered' = {} /\ InHand' = InHand
  BY DEF LockDrain, Registered, InHand
<1>5. AllJobs' \subseteq AllJobs
  BY <1>2, <1>4 DEF AllJobs, LockDrain
<1>6. Known \subseteq Known'
  BY <1>2, <1>4 DEF Known, SidsOf, AllJobs, LockDrain
<1>7. RequestsTyped' /\ HandsTyped' /\ HeldAsIssued' /\ JobsAsIssued' /\ NewIsMine'
      /\ OpenIsAccountedFor'
  BY <1>4, <1>5, <1>6, OthersKeep DEF Inv, LockDrain, server
<1>8. TakenByRemoval' /\ LockEndsSessions'
  BY <1>4 DEF Inv, SessionInv, TakenByRemoval, LockEndsSessions, LockDrain, user
<1>9. VaultTyped' /\ StoredTyped' /\ UserTyped' /\ ConfirmedAsAllowed'
      /\ ServerTyped' /\ BudgetTyped'
  BY DEF LockDrain, Inv, Typed, VaultTyped, StoredTyped, UserTyped, BudgetTyped,
         ServerTyped, ConfirmedAsAllowed, user, server
<1>10. CallInv' /\ CallsTyped'
  BY CallsStay DEF Inv, Typed, LockDrain
<1> QED
  BY <1>2, <1>3, <1>7, <1>8, <1>9, <1>10 DEF Inv, Typed, SessionInv

LEMMA LockEndKeeps ==
  ASSUME Inv, LockClear \/ Unlock
  PROVE  Inv'
<1>1. UNCHANGED <<generation, stored, state, server, pc, frame, user, calls, budget>>
  BY DEF LockClear, Unlock
<1>2. SessionInv'
  <2>1. LockEndsSessions'
    BY <1>1 DEF LockClear, Unlock, Inv, SessionInv, LockEndsSessions, state, server
  <2> QED
    BY <1>1, <2>1, SessionsStay DEF Inv, SessionInv, TakenByRemoval, user, state
<1>3. SessionsTyped' /\ EndsTyped' /\ ServerTyped' /\ RequestsTyped' /\ HandsTyped'
  BY <1>1, SessionsStay DEF Inv
<1>4. VaultTyped' /\ StoredTyped' /\ UserTyped' /\ BudgetTyped' /\ ConfirmedAsAllowed'
  BY <1>1 DEF LockClear, Unlock, Inv, Typed, VaultTyped, StoredTyped, UserTyped,
              BudgetTyped, ConfirmedAsAllowed, user
<1>5. CallInv' /\ CallsTyped'
  BY <1>1, CallsStay DEF Inv, Typed
<1> QED
  BY <1>2, <1>3, <1>4, <1>5 DEF Inv, Typed

LEMMA ExpireKeeps ==
  ASSUME Inv, NEW s \in Sids, Expire(s)
  PROVE  Inv'
<1>1. AllJobs' = AllJobs /\ Known' = Known
  BY DEF state, AllJobs, Known, Registered, InHand, Expire
<1>2. RequestsTyped' /\ HandsTyped' /\ HeldAsIssued' /\ JobsAsIssued' /\ NewIsMine'
      /\ OpenIsAccountedFor'
  BY <1>1, OthersKeep DEF Inv, Expire, state
<1>3. SessionsTyped' /\ EndsTyped' /\ ServerTyped' /\ VaultTyped' /\ StoredTyped'
      /\ UserTyped' /\ BudgetTyped' /\ ConfirmedAsAllowed'
  BY DEF Expire, Inv, Typed, SessionsTyped, EndsTyped, ServerTyped, VaultTyped,
         StoredTyped, UserTyped, BudgetTyped, ConfirmedAsAllowed, state, vault, user
<1>4. TakenByRemoval' /\ LockEndsSessions'
  BY DEF Expire, Inv, SessionInv, TakenByRemoval, LockEndsSessions, state, vault, user
<1>5. CallInv' /\ CallsTyped'
  BY CallsStay DEF Inv, Typed, Expire
<1> QED
  BY <1>2, <1>3, <1>4, <1>5 DEF Inv, Typed, SessionInv

LEMMA TeardownEndsKeeps ==
  ASSUME Inv, NEW j \in ends, TeardownEnds(j)
  PROVE  Inv'
<1>1. j \in Jobs /\ j.sid \in Sids
  BY DEF Inv, Typed, EndsTyped, Jobs
<1>2. Registered' = Registered /\ InHand' = InHand
  BY DEF Registered, InHand, TeardownEnds
<1>3. AllJobs' \subseteq AllJobs
  BY <1>2 DEF AllJobs, TeardownEnds
<1>4. /\ alive' \subseteq alive /\ left \subseteq left' /\ lost \subseteq lost'
      /\ left' \subseteq left \cup {j.sid} /\ lost' \subseteq lost \cup {j.sid}
      /\ j.sid \notin alive' \/ j.sid \in left' \/ j.sid \in lost'
  BY DEF TeardownEnds, Deleted
<1>5. \A k \in AllJobs : k \in AllJobs' \/ k = j
  BY <1>2 DEF AllJobs, TeardownEnds
<1>6. Known \cap alive' \subseteq Known' \cup lost'
  BY <1>4, <1>5 DEF Known, SidsOf
<1>7. RequestsTyped' /\ HandsTyped' /\ HeldAsIssued' /\ JobsAsIssued' /\ NewIsMine'
      /\ OpenIsAccountedFor'
  BY <1>3, <1>4, <1>6, OthersKeep DEF Inv, TeardownEnds
<1>8. EndsTyped'
  BY <1>1, <1>4 DEF Inv, Typed, EndsTyped, TeardownEnds
<1>9. SessionsTyped' /\ ServerTyped' /\ VaultTyped' /\ StoredTyped'
      /\ UserTyped' /\ BudgetTyped' /\ ConfirmedAsAllowed'
  BY <1>1, <1>4 DEF TeardownEnds, Inv, Typed, SessionsTyped, ServerTyped, VaultTyped,
         StoredTyped, UserTyped, BudgetTyped, ConfirmedAsAllowed, vault, user
<1>10. TakenByRemoval' /\ LockEndsSessions'
  BY DEF TeardownEnds, Inv, SessionInv, TakenByRemoval, LockEndsSessions, vault, user
<1>11. CallInv' /\ CallsTyped'
  BY CallsStay DEF Inv, Typed, TeardownEnds
<1> QED
  BY <1>7, <1>8, <1>9, <1>10, <1>11 DEF Inv, Typed, SessionInv

\* A step of the user about the record: no session is touched.
LEMMA RecordKeeps ==
  ASSUME Inv, UNCHANGED <<vault, state, server, pc, frame, removing>>,
         StoredTyped', UserTyped', BudgetTyped', ConfirmedAsAllowed',
         RefusedIsRevoked', CallsTyped', UNCHANGED ran
  PROVE  Inv'
<1>1. SessionInv'
  BY SessionsStay DEF Inv, SessionInv, TakenByRemoval, LockEndsSessions, state,
                      server, vault
<1>2. SessionsTyped' /\ EndsTyped' /\ ServerTyped' /\ RequestsTyped' /\ HandsTyped'
  BY SessionsStay DEF Inv
<1>3. VaultTyped' /\ RanOnlyLists'
  BY DEF Inv, Typed, CallInv, VaultTyped, vault, RanOnlyLists
<1> QED
  BY <1>1, <1>2, <1>3 DEF Inv, Typed, CallInv

LEMMA SpendTyped ==
  ASSUME BudgetTyped, NEW what \in {"saves", "removals", "toggles", "locks"},
         Spend(what)
  PROVE  BudgetTyped'
<1>1. budget[what] > 0 /\ budget[what] \in Nat
  BY DEF Spend, BudgetTyped
<1>2. budget[what] - 1 \in Nat
  BY <1>1
<1> QED
  BY <1>2 DEF Spend, BudgetTyped

LEMMA SaveFromKeeps ==
  ASSUME Inv, NEW b \in Bindings, NEW g \in 0 .. generation, SaveFrom(b, g)
  PROVE  Inv'
<1>1. stored \in [binding : Bindings, confirmed : BOOLEAN, callable : BOOLEAN]
      /\ stored # None
  BY DEF SaveFrom, Inv, Typed, StoredTyped
<1> DEFINE asks == NeedsConfirmation(b)
<1>2. asks \in BOOLEAN
  BY <1>1 DEF NeedsConfirmation
<1>3. /\ stored' \in [binding : Bindings, confirmed : BOOLEAN, callable : BOOLEAN]
      /\ stored'.binding = b /\ stored'.confirmed = ~asks
      /\ stored'.callable = stored.callable
  BY <1>1, <1>2 DEF SaveFrom
<1>4. UserTyped'
  <2>1. saving' \in [binding : Bindings, gen : Nat, moved : BOOLEAN, asks : BOOLEAN]
    <3>1. g \in Nat /\ (b # stored.binding) \in BOOLEAN
      BY DEF Inv, Typed, VaultTyped
    <3> QED
      BY <1>2, <3>1 DEF SaveFrom
  <2> QED
    BY <2>1 DEF SaveFrom, Inv, Typed, UserTyped
<1>5. ConfirmedAsAllowed'
  BY <1>3 DEF SaveFrom, ConfirmedAsAllowed
<1>6. RefusedIsRevoked' /\ CallsTyped'
  BY <1>1, <1>3 DEF SaveFrom, Inv, Typed, CallInv, RefusedIsRevoked, CallsTyped, calls
<1>7. BudgetTyped'
  BY SpendTyped DEF SaveFrom, Inv, Typed
<1> QED
  BY <1>3, <1>4, <1>5, <1>6, <1>7, RecordKeeps DEF SaveFrom, StoredTyped, calls

LEMMA SaveDropsKeeps ==
  ASSUME Inv, SaveDrops
  PROVE  Inv'
<1>1. /\ EndsTyped' /\ registry' \in {registry, None}
      /\ AllJobs' \subseteq AllJobs /\ Known \subseteq Known'
  <2>1. CASE UNCHANGED <<registry, ends, left>>
    BY <2>1 DEF SaveDrops, Inv, Typed, EndsTyped, AllJobs, Known, Registered, InHand
  <2>2. CASE registry' = None /\ StartTeardowns(Registered)
    <3>1. /\ EndsTyped'
          /\ ends \subseteq ends' /\ ends' \subseteq ends \cup Registered
          /\ left \subseteq left'
          /\ SidsOf(Registered) \subseteq SidsOf(ends') \cup left'
      BY <2>2, RegisteredJobs, Started DEF Inv, Typed
    <3>2. Registered' = {} /\ InHand' = InHand
      BY <2>2 DEF Registered, InHand, SaveDrops
    <3>3. AllJobs' \subseteq AllJobs
      BY <3>1, <3>2 DEF AllJobs, SaveDrops
    <3>4. Known \subseteq Known'
      BY <3>1, <3>2 DEF Known, SidsOf, AllJobs, SaveDrops
    <3> QED
      BY <2>2, <3>1, <3>3, <3>4
  <2> QED
    BY <2>1, <2>2 DEF SaveDrops
<1>2. RequestsTyped' /\ HandsTyped' /\ HeldAsIssued' /\ JobsAsIssued' /\ NewIsMine'
      /\ OpenIsAccountedFor'
  BY <1>1, OthersKeep DEF Inv, SaveDrops, server
<1>3. SessionsTyped' /\ ServerTyped' /\ VaultTyped' /\ StoredTyped' /\ BudgetTyped'
      /\ ConfirmedAsAllowed'
  BY <1>1 DEF SaveDrops, Inv, Typed, SessionsTyped, ServerTyped, VaultTyped,
         StoredTyped, BudgetTyped, ConfirmedAsAllowed, server, vault
<1>4. UserTyped'
  BY DEF SaveDrops, Inv, Typed, UserTyped
<1>5. TakenByRemoval' /\ LockEndsSessions'
  BY <1>1 DEF SaveDrops, Inv, SessionInv, TakenByRemoval, LockEndsSessions, vault, server
<1>6. CallInv' /\ CallsTyped'
  BY CallsStay DEF Inv, Typed, SaveDrops
<1> QED
  BY <1>1, <1>2, <1>3, <1>4, <1>5, <1>6 DEF Inv, Typed, SessionInv

LEMMA AllowKeeps ==
  ASSUME Inv, Allow
  PROVE  Inv'
<1>1. UserTyped'
  BY DEF Allow, Inv, Typed, UserTyped
<1>2. CASE stored' = stored
  <2>1. StoredTyped' /\ ConfirmedAsAllowed' /\ RefusedIsRevoked' /\ CallsTyped'
        /\ BudgetTyped'
    BY <1>2 DEF Allow, Inv, Typed, CallInv, StoredTyped, ConfirmedAsAllowed,
                RefusedIsRevoked, CallsTyped, BudgetTyped, calls
  <2> QED
    BY <1>1, <2>1, RecordKeeps DEF Allow, calls
<1>3. CASE AboutStored /\ stored' = [stored EXCEPT !.confirmed = TRUE]
  <2>1. stored \in [binding : Bindings, confirmed : BOOLEAN, callable : BOOLEAN]
        /\ stored # None /\ stored.binding = question.binding
    BY <1>3 DEF AboutStored, Inv, Typed, StoredTyped
  <2>2. /\ StoredTyped' /\ stored'.binding = stored.binding
        /\ stored'.callable = stored.callable
    BY <1>3, <2>1 DEF StoredTyped
  <2>3. ConfirmedAsAllowed'
    BY <2>1, <2>2 DEF Allow, ConfirmedAsAllowed
  <2>4. RefusedIsRevoked' /\ CallsTyped' /\ BudgetTyped'
    BY <2>1, <2>2 DEF Allow, Inv, Typed, CallInv, RefusedIsRevoked, CallsTyped,
                      BudgetTyped, calls
  <2> QED
    BY <1>1, <2>2, <2>3, <2>4, RecordKeeps DEF Allow, calls
<1> QED
  BY <1>2, <1>3 DEF Allow

LEMMA DeclineKeeps ==
  ASSUME Inv, Decline
  PROVE  Inv'
<1>1. UserTyped'
  BY DEF Decline, Inv, Typed, UserTyped
<1>2. CASE stored' = stored /\ (~AboutStored \/ allowed' = allowed)
  <2>1. StoredTyped' /\ ConfirmedAsAllowed' /\ RefusedIsRevoked' /\ CallsTyped'
        /\ BudgetTyped'
    BY <1>2 DEF Decline, AboutStored, Inv, Typed, CallInv, StoredTyped,
                ConfirmedAsAllowed, RefusedIsRevoked, CallsTyped, BudgetTyped, calls
  <2> QED
    BY <1>1, <2>1, RecordKeeps DEF Decline, calls
<1>3. CASE AboutStored /\ stored' = [stored EXCEPT !.confirmed = FALSE]
  <2>1. stored \in [binding : Bindings, confirmed : BOOLEAN, callable : BOOLEAN]
        /\ stored # None
    BY <1>3 DEF AboutStored, Inv, Typed, StoredTyped
  <2>2. /\ StoredTyped' /\ stored'.confirmed = FALSE
        /\ stored'.callable = stored.callable
    BY <1>3, <2>1 DEF StoredTyped
  <2>3. ConfirmedAsAllowed'
    BY <2>2 DEF ConfirmedAsAllowed
  <2>4. RefusedIsRevoked' /\ CallsTyped' /\ BudgetTyped'
    BY <2>1, <2>2 DEF Decline, Inv, Typed, CallInv, RefusedIsRevoked, CallsTyped,
                      BudgetTyped, calls
  <2> QED
    BY <1>1, <2>2, <2>3, <2>4, RecordKeeps DEF Decline, calls
<1> QED
  BY <1>2, <1>3 DEF Decline

LEMMA ToggleKeeps ==
  ASSUME Inv, Toggle
  PROVE  Inv'
<1>1. stored \in [binding : Bindings, confirmed : BOOLEAN, callable : BOOLEAN]
      /\ stored # None
  BY DEF Toggle, Inv, Typed, StoredTyped
<1>2. /\ StoredTyped' /\ stored'.binding = stored.binding
      /\ stored'.confirmed = stored.confirmed
      /\ stored'.callable = ~stored.callable
  BY <1>1 DEF Toggle, StoredTyped
<1>3. ConfirmedAsAllowed' /\ UserTyped'
  BY <1>1, <1>2 DEF Toggle, Inv, Typed, ConfirmedAsAllowed, UserTyped, user
<1>4. RefusedIsRevoked' /\ CallsTyped'
  BY <1>1, <1>2 DEF Toggle, Inv, Typed, CallInv, RefusedIsRevoked, CallsTyped
<1>5. BudgetTyped'
  BY SpendTyped DEF Toggle, Inv, Typed
<1> QED
  BY <1>2, <1>3, <1>4, <1>5, RecordKeeps DEF Toggle, user

LEMMA RemoveTakesKeeps ==
  ASSUME Inv, RemoveTakes
  PROVE  Inv'
<1>1. taken = {} /\ Registered' = {} /\ InHand' = InHand
  BY DEF RemoveTakes, Inv, SessionInv, TakenByRemoval, Registered, InHand
<1>2. AllJobs' = AllJobs /\ left' = left
  BY <1>1 DEF AllJobs, RemoveTakes
<1>3. Known' = Known
  BY <1>2 DEF Known, SidsOf
<1>4. RequestsTyped' /\ HandsTyped' /\ HeldAsIssued' /\ JobsAsIssued' /\ NewIsMine'
      /\ OpenIsAccountedFor'
  BY <1>2, <1>3, OthersKeep DEF Inv, RemoveTakes, server
<1>5. SessionsTyped'
  BY RegisteredJobs DEF RemoveTakes, Inv, Typed, SessionsTyped
<1>6. EndsTyped' /\ ServerTyped' /\ VaultTyped' /\ StoredTyped' /\ UserTyped'
      /\ ConfirmedAsAllowed'
  BY DEF RemoveTakes, Inv, Typed, EndsTyped, ServerTyped, VaultTyped, StoredTyped,
         UserTyped, ConfirmedAsAllowed, server, vault
<1>7. BudgetTyped'
  BY SpendTyped DEF RemoveTakes, Inv, Typed
<1>8. TakenByRemoval' /\ LockEndsSessions'
  BY DEF RemoveTakes, TakenByRemoval, LockEndsSessions
<1>9. CallInv' /\ CallsTyped'
  BY CallsStay DEF Inv, Typed, RemoveTakes
<1> QED
  BY <1>4, <1>5, <1>6, <1>7, <1>8, <1>9 DEF Inv, Typed, SessionInv

LEMMA RemoveDeletesKeeps ==
  ASSUME Inv, RemoveDeletes
  PROVE  Inv'
<1>1. Registered' = Registered /\ InHand' = InHand /\ taken' = {}
  BY DEF Registered, InHand, RemoveDeletes
<1>2. AllJobs' \subseteq AllJobs
  BY <1>1 DEF AllJobs, RemoveDeletes
<1>3. /\ alive' \subseteq alive /\ left \subseteq left' /\ lost \subseteq lost'
      /\ left' \subseteq left \cup SidsOf(taken) /\ lost' \subseteq lost \cup SidsOf(taken)
      /\ \A j \in taken : j.sid \notin alive' \/ j.sid \in left' \/ j.sid \in lost'
  BY DEF RemoveDeletes, Deleted, SidsOf
<1>4. \A j \in AllJobs : j \in AllJobs' \/ j \in taken
  BY <1>1 DEF AllJobs, RemoveDeletes
<1>5. Known \cap alive' \subseteq Known' \cup lost'
  BY <1>3, <1>4 DEF Known, SidsOf
<1>6. RequestsTyped' /\ HandsTyped' /\ HeldAsIssued' /\ JobsAsIssued' /\ NewIsMine'
      /\ OpenIsAccountedFor'
  BY <1>2, <1>3, <1>5, OthersKeep DEF Inv, RemoveDeletes
<1>11. SidsOf(taken) \subseteq Sids
  BY DEF Inv, Typed, SessionsTyped, Jobs, SidsOf
<1>7. EndsTyped'
  BY <1>3, <1>11 DEF RemoveDeletes, Inv, Typed, EndsTyped
<1>8. SessionsTyped' /\ ServerTyped' /\ VaultTyped' /\ StoredTyped' /\ UserTyped'
      /\ ConfirmedAsAllowed' /\ BudgetTyped'
  BY <1>1, <1>3, <1>11 DEF RemoveDeletes, Inv, Typed, SessionsTyped, ServerTyped, VaultTyped,
         StoredTyped, UserTyped, ConfirmedAsAllowed, BudgetTyped, vault
<1>9. TakenByRemoval' /\ LockEndsSessions'
  BY DEF RemoveDeletes, Inv, SessionInv, TakenByRemoval, LockEndsSessions, vault
<1>10. CallInv' /\ CallsTyped'
  BY DEF RemoveDeletes, Inv, Typed, CallInv, CallsTyped, RanOnlyLists,
         RefusedIsRevoked, calls
<1> QED
  BY <1>6, <1>7, <1>8, <1>9, <1>10 DEF Inv, Typed, SessionInv

-----------------------------------------------------------------------------
(* The invariant.                                                           *)

LEMMA InitInv == Init => Inv
<1> SUFFICES ASSUME Init PROVE Inv
  OBVIOUS
<1>1. VaultTyped /\ StoredTyped /\ ServerTyped /\ UserTyped /\ CallsTyped
  BY Names DEF Init, VaultTyped, StoredTyped, ServerTyped, UserTyped, CallsTyped
<1>2. BudgetTyped
  BY BoundsAreNat DEF Init, BudgetTyped
<1>3. RequestsTyped
  BY NoFrameTyped DEF Init, RequestsTyped, Steps
<1>5. SessionsTyped /\ EndsTyped /\ HandsTyped
  BY DEF Init, SessionsTyped, EndsTyped, HandsTyped, Taking
<1>6. \A r \in Requests : pc[r] = "idle"
  BY DEF Init
<1>7. AllJobs = {}
  BY DEF Init, AllJobs, Registered, InHand
<1>8. SessionInv
  BY <1>6, <1>7 DEF Init, SessionInv, HeldAsIssued, JobsAsIssued, NewIsMine,
       TakenByRemoval, LockEndsSessions, OpenIsAccountedFor, Holding, New
<1>9. ConfirmedAsAllowed /\ CallInv
  BY DEF Init, ConfirmedAsAllowed, CallInv, RanOnlyLists, RefusedIsRevoked
<1> QED
  BY <1>1, <1>2, <1>3, <1>5, <1>8, <1>9 DEF Inv, Typed

LEMMA StutterKeeps ==
  ASSUME Inv, UNCHANGED vars
  PROVE  Inv'
<1>1. UNCHANGED <<vault, stored, state, server, pc, frame, user, calls, budget>>
  BY DEF vars
<1>2. RestTyped' /\ ConfirmedAsAllowed'
  BY <1>1, RestStays DEF Inv, Typed, RestTyped
<1>3. SessionInv'
  BY <1>1, SessionsStay DEF Inv, SessionInv, TakenByRemoval, LockEndsSessions,
                            user, state, server, vault
<1>4. SessionsTyped' /\ EndsTyped' /\ RequestsTyped' /\ HandsTyped'
  BY <1>1, SessionsStay DEF Inv
<1>5. CallInv' /\ CallsTyped'
  BY <1>1, CallsStay DEF Inv, Typed
<1> QED
  BY <1>2, <1>3, <1>4, <1>5 DEF Inv, Typed, RestTyped

LEMMA RequestStepKeeps ==
  ASSUME Inv, NEW r \in Requests, RequestStep(r)
  PROVE  Inv'
BY LoadKeeps, SetUpKeeps, InitializeKeeps, CheckAnsweredKeeps, RegisterKeeps,
   EndOldKeeps, InitializedKeeps, CheckListKeeps, ListKeeps, StoreKeeps DEF RequestStep

LEMMA NextInv == Inv /\ [Next]_vars => Inv'
<1> SUFFICES ASSUME Inv, [Next]_vars PROVE Inv'
  OBVIOUS
<1>1. ASSUME NEW r \in Requests, RequestStep(r) PROVE Inv'
  BY <1>1, RequestStepKeeps
<1>2. ASSUME NEW k \in Calls, CallStep(k) PROVE Inv'
  <2>1. k \in Requests
    BY DEF Requests
  <2> QED
    BY <1>2, <2>1, GateBeforeCallKeeps, CallKeeps, RefreshKeeps DEF CallStep
<1>3. ASSUME NEW j \in ends, TeardownEnds(j) PROVE Inv'
  BY <1>3, TeardownEndsKeeps
<1>4. CASE LockDrain
  BY <1>4, LockDrainKeeps
<1>5. CASE LockClear \/ Unlock
  BY <1>5, LockEndKeeps
<1>6. CASE SaveDrops
  BY <1>6, SaveDropsKeeps
<1>7. CASE RemoveDeletes
  BY <1>7, RemoveDeletesKeeps
<1>8. ASSUME NEW r \in Requests, Begin(r) PROVE Inv'
  BY <1>8, BeginKeeps
<1>9. ASSUME NEW s \in Sids, Expire(s) PROVE Inv'
  BY <1>9, ExpireKeeps
<1>10. ASSUME NEW b \in Bindings, Save(b) PROVE Inv'
  BY <1>10, SaveFromKeeps DEF Save
<1>11. CASE Allow
  BY <1>11, AllowKeeps
<1>12. CASE Decline
  BY <1>12, DeclineKeeps
<1>13. CASE Toggle
  BY <1>13, ToggleKeeps
<1>14. CASE RemoveTakes
  BY <1>14, RemoveTakesKeeps
<1>15. CASE LockBump
  BY <1>15, LockBumpKeeps
<1>16. CASE UNCHANGED vars
  BY <1>16, StutterKeeps
<1> QED
  BY <1>1, <1>2, <1>3, <1>4, <1>5, <1>6, <1>7, <1>8, <1>9, <1>10, <1>11, <1>12,
     <1>13, <1>14, <1>15, <1>16 DEF Next, Progress

-----------------------------------------------------------------------------
(* The theorems.                                                            *)

\* Where every session id came from and who may send it where: the inductive
\* invariant of the registry, its requests and its teardowns (McpState).
THEOREM SessionsInvariant == Spec => []Inv
BY InitInv, NextInv, PTL DEF Spec

\* Every variable has its type; a request past its set-up holds a session, and
\* one it took out of the registry only until it has ended it (ServerContext,
\* establish_session).
THEOREM TypeCorrect == Spec => []TypeOK
<1>1. Inv => \A r \in Requests : pc[r] \in Holding => frame[r].sid # None
  BY Names DEF Inv, SessionInv, HeldAsIssued
<1>2. Inv => TypeOK
  BY <1>1 DEF Inv, Typed, TypeOK, VaultTyped, StoredTyped, SessionsTyped, EndsTyped,
         HandsTyped, Taking, ServerTyped, RequestsTyped, UserTyped, BudgetTyped,
         CallsTyped
<1> QED
  BY <1>2, SessionsInvariant, PTL

\* A session the server still knows is registered, to be ended, in the hands of
\* its set-up or of the request that took its place, given up with a warning, or
\* one of the two kinds the code lets go in silence: issued by a set-up that then
\* failed, or kept by a server that takes no DELETE (establish_session,
\* end_replaced, delete_session).
THEOREM OpenSessionsAreAccountedFor == Spec => []OpenIsAccountedFor
<1>1. Inv => OpenIsAccountedFor
  BY DEF Inv, SessionInv
<1> QED
  BY <1>1, SessionsInvariant, PTL

\* A session id goes only where it was issued (usable_session, session_end).
THEOREM SentOnlyThere == Spec => []SentWhereItBelongs
<1>1. Inv => SentWhereItBelongs
  BY DEF Inv, Typed, SessionInv, HeldAsIssued, JobsAsIssued, SentWhereItBelongs, AllJobs,
         Holding
<1> QED
  BY <1>1, SessionsInvariant, PTL

\* No session of a command that began before a lock outlives the lock's drain
\* (McpState::register, teardown_all).
THEOREM LocksEndSessions == Spec => []LockEndsSessions
<1>1. Inv => LockEndsSessions
  BY DEF Inv, SessionInv
<1> QED
  BY <1>1, SessionsInvariant, PTL

\* A record is confirmed only with settings that the user allowed or that the
\* save did not have to ask about (confirm_binding, decline_binding).
THEOREM ConfirmedOnlyAsAllowed == Spec => []ConfirmedAsAllowed
<1>1. Inv => ConfirmedAsAllowed
  BY DEF Inv
<1> QED
  BY <1>1, SessionsInvariant, PTL

\* No tool call runs twice (run_tool_call).
THEOREM CallsRunOnce == Spec => []RunsOnce
<1>1. Inv => RunsOnce
  BY DEF Inv, CallInv, RanOnlyLists, RunsOnce
<1> QED
  BY <1>1, SessionsInvariant, PTL

\* Only the step that gates a call sends it.
LEMMA OnlyTheGateSends ==
  ASSUME Inv, Next
  PROVE  \A k \in Calls : pc[k] # "calling" /\ pc'[k] = "calling"
                            => GateBeforeCall(k) /\ Gate(k)
<1> SUFFICES ASSUME NEW k \in Calls, pc[k] # "calling", pc'[k] = "calling"
             PROVE  GateBeforeCall(k) /\ Gate(k)
  OBVIOUS
<1>0. pc \in [Requests -> Steps] /\ k \in Requests
  BY DEF Inv, Typed, RequestsTyped, Requests
<1>1. ASSUME NEW r \in Requests, RequestStep(r) PROVE FALSE
  <2>1. CASE Load(r) \/ EndOld(r)
    BY <1>0, <2>1 DEF Load, EndOld, Go
  <2>2. CASE SetUp(r)
    BY <1>0, <2>2 DEF SetUp, SetUpFails, Refused, NoAnswer, Finish, Go
  <2>3. CASE Initialize(r)
    BY <1>0, <2>3 DEF Initialize, SetUpFails, Refused, NoAnswer, Finish, Go
  <2>4. CASE CheckAnswered(r)
    BY <1>0, <2>4 DEF CheckAnswered, Finish, Go
  <2>5. CASE Register(r)
    BY <1>0, <2>5 DEF Register, Finish, Go
  <2>6. CASE Initialized(r)
    BY <1>0, <2>6 DEF Initialized, SetUpFails, Refused, NoAnswer, Finish, Go
  <2>7. CASE CheckList(r)
    BY <1>0, <2>7 DEF CheckList, Finish, Go
  <2>8. CASE List(r)
    BY <1>0, <2>8 DEF List, Forget, Finish, Go
  <2>9. CASE Store(r)
    BY <1>0, <2>9 DEF Store, Finish
  <2> QED
    BY <1>1, <2>1, <2>2, <2>3, <2>4, <2>5, <2>6, <2>7, <2>8, <2>9 DEF RequestStep
<1>2. ASSUME NEW q \in Calls, Call(q) \/ Refresh(q) PROVE FALSE
  BY <1>0, <1>2 DEF Call, Refresh, NoAnswer, Forget, Finish, Go
<1>3. ASSUME NEW q \in Calls, GateBeforeCall(q) PROVE GateBeforeCall(k) /\ Gate(k)
  BY <1>0, <1>3 DEF GateBeforeCall, GateNow, Refused, NoAnswer, Finish, Go
<1>4. ASSUME NEW r \in Requests, Begin(r) PROVE FALSE
  BY <1>0, <1>4 DEF Begin, Go
<1>5. CASE pc' = pc
  BY <1>5
<1>6. ASSUME NEW j \in ends, TeardownEnds(j) PROVE pc' = pc
  BY <1>6 DEF TeardownEnds
<1>7. ASSUME NEW s \in Sids, Expire(s) PROVE pc' = pc
  BY <1>7 DEF Expire
<1>8. ASSUME NEW b \in Bindings, Save(b) PROVE pc' = pc
  BY <1>8 DEF Save, SaveFrom
<1>9. CASE LockDrain \/ LockClear \/ LockBump \/ Unlock
  BY <1>9 DEF LockDrain, LockClear, LockBump, Unlock
<1>10. CASE SaveDrops \/ Allow \/ Decline \/ Toggle \/ RemoveTakes \/ RemoveDeletes
  BY <1>10 DEF SaveDrops, Allow, Decline, Toggle, RemoveTakes, RemoveDeletes
<1> QED
  BY <1>1, <1>2, <1>3, <1>4, <1>5, <1>6, <1>7, <1>8, <1>9, <1>10
     DEF Next, Progress, CallStep

\* A call whose tool was revoked before the last answer it waited for does not
\* go out (gate_before_call).
THEOREM RevokedStays == Spec => RevokedIsNotSent
<1>1. Inv /\ [Next]_vars
        => [\A k \in Calls : pc[k] # "calling" /\ pc'[k] = "calling"
              => k \notin refused]_vars
  <2> SUFFICES ASSUME Inv, Next, NEW k \in Calls, pc[k] # "calling", pc'[k] = "calling"
               PROVE  k \notin refused
    OBVIOUS
  <2>1. Gate(k)
    BY OnlyTheGateSends
  <2> QED
    BY <2>1 DEF Gate, Contactable, SameSettings, Inv, CallInv, RefusedIsRevoked
<1> QED
  BY <1>1, SessionsInvariant, PTL DEF Spec, RevokedIsNotSent

\* A session that nobody but the request that set it up knows is not in use.
LEMMA NewIsUnused ==
  ASSUME Inv, NEW r \in Requests, pc[r] \in New
  PROVE  ~InUse(frame[r].sid)
BY DEF InUse, Uses, Inv, SessionInv, NewIsMine, New, Holding

\* Started for one session, teardowns end that session only.
LEMMA StartedOne ==
  ASSUME NEW jobs, StartTeardowns(jobs)
  PROVE  ends' \subseteq ends \cup jobs
BY DEF StartTeardowns

\* The teardowns a step starts end no session in use, but for a lock and the
\* end of the session registered.
Serves == \A j \in ends' \ ends : InUse(j.sid) /\ InUse(j.sid)'
                                    => lockStep = "drain" \/ j \in Registered

LEMMA ReleaseServes ==
  ASSUME NEW r \in Requests, Release(r), RequestsTyped,
         pc' = [pc EXCEPT ![r] = pc'[r]], pc'[r] \notin {"listing", "calling"},
         \A q \in Requests \ {r} : frame'[q] = frame[q]
  PROVE  Serves
<1> SUFFICES ASSUME NEW j \in ends' \ ends PROVE ~InUse(j.sid)'
  BY DEF Serves
<1>1. ~OthersUse(r, j.sid)
  BY StartedOne DEF Release
<1>2. \A q \in Requests \ {r} : Uses(q, j.sid)' <=> Uses(q, j.sid)
  BY DEF Uses, RequestsTyped
<1>3. ~Uses(r, j.sid)'
  BY DEF Uses
<1> QED
  BY <1>1, <1>2, <1>3 DEF InUse, OthersUse

\* Who ends its own session ends the one registered.
LEMMA EndMineServes ==
  ASSUME Inv, NEW r \in Requests, pc[r] \in Holding, EndMine(r)
  PROVE  Serves
<1>1. CASE UNCHANGED ends
  BY <1>1 DEF Serves
<1>2. CASE registry # None /\ registry.sid = frame[r].sid /\ StartTeardowns({Mine(r)})
  <2>1. registry \in AllJobs /\ Registered = {registry} /\ registry \in Jobs
    BY <1>2, RegisteredJobs DEF Inv, Typed, AllJobs
  <2>2. registry.binding = frame[r].binding
    BY <1>2, <2>1 DEF Inv, SessionInv, JobsAsIssued, HeldAsIssued
  <2>3. Mine(r) = registry
    BY <1>2, <2>1, <2>2 DEF Mine, Job, Jobs
  <2> QED
    BY <1>2, <2>1, <2>3, StartedOne DEF Serves
<1> QED
  BY <1>1, <1>2 DEF EndMine

LEMMA RequestsServe ==
  ASSUME Inv, NEW r \in Requests, RequestStep(r) \/ (r \in Calls /\ CallStep(r))
  PROVE  Serves
<1>0. RequestsTyped
  BY DEF Inv, Typed
<1>1. CASE UNCHANGED ends
  BY <1>1 DEF Serves
<1>2. CASE EndMine(r) /\ pc[r] \in Holding
  BY <1>2, EndMineServes
<1>3. CASE Load(r)
  BY <1>1, <1>3 DEF Load
<1>4. CASE SetUp(r) \/ Initialize(r) \/ Initialized(r)
  BY <1>1, <1>4 DEF SetUp, Initialize, Initialized, state
<1>5. CASE pc[r] \in New /\ StartTeardowns({Mine(r)})
  <2>1. \A j \in ends' \ ends : j.sid = frame[r].sid
    BY <1>5, StartedOne DEF Mine, Job
  <2> QED
    BY <1>5, <2>1, NewIsUnused DEF Serves
<1>6. CASE CheckAnswered(r)
  BY <1>1, <1>5, <1>6 DEF CheckAnswered, New
<1>7. CASE Register(r)
  BY <1>1, <1>5, <1>7 DEF Register, New
<1>12. CASE EndOld(r)
  <2>1. CASE ~InUse(old[r].sid) /\ StartTeardowns({old[r]})
    BY <2>1, StartedOne DEF Serves
  <2> QED
    BY <1>1, <1>12, <2>1 DEF EndOld, EndReplaced
<1>8. CASE CheckList(r) \/ Store(r)
  BY <1>1, <1>2, <1>8 DEF CheckList, Store, Holding
<1>9. CASE List(r)
  <2>1. pc' = [pc EXCEPT ![r] = pc'[r]] /\ pc'[r] \in {"store", "setup", "done"}
    BY <1>0, <1>9 DEF List, Go, Forget, Finish, RequestsTyped
  <2>2. \A q \in Requests \ {r} : frame'[q] = frame[q]
    BY <1>0, <1>9 DEF List, Forget, Finish, RequestsTyped
  <2> QED
    BY <1>0, <1>9, <2>1, <2>2, ReleaseServes DEF List
<1>10. CASE GateBeforeCall(r) \/ Refresh(r)
  BY <1>1, <1>2, <1>10 DEF GateBeforeCall, Refresh, Holding
<1>11. CASE Call(r)
  <2>1. pc' = [pc EXCEPT ![r] = pc'[r]] /\ pc'[r] \in {"refresh", "setup", "done"}
    BY <1>0, <1>11 DEF Call, NoAnswer, Go, Forget, Finish, RequestsTyped
  <2>2. \A q \in Requests \ {r} : frame'[q] = frame[q]
    BY <1>0, <1>11 DEF Call, NoAnswer, Forget, Finish, RequestsTyped
  <2> QED
    BY <1>0, <1>11, <2>1, <2>2, ReleaseServes DEF Call
<1> QED
  BY <1>3, <1>4, <1>6, <1>7, <1>8, <1>9, <1>10, <1>11,
     <1>12 DEF RequestStep, CallStep

\* No session is ended under the requests that use it because another took its
\* place (end_replaced, SessionUse).
THEOREM ReplacedSessionsServe == Spec => ReplacedServesItsRequests
<1>1. Inv /\ Next => Serves
  <2> SUFFICES ASSUME Inv, Next PROVE Serves
    OBVIOUS
  <2>1. CASE UNCHANGED ends
    BY <2>1 DEF Serves
  <2>2. ASSUME NEW r \in Requests, RequestStep(r) PROVE Serves
    BY <2>2, RequestsServe
  <2>3. ASSUME NEW k \in Calls, CallStep(k) PROVE Serves
    BY <2>3, RequestsServe DEF Requests
  <2>4. ASSUME NEW j \in ends, TeardownEnds(j) PROVE Serves
    BY <2>4 DEF TeardownEnds, Serves
  <2>5. CASE LockDrain
    BY <2>5 DEF LockDrain, Serves
  <2>6. CASE SaveDrops
    <3>1. CASE StartTeardowns(Registered)
      BY <3>1, StartedOne DEF Serves
    <3> QED
      BY <2>1, <2>6, <3>1 DEF SaveDrops
  <2>7. ASSUME NEW r \in Requests, Begin(r) PROVE UNCHANGED ends
    BY <2>7 DEF Begin, state
  <2>8. ASSUME NEW s \in Sids, Expire(s) PROVE UNCHANGED ends
    BY <2>8 DEF Expire, state
  <2>9. ASSUME NEW b \in Bindings, Save(b) PROVE UNCHANGED ends
    BY <2>9 DEF Save, SaveFrom, state
  <2>10. CASE LockClear \/ LockBump \/ Unlock \/ RemoveTakes \/ RemoveDeletes
    BY <2>1, <2>10 DEF LockClear, LockBump, Unlock, RemoveTakes, RemoveDeletes, state
  <2>11. CASE Allow \/ Decline \/ Toggle
    BY <2>1, <2>11 DEF Allow, Decline, Toggle, state
  <2> QED
    BY <2>1, <2>2, <2>3, <2>4, <2>5, <2>6, <2>7, <2>8, <2>9, <2>10, <2>11
       DEF Next, Progress
<1>2. Inv /\ [Next]_vars
        => [\A j \in ends' \ ends : InUse(j.sid) /\ InUse(j.sid)'
              => lockStep = "drain" \/ j \in Registered]_vars
  BY <1>1 DEF Serves
<1> QED
  BY <1>2, SessionsInvariant, PTL DEF Spec, ReplacedServesItsRequests

=============================================================================
