--------------------------- MODULE McpSessions_life ---------------------------
(***************************************************************************)
(* McpSessions implements SessionLife, for any commands, settings, session  *)
(* ids and bounds.  Every step is one of a few effects on six sets: the     *)
(* session ids handed out, those in the hands of a set-up, registered,      *)
(* taken out of the registry by a request, replaced, and on their way to an *)
(* end.  The effects keep the sets apart, and each of them is a step in the *)
(* lives of the sessions.                                                   *)
(***************************************************************************)
EXTENDS McpSessions_proofs

-----------------------------------------------------------------------------
(* Where the sessions are.                                                  *)

Used == {s \in Sids : issued[s] # None}
SetUpSids == {s \in Sids : InSetUp(s)}
RegisteredSids == {s \in Sids : registry # None /\ registry.sid = s}
DisplacedSids == {s \in Sids : \E j \in InHand : j.sid = s}
ReplacedSids == {s \in Sids : \E j \in deferred : j.sid = s}
EndingSids == {s \in Sids : \E j \in ends \cup taken : j.sid = s}

\* No session is in two places, and every one has been handed out.
OnePlace ==
  /\ SetUpSids \cap (RegisteredSids \cup DisplacedSids \cup ReplacedSids
                     \cup EndingSids) = {}
  /\ RegisteredSids \cap (DisplacedSids \cup ReplacedSids \cup EndingSids) = {}
  /\ DisplacedSids \cap (ReplacedSids \cup EndingSids) = {}
  /\ ReplacedSids \cap EndingSids = {}
  /\ SetUpSids \cup RegisteredSids \cup DisplacedSids \cup ReplacedSids
     \cup EndingSids \subseteq Used

\* A removal takes one session, and no teardown has the same.
TakenApart ==
  /\ \A i, j \in taken : i = j
  /\ \A i \in taken, j \in ends : i.sid # j.sid

\* No two requests took the same session out of the registry.
HandsApart ==
  \A q, r \in Requests :
    q # r /\ old[q] # None /\ old[r] # None => old[q].sid # old[r].sid

PlaceInv == OnePlace /\ TakenApart /\ HandsApart

\* The stage of every session, by the set it is in.
InStages ==
  /\ lives \in [Sids -> Life!Stages]
  /\ \A s \in Sids :
       /\ lives[s] = "unused" <=> s \notin Used
       /\ lives[s] = "new" <=> s \in SetUpSids
       /\ lives[s] = "registered" <=> s \in RegisteredSids
       /\ lives[s] = "displaced" <=> s \in DisplacedSids
       /\ lives[s] = "replaced" <=> s \in ReplacedSids
       /\ lives[s] = "ending" <=> s \in EndingSids

LEMMA StageBySet == OnePlace => InStages
<1> SUFFICES ASSUME OnePlace PROVE InStages
  OBVIOUS
<1>1. ASSUME NEW s \in Sids
      PROVE  lives[s] = IF s \notin Used THEN "unused"
                        ELSE IF s \in SetUpSids THEN "new"
                        ELSE IF s \in RegisteredSids THEN "registered"
                        ELSE IF s \in DisplacedSids THEN "displaced"
                        ELSE IF s \in ReplacedSids THEN "replaced"
                        ELSE IF s \in EndingSids THEN "ending" ELSE "over"
  BY DEF lives, Stage, Used, SetUpSids, RegisteredSids, DisplacedSids, ReplacedSids,
         EndingSids, OnePlace
<1>2. lives = [s \in Sids |-> lives[s]]
  BY DEF lives
<1>3. lives \in [Sids -> Life!Stages]
  BY <1>1, <1>2 DEF Life!Stages
<1>4. ASSUME NEW s \in Sids
      PROVE  /\ lives[s] = "unused" <=> s \notin Used
             /\ lives[s] = "new" <=> s \in SetUpSids
             /\ lives[s] = "registered" <=> s \in RegisteredSids
             /\ lives[s] = "displaced" <=> s \in DisplacedSids
             /\ lives[s] = "replaced" <=> s \in ReplacedSids
             /\ lives[s] = "ending" <=> s \in EndingSids
  BY <1>1 DEF OnePlace
<1> QED
  BY <1>3, <1>4 DEF InStages

LEMMA StageBySetNext == OnePlace' => InStages'
BY StageBySet, PTL

-----------------------------------------------------------------------------
(* What a step can do to the sets.                                          *)

\* Sessions in S left where they were; each is on its way to an end, or has none.
EndsAmong(S) == EndingSids \subseteq EndingSids' /\ EndingSids' \subseteq EndingSids \cup S

Untouched ==
  /\ Used' = Used /\ SetUpSids' = SetUpSids /\ RegisteredSids' = RegisteredSids
  /\ DisplacedSids' = DisplacedSids /\ ReplacedSids' = ReplacedSids
  /\ EndingSids' = EndingSids

\* The server issues a session; its set-up may learn of it.
Issues(s) ==
  /\ s \in Sids \ Used
  /\ Used' = Used \cup {s} /\ SetUpSids' \in {SetUpSids, SetUpSids \cup {s}}
  /\ RegisteredSids' = RegisteredSids /\ DisplacedSids' = DisplacedSids
  /\ ReplacedSids' = ReplacedSids /\ EndingSids' = EndingSids

Discards(s) ==
  /\ s \in SetUpSids
  /\ Used' = Used /\ SetUpSids' = SetUpSids \ {s}
  /\ RegisteredSids' = RegisteredSids /\ DisplacedSids' = DisplacedSids
  /\ ReplacedSids' = ReplacedSids /\ EndsAmong({s})

Registers(s) ==
  /\ s \in SetUpSids
  /\ Used' = Used /\ SetUpSids' = SetUpSids \ {s}
  /\ RegisteredSids' = {s} /\ DisplacedSids' = DisplacedSids \cup RegisteredSids
  /\ ReplacedSids' = ReplacedSids /\ EndingSids' = EndingSids

Retires ==
  /\ Used' = Used /\ SetUpSids' = SetUpSids
  /\ RegisteredSids' = {} /\ DisplacedSids' = DisplacedSids \cup RegisteredSids
  /\ ReplacedSids' = ReplacedSids /\ EndingSids' = EndingSids

MakesWay(s) ==
  /\ s \in DisplacedSids /\ DisplacedSids' = DisplacedSids \ {s}
  /\ Used' = Used /\ SetUpSids' = SetUpSids /\ RegisteredSids' = RegisteredSids
  /\ \/ /\ InUse(s) /\ ReplacedSids' = ReplacedSids \cup {s}
        /\ EndingSids' = EndingSids
     \/ ~InUse(s) /\ ReplacedSids' = ReplacedSids /\ EndsAmong({s})

EndsRegistered ==
  /\ Used' = Used /\ SetUpSids' = SetUpSids /\ RegisteredSids' = {}
  /\ DisplacedSids' = DisplacedSids /\ ReplacedSids' = ReplacedSids
  /\ EndsAmong(RegisteredSids)

EndsAll ==
  /\ Used' = Used /\ SetUpSids' = SetUpSids
  /\ RegisteredSids' = {} /\ DisplacedSids' = DisplacedSids /\ ReplacedSids' = {}
  /\ EndsAmong(RegisteredSids \cup ReplacedSids)

IsOver(s) ==
  /\ s \in EndingSids /\ EndingSids' = EndingSids \ {s}
  /\ Used' = Used /\ SetUpSids' = SetUpSids /\ RegisteredSids' = RegisteredSids
  /\ DisplacedSids' = DisplacedSids /\ ReplacedSids' = ReplacedSids

\* The request leaves its session; the registry may forget that session.
Leaves(r) ==
  LET s == frame[r].sid
      due == IF OthersUse(r, s) THEN {} ELSE {s} \cap ReplacedSids
  IN /\ Used' = Used /\ SetUpSids' = SetUpSids
     /\ RegisteredSids' \in {RegisteredSids, RegisteredSids \ {s}}
     /\ DisplacedSids' = DisplacedSids /\ ReplacedSids' = ReplacedSids \ due
     /\ EndsAmong(due)

\* Only one session is registered.
LEMMA OneRegistered ==
  ASSUME NEW s \in RegisteredSids PROVE RegisteredSids = {s}
BY DEF RegisteredSids

\* Every effect keeps the sets apart.
LEMMA EffectsKeepPlaces ==
  ASSUME OnePlace,
         \/ Untouched \/ Retires \/ EndsRegistered \/ EndsAll
         \/ \E s \in Sids : \/ Issues(s) \/ Discards(s) \/ Registers(s)
                        \/ MakesWay(s) \/ IsOver(s)
         \/ \E r \in Requests : Leaves(r)
  PROVE  OnePlace'
<1>1. CASE Untouched
  BY <1>1 DEF OnePlace, Untouched
<1>2. CASE Retires
  BY <1>2 DEF OnePlace, Retires
<1>3. CASE EndsRegistered
  BY <1>3 DEF OnePlace, EndsRegistered, EndsAmong
<1>4. CASE EndsAll
  BY <1>4 DEF OnePlace, EndsAll, EndsAmong
<1>5. ASSUME NEW s \in Sids, Issues(s) PROVE OnePlace'
  BY <1>5 DEF OnePlace, Issues
<1>6. ASSUME NEW s \in Sids, Discards(s) PROVE OnePlace'
  BY <1>6 DEF OnePlace, Discards, EndsAmong
<1>7. ASSUME NEW s \in Sids, Registers(s) PROVE OnePlace'
  BY <1>7 DEF OnePlace, Registers
<1>8. ASSUME NEW s \in Sids, IsOver(s) PROVE OnePlace'
  BY <1>8 DEF OnePlace, IsOver
<1>9. ASSUME NEW r \in Requests, Leaves(r) PROVE OnePlace'
  BY <1>9 DEF OnePlace, Leaves, EndsAmong
<1>10. ASSUME NEW s \in Sids, MakesWay(s) PROVE OnePlace'
  BY <1>10 DEF OnePlace, MakesWay, EndsAmong
<1> QED
  BY <1>1, <1>2, <1>3, <1>4, <1>5, <1>6, <1>7, <1>8, <1>9, <1>10

-----------------------------------------------------------------------------
(* The effects as steps of SessionLife.                                     *)

\* Sessions go on, and every request stays where it is.
LifeStep ==
  \/ lives' = lives
  \/ \E s \in Sids : Life!Issue(s) \/ Life!Register(s) \/ Life!Retire(s)
                     \/ Life!MakeWay(s) \/ Life!End(s) \/ Life!Over(s)
  \/ Life!Lock

LEMMA LifeStepSuffices ==
  ASSUME LifeStep, serving' = serving
  PROVE  [Life!Next]_(Life!vars)
BY DEF LifeStep, Life!Next, Life!vars

\* A session and no other goes on to a stage.
LEMMA GoesTo ==
  ASSUME InStages, InStages', NEW s \in Sids, NEW stage,
         \A t \in Sids : lives'[t] = IF t = s THEN stage ELSE lives[t]
  PROVE  lives' = [lives EXCEPT ![s] = stage]
BY DEF InStages

\* Whom the requests use, in the two specifications.
LEMMA Servings ==
  ASSUME RequestsTyped
  PROVE  /\ serving \in [Requests -> Sids \cup {None}]
         /\ \A r \in Requests : serving[r] = IF pc[r] \in {"listing", "calling"}
                                            THEN frame[r].sid ELSE None
         /\ \A s \in Sids : InUse(s) <=> Life!InUse(s)
<1>1. \A r \in Requests : serving[r] = IF pc[r] \in {"listing", "calling"}
                                      THEN frame[r].sid ELSE None
  BY DEF serving
<1>2. serving \in [Requests -> Sids \cup {None}]
  BY DEF RequestsTyped, Frames, serving
<1>3. ASSUME NEW s \in Sids PROVE InUse(s) <=> Life!InUse(s)
  BY <1>1, Names DEF InUse, Uses, Life!InUse
<1> QED
  BY <1>1, <1>2, <1>3

LEMMA UntouchedLife ==
  ASSUME InStages, InStages', Untouched PROVE LifeStep
<1>1. \A s \in Sids : lives'[s] = lives[s]
  BY DEF InStages, Untouched, Life!Stages
<1> QED
  BY <1>1 DEF InStages, LifeStep

LEMMA IssuesLife ==
  ASSUME InStages, InStages', OnePlace, OnePlace', NEW s \in Sids, Issues(s)
  PROVE  LifeStep
<1>1. lives[s] = "unused"
  BY DEF InStages, Issues
<1>2. \A t \in Sids \ {s} : lives'[t] = lives[t]
  BY DEF InStages, Issues, Life!Stages
<1>3. lives'[s] \in {"new", "over"}
  <2>1. s \notin RegisteredSids' \cup DisplacedSids' \cup ReplacedSids' \cup EndingSids'
    BY DEF Issues, OnePlace
  <2>2. s \in Used'
    BY DEF Issues
  <2> QED
    BY <2>1, <2>2 DEF InStages, Life!Stages
<1>4. lives' = [lives EXCEPT ![s] = lives'[s]]
  BY <1>2, GoesTo
<1> QED
  BY <1>1, <1>3, <1>4 DEF LifeStep, Life!Issue

\* A session whose end starts is on its way to it, or there is none to come.
LEMMA EndStage ==
  ASSUME InStages', OnePlace', NEW s \in Sids, s \in Used',
         s \notin SetUpSids' \cup RegisteredSids' \cup DisplacedSids' \cup ReplacedSids'
  PROVE  lives'[s] \in Life!Ended
BY DEF InStages, Life!Stages, Life!Ended

LEMMA DiscardsLife ==
  ASSUME InStages, InStages', OnePlace, OnePlace', NEW s \in Sids, Discards(s)
  PROVE  LifeStep
<1>1. \A t \in Sids \ {s} : lives'[t] = lives[t]
  BY DEF InStages, Discards, EndsAmong, Life!Stages
<1>2. lives[s] = "new"
  BY DEF InStages, Discards
<1>3. lives'[s] \in Life!Ended
  BY EndStage DEF Discards, OnePlace
<1>4. lives' = [lives EXCEPT ![s] = lives'[s]]
  BY <1>1, GoesTo
<1> QED
  BY <1>2, <1>3, <1>4 DEF LifeStep, Life!End

LEMMA EndsRegisteredLife ==
  ASSUME InStages, InStages', OnePlace, OnePlace', EndsRegistered
  PROVE  LifeStep
<1>1. CASE RegisteredSids = {}
  BY <1>1, UntouchedLife DEF EndsRegistered, EndsAmong, Untouched
<1>2. ASSUME NEW s \in RegisteredSids PROVE LifeStep
  <2>1. s \in Sids /\ RegisteredSids = {s} /\ lives[s] = "registered"
    BY OneRegistered DEF RegisteredSids, InStages
  <2>2. \A t \in Sids \ {s} : lives'[t] = lives[t]
    BY <2>1 DEF InStages, EndsRegistered, EndsAmong, Life!Stages
  <2>3. lives'[s] \in Life!Ended
    BY <2>1, EndStage DEF EndsRegistered, OnePlace
  <2>4. lives' = [lives EXCEPT ![s] = lives'[s]]
    BY <2>1, <2>2, GoesTo
  <2> QED
    BY <2>1, <2>3, <2>4 DEF LifeStep, Life!End
<1> QED
  BY <1>1, <1>2

LEMMA EndsAllLife ==
  ASSUME InStages, InStages', OnePlace, OnePlace', EndsAll
  PROVE  LifeStep
<1>1. ASSUME NEW s \in Sids
      PROVE  IF lives[s] \in {"registered", "replaced"}
             THEN lives'[s] \in Life!Ended ELSE lives'[s] = lives[s]
  <2>1. CASE lives[s] \in {"registered", "replaced"}
    BY <2>1, EndStage DEF EndsAll, OnePlace, InStages
  <2>2. CASE lives[s] \notin {"registered", "replaced"}
    BY <2>2 DEF InStages, EndsAll, EndsAmong, Life!Stages
  <2> QED
    BY <2>1, <2>2
<1> QED
  BY <1>1 DEF InStages, LifeStep, Life!Lock

LEMMA IsOverLife ==
  ASSUME InStages, InStages', OnePlace, OnePlace', NEW s \in Sids, IsOver(s)
  PROVE  LifeStep
<1>1. \A t \in Sids : lives'[t] = IF t = s THEN "over" ELSE lives[t]
  BY DEF InStages, IsOver, OnePlace, Life!Stages
<1>2. lives[s] = "ending"
  BY DEF InStages, IsOver
<1> QED
  BY <1>1, <1>2, GoesTo DEF LifeStep, Life!Over

LEMMA MakesWayLife ==
  ASSUME RequestsTyped, InStages, InStages', OnePlace, OnePlace', NEW s \in Sids,
         MakesWay(s)
  PROVE  LifeStep
<1>1. lives[s] = "displaced"
  BY DEF InStages, MakesWay
<1>2. \A t \in Sids \ {s} : lives'[t] = lives[t]
  BY DEF InStages, MakesWay, EndsAmong, Life!Stages
<1>3. lives' = [lives EXCEPT ![s] = lives'[s]]
  BY <1>2, GoesTo
<1>4. CASE InUse(s)
  <2>1. lives'[s] = "replaced"
    BY <1>4 DEF InStages, MakesWay
  <2> QED
    BY <1>1, <1>3, <1>4, <2>1, Servings DEF LifeStep, Life!MakeWay
<1>5. CASE ~InUse(s)
  <2>1. lives'[s] \in Life!Ended
    BY <1>5, EndStage DEF OnePlace, MakesWay
  <2> QED
    BY <1>1, <1>3, <1>5, <2>1, Servings DEF LifeStep, Life!MakeWay
<1> QED
  BY <1>4, <1>5

LEMMA RetiresLife ==
  ASSUME InStages, InStages', OnePlace, OnePlace', Retires
  PROVE  LifeStep
<1>1. CASE RegisteredSids = {}
  BY <1>1, UntouchedLife DEF Retires, Untouched
<1>2. ASSUME NEW t \in RegisteredSids PROVE LifeStep
  <2>1. t \in Sids /\ RegisteredSids = {t} /\ lives[t] = "registered"
    BY OneRegistered DEF RegisteredSids, InStages
  <2>2. \A u \in Sids : lives'[u] = IF u = t THEN "displaced" ELSE lives[u]
    BY <2>1 DEF InStages, Retires, Life!Stages
  <2>3. lives' = [lives EXCEPT ![t] = "displaced"]
    BY <2>1, <2>2, GoesTo
  <2> QED
    BY <2>1, <2>3 DEF LifeStep, Life!Retire
<1> QED
  BY <1>1, <1>2

LEMMA RegistersLife ==
  ASSUME InStages, InStages', OnePlace, OnePlace', NEW s \in Sids, Registers(s)
  PROVE  LifeStep
<1>1. lives[s] = "new" /\ lives'[s] = "registered"
  BY DEF InStages, Registers
<1>2. \A t \in Sids \ {s} : lives[t] = "registered" => lives'[t] = "displaced"
  BY DEF InStages, Registers
<1>3. \A t \in Sids \ {s} : lives[t] # "registered" => lives'[t] = lives[t]
  BY DEF InStages, Registers, Life!Stages
<1>4. lives' = [t \in Sids |-> CASE t = s -> "registered"
                                 [] lives[t] = "registered" -> "displaced"
                                 [] OTHER -> lives[t]]
  BY <1>1, <1>2, <1>3 DEF InStages
<1> QED
  BY <1>1, <1>4 DEF LifeStep, Life!Register

-----------------------------------------------------------------------------
(* From what a step does to the variables to its effect.                    *)

Serving == {"listing", "calling"}

\* A step is one of SessionLife, or none, and every session stays in one place.
LivesOn == PlaceInv' /\ [Life!Next]_(Life!vars)

LEMMA EffectLivesOn ==
  ASSUME RequestsTyped, PlaceInv, TakenApart', old' = old \/ HandsApart',
         serving' = serving,
         \/ Untouched \/ Retires \/ EndsRegistered \/ EndsAll
         \/ \E s \in Sids : \/ Issues(s) \/ Discards(s) \/ Registers(s)
                        \/ MakesWay(s) \/ IsOver(s)
  PROVE  LivesOn
<1>1. OnePlace /\ OnePlace'
  BY EffectsKeepPlaces DEF PlaceInv
<1>2. InStages /\ InStages'
  BY <1>1, StageBySet, StageBySetNext
<1>3. LifeStep
  BY <1>1, <1>2, UntouchedLife, RetiresLife, EndsRegisteredLife, EndsAllLife,
     IssuesLife, DiscardsLife, RegistersLife, MakesWayLife, IsOverLife
<1>4. HandsApart'
  BY DEF PlaceInv, HandsApart
<1> QED
  BY <1>1, <1>3, <1>4, LifeStepSuffices DEF LivesOn, PlaceInv

\* Only the request moves.
Alone(r) == \A q \in Requests \ {r} : pc'[q] = pc[q] /\ frame'[q] = frame[q]

LEMMA MovedAlone ==
  ASSUME RequestsTyped, NEW r \in Requests, GoesOn(r)
  PROVE  /\ Alone(r)
         /\ pc'[r] \in New => pc[r] \in New /\ frame'[r].sid = frame[r].sid
BY DEF GoesOn, Moved, Along, Alone, RequestsTyped, New, Holding

LEMMA SetUpSidsStay ==
  ASSUME NEW r \in Requests, Alone(r),
         pc[r] \in New <=> pc'[r] \in New,
         pc[r] \in New => frame'[r].sid = frame[r].sid
  PROVE  SetUpSids' = SetUpSids
BY DEF Alone, SetUpSids, InSetUp, New

LEMMA SetUpSidsLeave ==
  ASSUME Inv, NEW r \in Requests, Alone(r), pc[r] \in New, pc'[r] \notin New
  PROVE  /\ SetUpSids' = SetUpSids \ {frame[r].sid}
         /\ frame[r].sid \in SetUpSids
<1>1. frame[r].sid \in Sids
  BY DEF Inv, SessionInv, HeldAsIssued, New, Holding
<1>2. \A q \in Requests \ {r} : pc[q] \in New => frame[q].sid # frame[r].sid
  BY DEF Inv, SessionInv, NewIsMine, New, Holding
<1> QED
  BY <1>1, <1>2 DEF Alone, SetUpSids, InSetUp, New

LEMMA ServingStays ==
  ASSUME NEW r \in Requests, Alone(r), pc[r] \notin Serving, pc'[r] \notin Serving
  PROVE  serving' = serving
BY DEF Alone, serving, Serving

LEMMA NobodyMoves ==
  ASSUME UNCHANGED <<pc, frame>>
  PROVE  SetUpSids' = SetUpSids /\ serving' = serving
BY DEF SetUpSids, InSetUp, serving

LEMMA StateStays ==
  ASSUME TakenApart, UNCHANGED <<registry, deferred, old, ends, taken>>
  PROVE  /\ RegisteredSids' = RegisteredSids /\ DisplacedSids' = DisplacedSids
         /\ ReplacedSids' = ReplacedSids /\ EndingSids' = EndingSids /\ TakenApart'
BY DEF RegisteredSids, DisplacedSids, InHand, ReplacedSids, EndingSids, TakenApart

\* The jobs that are registered or replaced, by their ids.
LEMMA SidsOfJobs ==
  ASSUME SessionsTyped
  PROVE  /\ SidsOf(Registered) = RegisteredSids
         /\ SidsOf(deferred) = ReplacedSids
         /\ Registered \subseteq Jobs /\ deferred \subseteq Jobs
<1>1. Registered \subseteq Jobs
  BY RegisteredJobs
<1>2. SidsOf(Registered) = RegisteredSids
  BY RegisteredJobs DEF SidsOf, RegisteredSids, SessionsTyped, Jobs
<1>3. deferred \subseteq Jobs /\ SidsOf(deferred) = ReplacedSids
  BY DEF SessionsTyped, SidsOf, ReplacedSids, Jobs
<1> QED
  BY <1>1, <1>2, <1>3

\* Teardowns are started for sessions that had none.
LEMMA TeardownsAmong ==
  ASSUME EndsTyped, TakenApart, taken' = taken, NEW jobs, jobs \subseteq Jobs,
         StartTeardowns(jobs), SidsOf(jobs) \cap EndingSids = {}
  PROVE  EndsAmong(SidsOf(jobs)) /\ TakenApart'
<1>1. ends \subseteq ends' /\ ends' \subseteq ends \cup jobs
  BY DEF StartTeardowns
<1>2. \A j \in jobs : j.sid \in Sids /\ j.sid \in SidsOf(jobs)
  BY DEF Jobs, SidsOf
<1>3. EndsAmong(SidsOf(jobs))
  BY <1>1, <1>2 DEF EndsAmong, EndingSids
<1>4. \A i \in taken, j \in jobs : i.sid # j.sid
  BY <1>2 DEF EndingSids
<1>5. TakenApart'
  BY <1>1, <1>4 DEF TakenApart
<1> QED
  BY <1>3, <1>5

LEMMA NoTeardowns ==
  ASSUME TakenApart, UNCHANGED <<ends, taken>>
  PROVE  EndingSids' = EndingSids /\ TakenApart'
BY DEF EndingSids, TakenApart

\* The registered session goes into the hands of a request that has none.
LEMMA TakesOld ==
  ASSUME SessionsTyped, HandsTyped, PlaceInv, NEW r \in Requests, old[r] = None,
         old' = [old EXCEPT ![r] = registry]
  PROVE  DisplacedSids' = DisplacedSids \cup RegisteredSids /\ HandsApart'
<1>1. old'[r] = registry /\ \A q \in Requests \ {r} : old'[q] = old[q]
  BY DEF HandsTyped
<1>2. InHand' = InHand \cup ({registry} \ {None})
  BY <1>1 DEF InHand
<1>3. DisplacedSids' = DisplacedSids \cup RegisteredSids
  BY <1>2 DEF DisplacedSids, RegisteredSids
<1>4. ASSUME NEW q \in Requests \ {r}, old[q] # None, registry # None
      PROVE  old[q].sid # registry.sid
  <2>1. registry.sid \in RegisteredSids
    BY <1>4 DEF RegisteredSids, SessionsTyped, Jobs
  <2>2. old[q].sid \in DisplacedSids
    BY <1>4 DEF DisplacedSids, InHand, HandsTyped, Jobs
  <2> QED
    BY <2>1, <2>2 DEF PlaceInv, OnePlace
<1>5. HandsApart'
  BY <1>1, <1>4 DEF HandsApart, PlaceInv
<1> QED
  BY <1>3, <1>5

-----------------------------------------------------------------------------
(* The steps of a request.                                                  *)

\* What follows needs of the invariant.
LEMMA Parts ==
  ASSUME Inv, PlaceInv
  PROVE  /\ RequestsTyped /\ SessionsTyped /\ EndsTyped /\ HandsTyped
         /\ HeldAsIssued /\ NewIsMine
         /\ TakenApart /\ HandsApart /\ OnePlace
BY DEF Inv, Typed, SessionInv, PlaceInv

\* A step that leaves the sessions as they are.
LEMMA QuietLivesOn ==
  ASSUME Inv, PlaceInv, UNCHANGED <<registry, deferred, old, ends, taken, issued>>,
         SetUpSids' = SetUpSids, serving' = serving
  PROVE  LivesOn
<1>1. Untouched /\ TakenApart'
  BY Parts, StateStays DEF Untouched, Used
<1> QED
  BY <1>1, Parts, EffectLivesOn

\* A request that is on no session and has none in its hands.
LEMMA QuietRequest ==
  ASSUME Inv, PlaceInv, NEW r \in Requests, Alone(r),
         pc[r] \notin New \cup Serving, pc'[r] \notin New \cup Serving,
         UNCHANGED <<registry, deferred, old, ends, taken, issued>>
  PROVE  LivesOn
BY QuietLivesOn, SetUpSidsStay, ServingStays

\* end_ctx_session.
LEMMA EndMineLivesOn ==
  ASSUME Inv, PlaceInv, NEW r \in Requests, Alone(r),
         pc[r] \in Holding \ (New \cup Serving), pc'[r] \notin New \cup Serving,
         EndMine(r), UNCHANGED <<deferred, old, taken, issued>>
  PROVE  LivesOn
<1>1. CASE UNCHANGED <<registry, ends>>
  BY <1>1, QuietRequest
<1>2. CASE registry # None /\ registry.sid = frame[r].sid /\ registry' = None
           /\ StartTeardowns({Mine(r)})
  <2>1. frame[r].sid \in Sids /\ RegisteredSids = {frame[r].sid}
    BY <1>2, Parts DEF HeldAsIssued, RegisteredSids
  <2>2. {Mine(r)} \subseteq Jobs /\ SidsOf({Mine(r)}) = RegisteredSids
    BY <2>1, Parts, MineIsJob DEF SidsOf
  <2>3. EndsAmong(RegisteredSids) /\ TakenApart'
    BY <1>2, <2>2, Parts, TeardownsAmong DEF OnePlace
  <2>4. /\ RegisteredSids' = {} /\ DisplacedSids' = DisplacedSids
        /\ ReplacedSids' = ReplacedSids /\ Used' = Used
    BY <1>2 DEF RegisteredSids, DisplacedSids, InHand, ReplacedSids, Used
  <2>5. EndsRegistered
    BY <2>3, <2>4, SetUpSidsStay DEF EndsRegistered
  <2> QED
    BY <2>3, <2>5, Parts, ServingStays, EffectLivesOn
<1> QED
  BY <1>1, <1>2 DEF EndMine

LEMMA BeginLives ==
  ASSUME Inv, PlaceInv, NEW r \in Requests, Begin(r)
  PROVE  LivesOn
<1>1. Alone(r) /\ pc[r] = "idle" /\ pc'[r] = "load"
  BY Parts DEF Begin, Go, Alone, RequestsTyped
<1> QED
  BY <1>1, QuietRequest DEF Begin, state, server, New, Serving

LEMMA LoadLives ==
  ASSUME Inv, PlaceInv, NEW r \in Requests, Load(r)
  PROVE  LivesOn
<1>1. Alone(r) /\ pc[r] = "load" /\ pc'[r] \in {"gate", "setup", "retiring"}
  BY Parts DEF Load, Go, Alone, RequestsTyped
<1>2. UNCHANGED <<deferred, ends, taken, issued>>
  BY DEF Load, server
<1>3. CASE UNCHANGED <<registry, old>>
  BY <1>1, <1>2, <1>3, QuietRequest DEF New, Serving
<1>4. CASE registry' = None /\ old' = [old EXCEPT ![r] = registry]
  <2>1. old[r] = None
    BY <1>1, Parts DEF HandsTyped, Taking
  <2>2. DisplacedSids' = DisplacedSids \cup RegisteredSids /\ HandsApart'
    BY <1>4, <2>1, Parts, TakesOld
  <2>3. RegisteredSids' = {} /\ Used' = Used /\ ReplacedSids' = ReplacedSids
    BY <1>2, <1>4 DEF RegisteredSids, Used, ReplacedSids
  <2>4. SetUpSids' = SetUpSids /\ serving' = serving
    BY <1>1, SetUpSidsStay, ServingStays DEF New, Serving
  <2>5. Retires /\ TakenApart'
    BY <1>2, <2>2, <2>3, <2>4, Parts, NoTeardowns DEF Retires
  <2> QED
    BY <2>2, <2>4, <2>5, Parts, EffectLivesOn
<1> QED
  BY <1>3, <1>4 DEF Load

LEMMA SetUpLives ==
  ASSUME Inv, PlaceInv, NEW r \in Requests, SetUp(r)
  PROVE  LivesOn
<1>1. Alone(r)
  BY Parts, SetUpGoesOn, MovedAlone
<1>2. pc[r] = "setup" /\ pc'[r] \in {"init", "setup", "done"}
  BY Parts DEF SetUp, SetUpFails, Refused, Finish, Go, RequestsTyped
<1> QED
  BY <1>1, <1>2, QuietRequest DEF SetUp, state, server, New, Serving

LEMMA InitializeLives ==
  ASSUME Inv, PlaceInv, NEW r \in Requests, Initialize(r)
  PROVE  LivesOn
<1>0. Alone(r) /\ pc[r] = "init" /\ UNCHANGED <<registry, deferred, old, ends, taken>>
  BY Parts DEF Initialize, SetUpFails, Refused, Finish, Go, Alone, RequestsTyped, state
<1>1. ASSUME SetUpFails(r, None)
      PROVE  pc'[r] \in {"setup", "done"} /\ SetUpSids' = SetUpSids /\ serving' = serving
  <2>1. pc'[r] \in {"setup", "done"}
    BY <1>1, Parts DEF SetUpFails, Refused, Finish, Go, RequestsTyped
  <2> QED
    BY <1>0, <2>1, SetUpSidsStay, ServingStays DEF New, Serving
<1>2. CASE SetUpFails(r, None) /\ UNCHANGED server
  BY <1>0, <1>1, <1>2, QuietLivesOn DEF server
<1>3. ASSUME NEW s \in Sids, Issue(r), s = NewSid,
             SetUpSids' \in {SetUpSids, SetUpSids \cup {s}}, serving' = serving
      PROVE  LivesOn
  <2>1. issued[s] = None /\ issued' = [issued EXCEPT ![s] = frame[r].binding]
    BY <1>3 DEF Issue, NewSid
  <2>2. frame[r].binding # None
    BY Parts, Names DEF RequestsTyped, Frames
  <2>3. s \in Sids \ Used /\ Used' = Used \cup {s}
    BY <2>1, <2>2 DEF Inv, Typed, ServerTyped, Used
  <2>4. Issues(s) /\ TakenApart'
    BY <1>0, <1>3, <2>3, Parts, StateStays DEF Issues
  <2> QED
    BY <1>0, <1>3, <2>4, Parts, EffectLivesOn
<1>4. Issue(r) => NewSid \in Sids
  BY DEF Issue, NewSid
<1>5. CASE Issue(r) /\ SetUpFails(r, None)
  BY <1>1, <1>3, <1>4, <1>5
<1>6. CASE /\ Issue(r) /\ Go(r, "answered")
           /\ frame' = [frame EXCEPT ![r].sid = NewSid, ![r].setUp = TRUE]
  <2> DEFINE s == NewSid
  <2>1. s \in Sids
    BY <1>4, <1>6
  <2> HIDE DEF s
  <2>2. pc'[r] = "answered" /\ frame'[r].sid = s
    BY <1>6, Parts DEF s, Go, RequestsTyped, Frames
  <2>3. SetUpSids' = SetUpSids \cup {s}
    BY <1>0, <2>1, <2>2 DEF SetUpSids, InSetUp, Alone
  <2>4. serving' = serving
    BY <1>0, <2>2, ServingStays DEF Serving
  <2> QED
    BY <1>3, <1>6, <2>1, <2>3, <2>4 DEF s
<1> QED
  BY <1>2, <1>5, <1>6 DEF Initialize

\* A session that was set up and may not be registered.
LEMMA DiscardLives ==
  ASSUME Inv, PlaceInv, NEW r \in Requests, Alone(r), pc[r] \in New,
         pc'[r] \notin New \cup Serving, StartTeardowns({Mine(r)}),
         UNCHANGED <<registry, deferred, old, taken, issued>>
  PROVE  LivesOn
<1> DEFINE s == frame[r].sid
<1>1. /\ s \in SetUpSids /\ SetUpSids' = SetUpSids \ {s} /\ s \in Sids
  BY SetUpSidsLeave DEF SetUpSids
<1>2. {Mine(r)} \subseteq Jobs /\ SidsOf({Mine(r)}) = {s}
  BY <1>1, Parts, MineIsJob DEF SidsOf
<1>3. EndsAmong({s}) /\ TakenApart'
  BY <1>1, <1>2, Parts, TeardownsAmong DEF OnePlace
<1>4. /\ RegisteredSids' = RegisteredSids /\ DisplacedSids' = DisplacedSids
      /\ ReplacedSids' = ReplacedSids /\ Used' = Used
  BY DEF RegisteredSids, DisplacedSids, InHand, ReplacedSids, Used
<1>5. Discards(s)
  BY <1>1, <1>3, <1>4 DEF Discards
<1>6. serving' = serving
  BY ServingStays DEF New, Serving
<1> QED
  BY <1>1, <1>3, <1>5, <1>6, Parts, EffectLivesOn

LEMMA CheckAnsweredLives ==
  ASSUME Inv, PlaceInv, NEW r \in Requests, CheckAnswered(r)
  PROVE  LivesOn
<1>0. /\ Alone(r) /\ pc[r] = "answered"
      /\ UNCHANGED <<registry, deferred, old, taken, issued>>
  BY Parts, CheckAnsweredGoesOn, MovedAlone DEF CheckAnswered, server
<1>1. CASE Go(r, "register") /\ UNCHANGED <<frame, ends, left>>
  <2>1. pc'[r] = "register"
    BY <1>1, Parts DEF Go, RequestsTyped
  <2>2. SetUpSids' = SetUpSids /\ serving' = serving
    BY <1>0, <1>1, <2>1, SetUpSidsStay, ServingStays DEF New, Serving
  <2> QED
    BY <1>0, <1>1, <2>2, QuietLivesOn
<1>2. CASE Finish(r) /\ StartTeardowns({Mine(r)})
  <2>1. pc'[r] = "done"
    BY <1>2, Parts DEF Finish, RequestsTyped
  <2> QED
    BY <1>0, <1>2, <2>1, DiscardLives DEF New, Serving
<1> QED
  BY <1>1, <1>2 DEF CheckAnswered

LEMMA RegisterLives ==
  ASSUME Inv, PlaceInv, NEW r \in Requests, Register(r)
  PROVE  LivesOn
<1>0. /\ Alone(r) /\ pc[r] = "register" /\ UNCHANGED <<deferred, taken, issued>>
  BY Parts, RegisterGoesOn, MovedAlone DEF Register, server
<1>1. CASE /\ registry' = Mine(r) /\ old' = [old EXCEPT ![r] = registry]
           /\ Go(r, IF registry = None THEN "registered" ELSE "replacing")
           /\ UNCHANGED ends
  <2> DEFINE s == frame[r].sid
  <2>1. pc'[r] \in {"registered", "replacing"}
    BY <1>1, Parts DEF Go, RequestsTyped
  <2>2. s \in SetUpSids /\ SetUpSids' = SetUpSids \ {s} /\ s \in Sids
    BY <1>0, <2>1, SetUpSidsLeave DEF SetUpSids, New
  <2>3. RegisteredSids' = {s} /\ Used' = Used /\ ReplacedSids' = ReplacedSids
    BY <1>0, <1>1, <2>2, Parts, MineIsJob DEF RegisteredSids, Used, ReplacedSids
  <2>4. old[r] = None
    BY <1>0, Parts DEF HandsTyped, Taking
  <2>5. DisplacedSids' = DisplacedSids \cup RegisteredSids /\ HandsApart'
    BY <1>1, <2>4, Parts, TakesOld
  <2>6. Registers(s) /\ TakenApart'
    BY <1>0, <1>1, <2>2, <2>3, <2>5, Parts, NoTeardowns DEF Registers
  <2>7. serving' = serving
    BY <1>0, <2>1, ServingStays DEF Serving
  <2> QED
    BY <2>2, <2>5, <2>6, <2>7, Parts, EffectLivesOn
<1>2. CASE StartTeardowns({Mine(r)}) /\ Finish(r) /\ UNCHANGED <<registry, old>>
  <2>1. pc'[r] = "done"
    BY <1>2, Parts DEF Finish, RequestsTyped
  <2> QED
    BY <1>0, <1>2, <2>1, DiscardLives DEF New, Serving
<1> QED
  BY <1>1, <1>2 DEF Register

\* end_replaced: the session in the request's hands makes way.
LEMMA EndOldLives ==
  ASSUME Inv, PlaceInv, NEW r \in Requests, EndOld(r)
  PROVE  LivesOn
<1> DEFINE s == old[r].sid
<1>1. /\ Alone(r) /\ pc[r] \in Taking /\ pc'[r] \notin New \cup Serving
      /\ UNCHANGED <<registry, taken, issued>>
      /\ old' = [old EXCEPT ![r] = None] /\ EndReplaced(old[r])
  BY Parts DEF EndOld, Go, Alone, RequestsTyped, Taking, New, Serving, server
<1>2. old[r] \in Jobs /\ old[r] \in InHand /\ s \in Sids /\ s \in DisplacedSids
  BY <1>1, Parts DEF HandsTyped, InHand, DisplacedSids, Jobs
<1>3. old'[r] = None /\ \A q \in Requests \ {r} : old'[q] = old[q]
  BY <1>1, Parts DEF HandsTyped
<1>4. HandsApart'
  BY <1>3, Parts DEF HandsApart
<1>5. DisplacedSids' = DisplacedSids \ {s}
  <2>1. \A j \in InHand' : j \in InHand /\ j.sid # s
    BY <1>2, <1>3, Parts DEF InHand, HandsApart
  <2>2. \A j \in InHand : j \in InHand' \/ j = old[r]
    BY <1>3 DEF InHand
  <2> QED
    BY <2>1, <2>2 DEF DisplacedSids
<1>6. /\ Used' = Used /\ SetUpSids' = SetUpSids /\ RegisteredSids' = RegisteredSids
      /\ serving' = serving
  BY <1>1, SetUpSidsStay, ServingStays DEF Used, RegisteredSids, New, Serving, Taking
<1>7. CASE InUse(s) /\ deferred' = deferred \cup {old[r]} /\ UNCHANGED <<ends, left>>
  <2>1. ReplacedSids' = ReplacedSids \cup {s}
    BY <1>2, <1>7 DEF ReplacedSids
  <2>2. MakesWay(s) /\ TakenApart'
    BY <1>1, <1>2, <1>5, <1>6, <1>7, <2>1, Parts, NoTeardowns DEF MakesWay
  <2> QED
    BY <1>2, <1>4, <1>6, <2>2, Parts, EffectLivesOn
<1>8. CASE ~InUse(s) /\ StartTeardowns({old[r]}) /\ UNCHANGED deferred
  <2>1. {old[r]} \subseteq Jobs /\ SidsOf({old[r]}) = {s}
    BY <1>2 DEF SidsOf
  <2>2. EndsAmong({s}) /\ TakenApart'
    BY <1>1, <1>2, <1>8, <2>1, Parts, TeardownsAmong DEF OnePlace
  <2>3. ReplacedSids' = ReplacedSids
    BY <1>8 DEF ReplacedSids
  <2>4. MakesWay(s)
    BY <1>2, <1>5, <1>6, <1>8, <2>2, <2>3 DEF MakesWay
  <2> QED
    BY <1>2, <1>4, <1>6, <2>2, <2>4, Parts, EffectLivesOn
<1> QED
  BY <1>1, <1>7, <1>8 DEF EndReplaced

LEMMA InitializedLives ==
  ASSUME Inv, PlaceInv, NEW r \in Requests, Initialized(r)
  PROVE  LivesOn
<1>1. Alone(r)
  BY Parts, InitializedGoesOn, MovedAlone
<1>2. pc[r] = "registered" /\ pc'[r] \in {"check", "gate", "setup", "refresh", "done"}
  BY Parts DEF Initialized, SetUpFails, Refused, NoAnswer, Finish, Go, RequestsTyped
<1> QED
  BY <1>1, <1>2, QuietRequest DEF Initialized, state, server, New, Serving

LEMMA StoreLives ==
  ASSUME Inv, PlaceInv, NEW r \in Requests, Store(r)
  PROVE  LivesOn
<1>1. Alone(r) /\ pc[r] = "store" /\ pc'[r] = "done"
  BY Parts DEF Store, Finish, Alone, RequestsTyped
<1>2. CASE UNCHANGED <<registry, ends, left>>
  BY <1>1, <1>2, QuietRequest DEF Store, server, New, Serving
<1>3. CASE EndMine(r)
  BY <1>1, <1>3, EndMineLivesOn DEF Store, server, New, Serving, Holding
<1> QED
  BY <1>2, <1>3 DEF Store

LEMMA RefreshLives ==
  ASSUME Inv, PlaceInv, NEW r \in Requests, Refresh(r)
  PROVE  LivesOn
<1>1. Alone(r) /\ pc[r] = "refresh" /\ pc'[r] \in {"check", "done"}
  BY Parts DEF Refresh, Finish, Go, Alone, RequestsTyped
<1>2. CASE UNCHANGED <<registry, ends, left>>
  BY <1>1, <1>2, QuietRequest DEF Refresh, server, New, Serving
<1>3. CASE EndMine(r)
  BY <1>1, <1>3, EndMineLivesOn DEF Refresh, server, New, Serving, Holding
<1> QED
  BY <1>2, <1>3 DEF Refresh

-----------------------------------------------------------------------------
(* Requests on a session.                                                   *)

\* A request begins to use the session it holds.
LEMMA EntersLivesOn ==
  ASSUME Inv, PlaceInv, NEW r \in Requests, Alone(r), frame'[r] = frame[r],
         pc[r] \in Holding \ (New \cup Serving), pc'[r] \in Serving,
         UNCHANGED <<registry, deferred, old, ends, taken, issued>>
  PROVE  LivesOn
<1> DEFINE s == frame[r].sid
<1>1. s \in Sids /\ s \in Used
  BY Parts, Names DEF HeldAsIssued, Used, RequestsTyped, Frames
<1>2. s \notin SetUpSids
  <2>1. ASSUME NEW q \in Requests, pc[q] \in New, frame[q].sid = s PROVE FALSE
    BY <2>1, Parts DEF NewIsMine
  <2> QED
    BY <2>1 DEF SetUpSids, InSetUp, New
<1>3. Untouched /\ TakenApart' /\ HandsApart'
  BY Parts, StateStays, SetUpSidsStay DEF Untouched, Used, New, Serving, HandsApart
<1>4. OnePlace /\ OnePlace' /\ InStages /\ InStages'
  BY <1>3, Parts, EffectsKeepPlaces, StageBySet, StageBySetNext
<1>5. lives' = lives
  BY <1>3, <1>4 DEF InStages, Untouched, Life!Stages
<1>6. lives[s] \notin {"unused", "new"}
  BY <1>1, <1>2, <1>4 DEF InStages
<1>7. /\ serving[r] = None /\ serving'[r] = s
      /\ serving' = [serving EXCEPT ![r] = serving'[r]]
  BY DEF serving, Alone, Serving
<1>8. Life!Enter(r)
  BY <1>1, <1>5, <1>6, <1>7 DEF Life!Enter
<1> QED
  BY <1>3, <1>4, <1>8 DEF LivesOn, PlaceInv, Life!Next

LEMMA CheckListLives ==
  ASSUME Inv, PlaceInv, NEW r \in Requests, CheckList(r)
  PROVE  LivesOn
<1>0. Alone(r) /\ pc[r] = "check" /\ UNCHANGED <<deferred, old, taken, issued>>
  BY Parts, CheckListGoesOn, MovedAlone DEF CheckList, server
<1>1. CASE Go(r, "listing") /\ UNCHANGED <<frame, registry, ends, left>>
  <2>1. pc'[r] = "listing"
    BY <1>1, Parts DEF Go, RequestsTyped
  <2> QED
    BY <1>0, <1>1, <2>1, EntersLivesOn DEF New, Serving, Holding
<1>2. ASSUME Finish(r) PROVE pc'[r] = "done"
  BY <1>2, Parts DEF Finish, RequestsTyped
<1>3. CASE Finish(r) /\ UNCHANGED <<registry, ends, left>>
  BY <1>0, <1>2, <1>3, QuietRequest DEF New, Serving
<1>4. CASE Finish(r) /\ EndMine(r)
  BY <1>0, <1>2, <1>4, EndMineLivesOn DEF New, Serving, Holding
<1> QED
  BY <1>1, <1>3, <1>4 DEF CheckList

LEMMA GateBeforeCallLives ==
  ASSUME Inv, PlaceInv, NEW r \in Requests, GateBeforeCall(r)
  PROVE  LivesOn
<1>0. Alone(r) /\ pc[r] = "gate" /\ UNCHANGED <<deferred, old, taken, issued>>
  BY Parts, GateBeforeCallGoesOn, MovedAlone DEF GateBeforeCall, server
<1>1. CASE Go(r, "calling") /\ UNCHANGED <<frame, registry, ends, left>>
  <2>1. pc'[r] = "calling"
    BY <1>1, Parts DEF Go, RequestsTyped
  <2> QED
    BY <1>0, <1>1, <2>1, EntersLivesOn DEF New, Serving, Holding
<1>2. CASE NoAnswer(r) \/ Refused(r, IF frame[r].setUp THEN None ELSE frame[r].sid)
  <2>1. pc'[r] \in {"done", "setup", "check", "refresh"}
    BY <1>2, Parts DEF NoAnswer, Finish, Refused, Go, RequestsTyped
  <2>2. CASE UNCHANGED <<registry, ends, left>>
    BY <1>0, <2>1, <2>2, QuietRequest DEF New, Serving
  <2>3. CASE EndMine(r)
    BY <1>0, <2>1, <2>3, EndMineLivesOn DEF New, Serving, Holding
  <2> QED
    BY <1>0, <1>2, <2>1, <2>2, <2>3, Parts DEF GateBeforeCall, Go, RequestsTyped
<1> QED
  BY <1>1, <1>2 DEF GateBeforeCall

\* A request that leaves a session is the last one on it or not.
LEMMA LeavesLife ==
  ASSUME RequestsTyped, HeldAsIssued, InStages, InStages', OnePlace, OnePlace',
         NEW r \in Requests, Alone(r), pc[r] \in Serving, pc'[r] \notin Serving,
         Leaves(r)
  PROVE  Life!Leave(r)
<1> DEFINE s == frame[r].sid
           due == IF OthersUse(r, s) THEN {} ELSE {s} \cap ReplacedSids
<1>1. s \in Sids /\ serving[r] = s /\ s # None
  BY Names DEF HeldAsIssued, Holding, serving, Serving
<1>2. serving' = [serving EXCEPT ![r] = None]
  BY DEF serving, Alone, Serving
<1>3. OthersUse(r, s) <=> \E q \in Requests \ {r} : serving[q] = s
  BY <1>1, Names DEF OthersUse, Uses, serving
<1>4. /\ Used' = Used /\ SetUpSids' = SetUpSids
      /\ RegisteredSids' \in {RegisteredSids, RegisteredSids \ {s}}
      /\ DisplacedSids' = DisplacedSids /\ ReplacedSids' = ReplacedSids \ due
      /\ EndsAmong(due)
  BY DEF Leaves
<1>5. due \subseteq {s} \cap ReplacedSids
  OBVIOUS
<1>6. \A t \in Sids \ {s} : lives'[t] = lives[t]
  BY <1>4, <1>5 DEF InStages, EndsAmong, Life!Stages
<1>7. lives' = [lives EXCEPT ![s] = lives'[s]]
  BY <1>1, <1>6, GoesTo
<1>8. CASE lives[s] = "registered"
  <2>1. due = {} /\ s \in RegisteredSids
    BY <1>1, <1>8 DEF InStages, OnePlace
  <2>2. lives'[s] \in {"registered", "over"}
    BY <1>1, <1>4, <2>1 DEF InStages, OnePlace, EndsAmong, Life!Stages
  <2> QED
    BY <1>1, <1>2, <1>7, <1>8, <2>2 DEF Life!Leave, Life!Leaving
<1>9. CASE lives[s] = "replaced" /\ ~OthersUse(r, s)
  <2>1. /\ due = {s} /\ s \in Used'
        /\ s \notin RegisteredSids /\ s \notin SetUpSids /\ s \notin DisplacedSids
    BY <1>1, <1>4, <1>9 DEF InStages, OnePlace
  <2>2. lives'[s] \in Life!Ended
    BY <1>1, <1>4, <2>1, EndStage
  <2> QED
    BY <1>1, <1>2, <1>3, <1>7, <1>9, <2>2 DEF Life!Leave, Life!Leaving
<1>10. CASE lives[s] = "replaced" /\ OthersUse(r, s)
  <2>1. due = {}
    BY <1>10
  <2>2. lives'[s] = lives[s]
    BY <1>1, <1>4, <1>10, <2>1 DEF InStages
  <2> QED
    BY <1>1, <1>2, <1>3, <1>7, <1>10, <2>2 DEF Life!Leave, Life!Leaving
<1>11. CASE lives[s] \notin {"registered", "replaced"}
  <2>1. due = {} /\ s \notin RegisteredSids
    BY <1>1, <1>11 DEF InStages
  <2>2. lives'[s] = lives[s]
    BY <1>1, <1>4, <2>1 DEF InStages, EndsAmong, Life!Stages
  <2> QED
    BY <1>1, <1>2, <1>7, <1>11, <2>2 DEF Life!Leave, Life!Leaving
<1> QED
  BY <1>8, <1>9, <1>10, <1>11

\* SessionUse::drop, with what the registry forgets.
LEMMA ReleaseLives ==
  ASSUME Inv, PlaceInv, NEW r \in Requests, Alone(r),
         pc[r] \in Serving, pc'[r] \notin New \cup Serving, Release(r),
         UNCHANGED <<old, taken, issued>>,
         \/ registry' = registry
         \/ registry' = None /\ registry # None /\ registry.sid = frame[r].sid
  PROVE  LivesOn
<1> DEFINE s == frame[r].sid
           jobs == {j \in deferred : j.sid = s /\ ~OthersUse(r, j.sid)}
           due == IF OthersUse(r, s) THEN {} ELSE {s} \cap ReplacedSids
<1>1. jobs \subseteq Jobs /\ SidsOf(jobs) = due
  BY Parts DEF SessionsTyped, SidsOf, ReplacedSids, Jobs
<1>2. deferred' = deferred \ jobs /\ StartTeardowns(jobs)
  BY DEF Release
<1>3. EndsAmong(due) /\ TakenApart'
  <2>1. due \cap EndingSids = {}
    BY Parts DEF OnePlace
  <2> HIDE DEF jobs, due
  <2> QED
    BY <1>1, <1>2, <2>1, Parts, TeardownsAmong
<1>4. ReplacedSids' = ReplacedSids \ due
  BY <1>2 DEF ReplacedSids
<1>5. RegisteredSids' \in {RegisteredSids, RegisteredSids \ {s}} /\ Used' = Used
  BY DEF RegisteredSids, Used
<1>6. SetUpSids' = SetUpSids /\ DisplacedSids' = DisplacedSids /\ HandsApart'
  BY SetUpSidsStay, Parts DEF New, Serving, DisplacedSids, InHand, HandsApart
<1>7. Leaves(r)
  BY <1>3, <1>4, <1>5, <1>6 DEF Leaves
<1>8. OnePlace /\ OnePlace' /\ InStages /\ InStages'
  BY <1>7, Parts, EffectsKeepPlaces, StageBySet, StageBySetNext
<1>9. Life!Leave(r)
  BY <1>7, <1>8, Parts, LeavesLife
<1> QED
  BY <1>3, <1>6, <1>8, <1>9 DEF LivesOn, PlaceInv, Life!Next

LEMMA ListLives ==
  ASSUME Inv, PlaceInv, NEW r \in Requests, List(r)
  PROVE  LivesOn
<1>1. Alone(r) /\ pc[r] = "listing"
  BY Parts, ListGoesOn, MovedAlone DEF List
<1>2. pc'[r] \in {"store", "setup", "done"}
  BY Parts DEF List, Forget, Finish, Go, RequestsTyped
<1>3. \/ registry' = registry
      \/ registry' = None /\ registry # None /\ registry.sid = frame[r].sid
  BY DEF List, Forget
<1> QED
  BY <1>1, <1>2, <1>3, ReleaseLives DEF List, server, New, Serving

LEMMA CallLives ==
  ASSUME Inv, PlaceInv, NEW r \in Requests, Call(r)
  PROVE  LivesOn
<1>1. Alone(r) /\ pc[r] = "calling"
  BY Parts, CallGoesOn, MovedAlone DEF Call
<1>2. pc'[r] \in {"refresh", "setup", "done"}
  BY Parts DEF Call, NoAnswer, Forget, Finish, Go, RequestsTyped
<1>3. \/ registry' = registry
      \/ registry' = None /\ registry # None /\ registry.sid = frame[r].sid
  BY DEF Call, Forget
<1> QED
  BY <1>1, <1>2, <1>3, ReleaseLives DEF Call, server, New, Serving

-----------------------------------------------------------------------------
(* The vault, the server, the user.                                         *)

\* The session registered is ended by others than its requests.
LEMMA EndRegisteredLives ==
  ASSUME Inv, PlaceInv, UNCHANGED <<pc, frame, deferred, old, taken, issued>>,
         registry' = None, StartTeardowns(Registered)
  PROVE  LivesOn
<1>1. EndsAmong(RegisteredSids) /\ TakenApart'
  BY Parts, SidsOfJobs, TeardownsAmong DEF OnePlace
<1>2. /\ RegisteredSids' = {} /\ DisplacedSids' = DisplacedSids
      /\ ReplacedSids' = ReplacedSids /\ Used' = Used
  BY DEF RegisteredSids, DisplacedSids, InHand, ReplacedSids, Used
<1>3. EndsRegistered /\ serving' = serving
  BY <1>1, <1>2, NobodyMoves DEF EndsRegistered
<1> QED
  BY <1>1, <1>3, Parts, EffectLivesOn

LEMMA SaveDropsLives ==
  ASSUME Inv, PlaceInv, SaveDrops
  PROVE  LivesOn
<1>1. CASE UNCHANGED <<registry, ends, left>>
  BY <1>1, NobodyMoves, QuietLivesOn DEF SaveDrops, server
<1>2. CASE registry' = None /\ StartTeardowns(Registered)
  BY <1>2, EndRegisteredLives DEF SaveDrops, server
<1> QED
  BY <1>1, <1>2 DEF SaveDrops

LEMMA LockDrainLives ==
  ASSUME Inv, PlaceInv, LockDrain
  PROVE  LivesOn
<1> DEFINE jobs == Registered \cup deferred
<1>1. jobs \subseteq Jobs /\ SidsOf(jobs) = RegisteredSids \cup ReplacedSids
  BY Parts, SidsOfJobs DEF SidsOf
<1>2. EndsAmong(RegisteredSids \cup ReplacedSids) /\ TakenApart'
  <2>1. (RegisteredSids \cup ReplacedSids) \cap EndingSids = {}
    BY Parts DEF OnePlace
  <2>2. StartTeardowns(jobs) /\ taken' = taken
    BY DEF LockDrain
  <2> HIDE DEF jobs
  <2> QED
    BY <1>1, <2>1, <2>2, Parts, TeardownsAmong
<1>3. /\ RegisteredSids' = {} /\ DisplacedSids' = DisplacedSids
      /\ ReplacedSids' = {} /\ Used' = Used
  BY DEF LockDrain, RegisteredSids, DisplacedSids, InHand, ReplacedSids, Used, server
<1>4. EndsAll /\ serving' = serving
  BY <1>2, <1>3, NobodyMoves DEF EndsAll, LockDrain
<1> QED
  BY <1>2, <1>4, Parts, EffectLivesOn DEF LockDrain

LEMMA TeardownEndsLives ==
  ASSUME Inv, PlaceInv, NEW j \in ends, TeardownEnds(j)
  PROVE  LivesOn
<1>1. /\ ends' = ends \ {j}
      /\ UNCHANGED <<registry, deferred, old, taken, issued, pc, frame>>
  BY DEF TeardownEnds
<1>2. \A i \in ends \cup taken : i.sid = j.sid => i = j
  <2>1. \A i \in ends : i \in Jobs /\ i \in AllJobs /\ issued[i.sid] = i.binding
    BY DEF Inv, Typed, EndsTyped, SessionInv, JobsAsIssued, AllJobs
  <2> QED
    BY <2>1, Parts DEF Jobs, TakenApart
<1>3. j.sid \in EndingSids /\ EndingSids' = EndingSids \ {j.sid}
  <2>1. j.sid \in Sids
    BY Parts DEF EndsTyped, Jobs
  <2>2. ASSUME NEW s \in Sids
        PROVE  (\E i \in ends' \cup taken' : i.sid = s)
                 <=> (\E i \in ends \cup taken : i.sid = s) /\ s # j.sid
    <3>1. ends' \cup taken' = (ends \cup taken) \ {j}
      <4>1. j \notin taken
        BY Parts DEF TakenApart
      <4> QED
        BY <1>1, <4>1
    <3> QED
      BY <1>2, <3>1
  <2> QED
    BY <2>1, <2>2 DEF EndingSids
<1>4. IsOver(j.sid) /\ TakenApart'
  BY <1>1, <1>3, NobodyMoves, Parts DEF IsOver, RegisteredSids, DisplacedSids, InHand,
         ReplacedSids, Used, TakenApart
<1> QED
  BY <1>1, <1>3, <1>4, NobodyMoves, Parts, EffectLivesOn DEF EndingSids

LEMMA RemoveTakesLives ==
  ASSUME Inv, PlaceInv, RemoveTakes
  PROVE  LivesOn
<1>1. taken = {} /\ taken' = Registered /\ registry' = None
      /\ UNCHANGED <<deferred, old, ends, issued, pc, frame>>
  BY DEF RemoveTakes, Inv, SessionInv, TakenByRemoval, server
<1>2. EndingSids' = EndingSids \cup RegisteredSids
  BY <1>1, Parts, RegisteredJobs DEF EndingSids, RegisteredSids
<1>3. TakenApart'
  <2>1. \A i, j \in Registered : i = j
    BY DEF Registered
  <2>2. \A i \in Registered : i.sid \in RegisteredSids
    BY Parts, RegisteredJobs DEF RegisteredSids, SessionsTyped, Jobs
  <2>3. \A j \in ends : j.sid \in EndingSids
    BY Parts DEF EndingSids, EndsTyped, Jobs
  <2> QED
    BY <1>1, <2>1, <2>2, <2>3, Parts DEF TakenApart, OnePlace
<1>4. EndsRegistered /\ serving' = serving
  BY <1>1, <1>2, NobodyMoves DEF EndsRegistered, EndsAmong, RegisteredSids,
     DisplacedSids, InHand, ReplacedSids, Used
<1> QED
  BY <1>1, <1>3, <1>4, Parts, EffectLivesOn

LEMMA RemoveDeletesLives ==
  ASSUME Inv, PlaceInv, RemoveDeletes
  PROVE  LivesOn
<1>1. taken' = {} /\ UNCHANGED <<registry, deferred, old, ends, issued, pc, frame>>
  BY DEF RemoveDeletes
<1>2. /\ RegisteredSids' = RegisteredSids /\ DisplacedSids' = DisplacedSids
      /\ ReplacedSids' = ReplacedSids /\ Used' = Used /\ TakenApart'
  BY <1>1 DEF RegisteredSids, DisplacedSids, InHand, ReplacedSids, Used, TakenApart
<1>3. CASE taken = {}
  BY <1>1, <1>3, NobodyMoves, QuietLivesOn
<1>4. ASSUME NEW i \in taken PROVE LivesOn
  <2>1. i.sid \in Sids /\ taken = {i} /\ \A j \in ends : j.sid # i.sid
    BY Parts DEF SessionsTyped, Jobs, TakenApart
  <2>2. i.sid \in EndingSids /\ EndingSids' = EndingSids \ {i.sid}
    BY <1>1, <2>1 DEF EndingSids
  <2>3. IsOver(i.sid) /\ serving' = serving
    BY <1>1, <1>2, <2>2, NobodyMoves DEF IsOver
  <2> QED
    BY <1>1, <1>2, <2>1, <2>3, Parts, EffectLivesOn
<1> QED
  BY <1>3, <1>4

-----------------------------------------------------------------------------
(* The theorems.                                                            *)

LEMMA RequestLives ==
  ASSUME Inv, PlaceInv, NEW r \in Requests, RequestStep(r) \/ CallStep(r)
  PROVE  LivesOn
BY LoadLives, SetUpLives, InitializeLives, CheckAnsweredLives,
   RegisterLives, EndOldLives, InitializedLives, CheckListLives, ListLives, StoreLives,
   GateBeforeCallLives, CallLives, RefreshLives DEF RequestStep, CallStep

LEMMA NextLives == Inv /\ PlaceInv /\ [Next]_vars => LivesOn
<1> SUFFICES ASSUME Inv, PlaceInv, [Next]_vars PROVE LivesOn
  OBVIOUS
<1>1. ASSUME NEW r \in Requests, RequestStep(r) \/ Begin(r) PROVE LivesOn
  BY <1>1, RequestLives, BeginLives
<1>2. ASSUME NEW k \in Calls, CallStep(k) PROVE LivesOn
  BY <1>2, RequestLives DEF Requests
<1>3. CASE UNCHANGED <<registry, deferred, old, ends, taken, issued, pc, frame>>
  BY <1>3, NobodyMoves, QuietLivesOn
<1>4. CASE UNCHANGED vars
  BY <1>3, <1>4 DEF vars, state, server
<1>5. CASE LockBump \/ LockClear \/ Unlock
  BY <1>3, <1>5 DEF LockBump, LockClear, Unlock, state, server
<1>6. CASE Allow \/ Decline \/ Toggle
  BY <1>3, <1>6 DEF Allow, Decline, Toggle, state, server
<1>7. ASSUME NEW b \in Bindings, Save(b) PROVE LivesOn
  BY <1>3, <1>7 DEF Save, SaveFrom, state, server
<1>8. ASSUME NEW s \in Sids, Expire(s) PROVE LivesOn
  BY <1>3, <1>8 DEF Expire, state
<1>9. ASSUME NEW j \in ends, TeardownEnds(j) PROVE LivesOn
  BY <1>9, TeardownEndsLives
<1>10. CASE LockDrain \/ SaveDrops \/ RemoveTakes \/ RemoveDeletes
  BY <1>10, LockDrainLives, SaveDropsLives, RemoveTakesLives, RemoveDeletesLives
<1> QED
  BY <1>1, <1>2, <1>4, <1>5, <1>6, <1>7, <1>8, <1>9, <1>10 DEF Next, Progress

LEMMA InitLives == Init => PlaceInv /\ Life!Init
<1> SUFFICES ASSUME Init PROVE PlaceInv /\ Life!Init
  OBVIOUS
<1>1. /\ Used = {} /\ SetUpSids = {} /\ RegisteredSids = {} /\ DisplacedSids = {}
      /\ ReplacedSids = {} /\ EndingSids = {}
  BY DEF Init, Used, SetUpSids, InSetUp, RegisteredSids, DisplacedSids, InHand,
         ReplacedSids, EndingSids
<1>2. PlaceInv
  BY <1>1 DEF Init, PlaceInv, OnePlace, TakenApart, HandsApart
<1>3. \A s \in Sids : lives[s] = "unused"
  BY <1>1, <1>2, StageBySet DEF PlaceInv, InStages
<1>4. lives = [s \in Sids |-> "unused"] /\ serving = [r \in Requests |-> None]
  BY <1>3 DEF Init, lives, serving
<1> QED
  BY <1>2, <1>4 DEF Life!Init

\* Every session is in one place: in the hands of the request that set it up,
\* registered, in the hands of the one that took its place, deferred or about to
\* be ended (McpState, TeardownJob).
THEOREM SessionsInOnePlace == Spec => []PlaceInv
<1>1. Inv /\ PlaceInv /\ [Next]_vars => PlaceInv'
  BY NextLives DEF LivesOn
<1> QED
  BY <1>1, InitLives, SessionsInvariant, PTL DEF Spec

\* The registry, the requests and the teardowns take every session one way
\* through its life, and a replaced one to its end by its last request or a
\* lock (establish_session, end_replaced, SessionUse, teardown_all).
THEOREM SessionsLiveOnce == Spec => ImplementsSessionLife
<1>1. Inv /\ PlaceInv /\ [Next]_vars => [Life!Next]_(Life!vars)
  BY NextLives DEF LivesOn
<1> QED
  BY <1>1, InitLives, SessionsInvariant, SessionsInOnePlace, PTL
     DEF Spec, ImplementsSessionLife, Life!Spec

=============================================================================
