-------------------------- MODULE EditSync_proofs --------------------------
(***************************************************************************)
(* Proofs about EditSync, for any contents, tasks, calls and bounds, on a   *)
(* server with or without sizes and times.  The inductive invariant says    *)
(* what the holder of the lock remembers in each phase of its turn.         *)
(***************************************************************************)
EXTENDS EditSync, TLAPS

\* The parts of TypeOK, by what they are about.
DataTyped ==
  /\ server \in Versions /\ local \in Contents /\ open \in BOOLEAN
  /\ baseline \in OptStamps /\ synced \in Contents /\ held \in Contents

FailureTyped ==
  /\ due \in BOOLEAN /\ failure \in Contents \cup {None, Unreadable}
  /\ told \subseteq Contents \cup {Unreadable}

RestTyped ==
  /\ saveSeen \in BOOLEAN /\ latest \in Workers \cup {None} /\ raced \in BOOLEAN
  /\ left \in [{"saves", "writes", "faults"} -> Nat]

PendingTyped == pending \in Conflicts \cup {None}

PcTyped ==
  pc \in [Callers -> {"idle", "save", "overflow", "settling", "waiting", "turn"}]

AskTyped ==
  ask \in [Calls -> [act : {"overwrite", "reload", "close", "none"}, id : Ids \cup {None}]]

TurnTyped ==
  /\ turn \in Turns
  /\ \A x \in Callers : pc[x] = "turn" <=> turn.by = x

\* What the holder of the lock is and remembers in each phase.
TurnShape ==
  /\ turn.phase = "free" => turn = Free
  /\ turn.phase # "free" => turn.by \in Callers
  /\ turn.phase \in {"hash", "check"} => turn.by \in Workers
  /\ turn.phase \in {"rehash", "recheck", "stat", "download", "adopt", "look", "decide"}
       => turn.by \in Calls
  /\ turn.phase \in {"check", "copy", "swap", "recheck", "decide"} => turn.hash \in Contents
  /\ turn.phase \in {"swap", "adopt"} => turn.sent \in Contents
  /\ turn.phase \in {"download", "adopt"} /\ Stamped => turn.stat \in Stamps

\* A waiting call asks for something.
CallsAsk == \A c \in Calls : pc[c] = "waiting" => ask[c].act # "none"

\* The remote file exists with its stamp, or it does not; the baseline is a stamp.
ServerShape ==
  /\ server = Deleted \/ (server.content \in Contents /\ (Stamped => server.stamp \in Stamps))
  /\ Stamped => baseline \in Stamps

Typed ==
  /\ DataTyped /\ FailureTyped /\ RestTyped /\ PendingTyped /\ PcTyped /\ AskTyped
  /\ TurnTyped /\ TurnShape /\ CallsAsk /\ ServerShape

\* The holder that answers a conflict holds the answer to the one still pending.
AnswersPending ==
  turn.by \in Calls /\ turn.phase \in {"rehash", "recheck", "copy", "swap"} =>
    /\ ask[turn.by].act = "overwrite"
    /\ pending # None /\ pending.id = ask[turn.by].id

\* A reload adopts the stamp of its STAT for the content it read after it.
ReloadIsHonest ==
  turn.phase = "adopt" /\ Stamped /\ server.stamp = turn.stat =>
    server.content = turn.sent

\* A quiet attempt is one at the content that failed last.
QuietIsRepeat ==
  turn.quiet => turn.phase \in {"check", "copy", "swap"} /\ failure = turn.hash

Inv ==
  /\ Typed
  /\ BaselineIsHonest
  /\ ReloadIsHonest
  /\ AnswersPending
  /\ NothingUnseenIsReplaced
  /\ SilentRetriesWereReported
  /\ QuietIsRepeat

-----------------------------------------------------------------------------
(* Fresh stamps and ids. *)

\* A new version has a stamp that nothing the session remembers has.
LEMMA StampIsNew ==
  ASSUME RoomForStamp, Stamped
  PROVE  NewStamp \in Stamps /\ NewStamp \notin Remembered
BY DEF RoomForStamp, NewStamp

\* On a server without stamps a version has none.
LEMMA NoStamp ==
  ASSUME ~Stamped
  PROVE  NewStamp = None
BY DEF NewStamp

\* A new conflict's id is an id.
LEMMA IdIsNew ==
  ASSUME \E i \in Ids : i \notin UsedIds
  PROVE  NewId \in Ids
BY DEF NewId

\* Names that are not values of the model.
LEMMA NotNames ==
  /\ None \notin Contents /\ None \notin Stamps /\ None \notin Ids /\ None \notin Callers
  /\ Unreadable \notin Contents /\ Unreadable # None
  /\ Workers \cap Calls = {} /\ Callers = Workers \cup Calls
BY NamesApart DEF Callers, Workers

-----------------------------------------------------------------------------
(* Leaving the turn, and a failure that is recorded. *)

\* Who leaves frees the lock and nobody else has it.
LEMMA LeaveTyped ==
  ASSUME Typed, Leave, turn.phase # "free"
  PROVE  TurnTyped' /\ TurnShape'
<1>1. turn.by \in Callers
  BY DEF Typed, TurnShape
<1>2. turn' = Free
  BY DEF Leave
<1>3. turn' \in Turns
  BY <1>2 DEF Free, Turns, Phases, OptContents, OptStamps
<1>4. \A w \in Callers : pc'[w] = "turn" <=> turn'.by = w
  BY <1>1, <1>2, NotNames DEF Leave, Free, Typed, TurnTyped, PcTyped
<1>5. TurnShape'
  BY <1>2 DEF TurnShape, Free
<1> QED
  BY <1>3, <1>4, <1>5 DEF TurnTyped

\* What EditSync::failed leaves has its types.
LEMMA FailedTyped ==
  ASSUME Typed, NEW c \in Contents \cup {Unreadable}, Failed(c)
  PROVE  FailureTyped'
BY DEF Failed, Typed, FailureTyped

\* So has what an attempt that gives up leaves.
LEMMA GiveUpTyped ==
  ASSUME Typed, GiveUp, turn.hash \in Contents
  PROVE  FailureTyped'
<1>1. CASE turn.by \in Calls
  BY <1>1 DEF GiveUp, retry, Typed, FailureTyped
<1>2. CASE turn.by \notin Calls
  BY <1>2, FailedTyped DEF GiveUp
<1> QED
  BY <1>1, <1>2

-----------------------------------------------------------------------------
(* Types: one lemma per action. *)

\* EditorSaves keeps the types.
LEMMA EditorSavesTyped ==
  ASSUME Typed, NEW x \in Contents, EditorSaves(x)
  PROVE  Typed'
<1> USE DEF Typed, Workers, Callers
<1>1. DataTyped' /\ ServerShape'
  BY NotNames, StampIsNew, NoStamp DEF DataTyped, EditorSaves, OptContents,
       OptStamps, ServerShape, Spend, Versions, retry, session
<1>2. FailureTyped' /\ RestTyped' /\ PendingTyped'
  BY NotNames DEF EditorSaves, FailureTyped, PendingTyped, RestTyped, Spend,
       retry, session
<1>3. PcTyped' /\ AskTyped' /\ CallsAsk'
  BY NotNames DEF AskTyped, CallsAsk, EditorSaves, PcTyped, Spend, TurnShape,
       TurnTyped, retry, session
<1>4. TurnTyped' /\ TurnShape'
  BY NotNames DEF EditorSaves, PcTyped, Spend, TurnShape, TurnTyped, retry,
       session
<1> QED
  BY <1>1, <1>2, <1>3, <1>4

\* OthersWrite keeps the types.
LEMMA OthersWriteTyped ==
  ASSUME Typed, NEW x \in Contents, OthersWrite(x)
  PROVE  Typed'
<1> USE DEF Typed, Workers, Callers
<1>1. DataTyped' /\ ServerShape'
  BY NotNames, StampIsNew, NoStamp DEF DataTyped, OptContents, OptStamps,
       OthersWrite, ServerShape, Spend, Versions, retry, session
<1>2. FailureTyped' /\ RestTyped' /\ PendingTyped'
  BY NotNames DEF FailureTyped, OthersWrite, PendingTyped, RestTyped, Spend,
       retry, session
<1>3. PcTyped' /\ AskTyped' /\ CallsAsk'
  BY NotNames DEF AskTyped, CallsAsk, OthersWrite, PcTyped, Spend, TurnShape,
       TurnTyped, retry, session
<1>4. TurnTyped' /\ TurnShape'
  BY NotNames DEF OthersWrite, PcTyped, Spend, TurnShape, TurnTyped, retry,
       session
<1> QED
  BY <1>1, <1>2, <1>3, <1>4

\* OthersDelete keeps the types.
LEMMA OthersDeleteTyped ==
  ASSUME Typed, OthersDelete
  PROVE  Typed'
<1> USE DEF Typed, Workers, Callers
<1>1. DataTyped' /\ ServerShape'
  BY NotNames, StampIsNew, NoStamp DEF DataTyped, Deleted, OptContents, OptStamps,
       OthersDelete, ServerShape, Spend, Versions, retry, session
<1>2. FailureTyped' /\ RestTyped' /\ PendingTyped'
  BY NotNames DEF Deleted, FailureTyped, OthersDelete, PendingTyped, RestTyped,
       Spend, retry, session
<1>3. PcTyped' /\ AskTyped' /\ CallsAsk'
  BY NotNames DEF AskTyped, CallsAsk, Deleted, OthersDelete, PcTyped, Spend,
       TurnShape, TurnTyped, retry, session
<1>4. TurnTyped' /\ TurnShape'
  BY NotNames DEF Deleted, OthersDelete, PcTyped, Spend, TurnShape, TurnTyped,
       retry, session
<1> QED
  BY <1>1, <1>2, <1>3, <1>4

\* End keeps the types.
LEMMA EndTyped ==
  ASSUME Typed, End
  PROVE  Typed'
<1> USE DEF Typed, Workers, Callers
<1>1. DataTyped' /\ ServerShape'
  BY NotNames, StampIsNew, NoStamp DEF DataTyped, End, OptContents, OptStamps,
       ServerShape, Versions, retry, session
<1>2. FailureTyped' /\ RestTyped' /\ PendingTyped'
  BY NotNames DEF End, FailureTyped, PendingTyped, RestTyped, retry, session
<1>3. PcTyped' /\ AskTyped' /\ CallsAsk'
  BY NotNames DEF AskTyped, CallsAsk, End, PcTyped, TurnShape, TurnTyped, retry,
       session
<1>4. TurnTyped' /\ TurnShape'
  BY NotNames DEF End, PcTyped, TurnShape, TurnTyped, retry, session
<1> QED
  BY <1>1, <1>2, <1>3, <1>4

\* Settle keeps the types.
LEMMA SettleTyped ==
  ASSUME Typed, NEW x \in Tasks, Settle(x)
  PROVE  Typed'
<1> USE DEF Typed, Workers, Callers
<1>1. DataTyped' /\ ServerShape'
  BY NotNames, StampIsNew, NoStamp DEF DataTyped, OptContents, OptStamps,
       ServerShape, Settle, Versions, retry, session
<1>2. FailureTyped' /\ RestTyped' /\ PendingTyped'
  BY NotNames DEF FailureTyped, PendingTyped, RestTyped, Settle, retry, session
<1>3. PcTyped' /\ AskTyped' /\ CallsAsk'
  BY NotNames DEF AskTyped, CallsAsk, PcTyped, Settle, TurnShape, TurnTyped,
       retry, session
<1>4. TurnTyped' /\ TurnShape'
  BY NotNames DEF PcTyped, Settle, TurnShape, TurnTyped, retry, session
<1> QED
  BY <1>1, <1>2, <1>3, <1>4

\* RescanTick keeps the types.
LEMMA RescanTickTyped ==
  ASSUME Typed, RescanTick
  PROVE  Typed'
<1> USE DEF Typed, Workers, Callers
<1>1. DataTyped' /\ ServerShape'
  BY NotNames, StampIsNew, NoStamp DEF DataTyped, OptContents, OptStamps,
       RescanTick, ServerShape, Versions, retry, session
<1>2. FailureTyped' /\ RestTyped' /\ PendingTyped'
  BY NotNames DEF FailureTyped, PendingTyped, RescanTick, RestTyped, retry,
       session
<1>3. PcTyped' /\ AskTyped' /\ CallsAsk'
  BY NotNames DEF AskTyped, CallsAsk, PcTyped, RescanTick, TurnShape, TurnTyped,
       retry, session
<1>4. TurnTyped' /\ TurnShape'
  BY NotNames DEF PcTyped, RescanTick, TurnShape, TurnTyped, retry, session
<1> QED
  BY <1>1, <1>2, <1>3, <1>4

\* Elapse keeps the types.
LEMMA ElapseTyped ==
  ASSUME Typed, NEW x \in Workers, Elapse(x)
  PROVE  Typed'
<1> USE DEF Typed, Workers, Callers
<1>1. DataTyped' /\ ServerShape'
  BY NotNames, StampIsNew, NoStamp DEF DataTyped, Elapse, OptContents, OptStamps,
       ServerShape, Versions, retry, session
<1>2. FailureTyped' /\ RestTyped' /\ PendingTyped'
  BY NotNames DEF Elapse, FailureTyped, PendingTyped, RestTyped, retry, session
<1>3. PcTyped' /\ AskTyped' /\ CallsAsk'
  BY NotNames DEF AskTyped, CallsAsk, Elapse, PcTyped, TurnShape, TurnTyped,
       retry, session
<1>4. TurnTyped' /\ TurnShape'
  BY NotNames DEF Elapse, PcTyped, TurnShape, TurnTyped, retry, session
<1> QED
  BY <1>1, <1>2, <1>3, <1>4

\* TakeTurn keeps the types.
LEMMA TakeTurnTyped ==
  ASSUME Typed, NEW x \in Workers, TakeTurn(x)
  PROVE  Typed'
<1> USE DEF Typed, Workers, Callers
<1>1. DataTyped'
  BY NotNames, StampIsNew, NoStamp DEF DataTyped, Free, OptContents, OptStamps,
       ServerShape, TakeTurn, TurnShape, Versions, retry, session
<1>2. FailureTyped'
  BY NotNames DEF FailureTyped, Free, ServerShape, TakeTurn, TurnShape, retry,
       session
<1>3. RestTyped'
  BY NotNames DEF Free, RestTyped, ServerShape, TakeTurn, TurnShape, retry,
       session
<1>4. PendingTyped'
  BY NotNames, IdIsNew DEF Conflicts, DataTyped, Free, OptContents, OptStamps,
       PendingTyped, ServerShape, TakeTurn, TurnShape, Versions, retry, session
<1>5. PcTyped'
  BY NotNames DEF Free, PcTyped, ServerShape, TakeTurn, TurnShape, TurnTyped,
       retry, session
<1>6. AskTyped'
  BY NotNames DEF AskTyped, Conflicts, Free, PendingTyped, ServerShape, TakeTurn,
       TurnShape, retry, session
<1>7. CallsAsk'
  BY NotNames DEF AskTyped, CallsAsk, Free, PcTyped, ServerShape, TakeTurn,
       TurnShape, retry, session
<1>8. ServerShape'
  BY NotNames, StampIsNew, NoStamp DEF DataTyped, Deleted, Free, ServerShape,
       TakeTurn, TurnShape, Versions, retry, session
<1>9. TurnTyped' /\ TurnShape'
  <2>1. turn = Free /\ pc[x] = "waiting" /\ \A w \in Callers : pc[w] # "turn"
    BY NotNames DEF TakeTurn, Free, TurnTyped
  <2>2. CASE latest = x /\ open
    <3>1. turn' = [Free EXCEPT !.by = x, !.phase = "hash", !.saved = saveSeen]
      BY <2>2 DEF TakeTurn
    <3>2. turn' \in Turns
      BY <3>1 DEF Free, Turns, Phases, OptContents, OptStamps, RestTyped
    <3>3. \A w \in Callers : pc'[w] = "turn" <=> turn'.by = w
      BY <2>1, <2>2, <3>1 DEF Free, TakeTurn, PcTyped
    <3>4. TurnShape'
      BY <3>1 DEF TurnShape, Free
    <3> QED
      BY <3>2, <3>3, <3>4 DEF TurnTyped
  <2>3. CASE ~(latest = x /\ open)
    <3>1. turn' = turn /\ \A w \in Callers : pc'[w] = "turn" <=> pc[w] = "turn"
      BY <2>1, <2>3 DEF TakeTurn, PcTyped
    <3> QED
      BY <3>1 DEF TurnShape, TurnTyped
  <2> QED
    BY <2>2, <2>3
<1> QED
  BY <1>1, <1>2, <1>3, <1>4, <1>5, <1>6, <1>7, <1>8, <1>9

\* RetryDue keeps the types.
LEMMA RetryDueTyped ==
  ASSUME Typed, RetryDue
  PROVE  Typed'
<1> USE DEF Typed, Workers, Callers
<1>1. DataTyped' /\ ServerShape'
  BY NotNames, StampIsNew, NoStamp DEF DataTyped, OptContents, OptStamps,
       RetryDue, ServerShape, Versions, session
<1>2. FailureTyped' /\ RestTyped' /\ PendingTyped'
  BY NotNames DEF FailureTyped, PendingTyped, RestTyped, RetryDue, session
<1>3. PcTyped' /\ AskTyped' /\ CallsAsk'
  BY NotNames DEF AskTyped, CallsAsk, PcTyped, RetryDue, TurnShape, TurnTyped,
       session
<1>4. TurnTyped' /\ TurnShape'
  BY NotNames DEF PcTyped, RetryDue, TurnShape, TurnTyped, session
<1> QED
  BY <1>1, <1>2, <1>3, <1>4

\* AnswerConflict keeps the types.
LEMMA AnswerConflictTyped ==
  ASSUME Typed, NEW x \in Calls, AnswerConflict(x)
  PROVE  Typed'
<1> USE DEF Typed, Workers, Callers
<1>1. DataTyped'
  BY NotNames, StampIsNew, NoStamp DEF AnswerConflict, DataTyped, OptContents,
       OptStamps, ServerShape, TurnShape, Versions, retry, session
<1>2. FailureTyped'
  BY NotNames DEF AnswerConflict, FailureTyped, ServerShape, TurnShape, retry,
       session
<1>3. RestTyped'
  BY NotNames DEF AnswerConflict, RestTyped, ServerShape, TurnShape, retry,
       session
<1>4. PendingTyped'
  BY NotNames, IdIsNew DEF AnswerConflict, Conflicts, DataTyped, OptContents,
       OptStamps, PendingTyped, ServerShape, TurnShape, Versions, retry, session
<1>5. PcTyped'
  BY NotNames DEF AnswerConflict, PcTyped, ServerShape, TurnShape, TurnTyped,
       retry, session
<1>6. AskTyped'
  <2>1. PICK act \in {"overwrite", "reload"} :
           ask' = [ask EXCEPT ![x] = [act |-> act, id |-> pending.id]]
    BY DEF AnswerConflict
  <2>2. pending.id \in Ids
    BY DEF AnswerConflict, Conflicts, PendingTyped
  <2> QED
    BY <2>1, <2>2 DEF AskTyped
<1>7. TurnTyped'
  BY NotNames DEF AnswerConflict, OptContents, OptStamps, PcTyped, Phases,
       ServerShape, TurnShape, TurnTyped, Turns, Versions, retry, session
<1>8. TurnShape'
  BY NotNames DEF AnswerConflict, ServerShape, TurnShape, TurnTyped, Turns, retry,
       session
<1>9. CallsAsk'
  <2>1. PICK act \in {"overwrite", "reload"} :
           ask' = [ask EXCEPT ![x] = [act |-> act, id |-> pending.id]]
    BY DEF AnswerConflict
  <2>2. [act |-> act, id |-> pending.id].act # "none"
    OBVIOUS
  <2> QED
    BY <2>1, <2>2 DEF AnswerConflict, CallsAsk, AskTyped, PcTyped
<1>10. ServerShape'
  BY NotNames, StampIsNew, NoStamp DEF AnswerConflict, DataTyped, Deleted,
       ServerShape, TurnShape, Versions, retry, session
<1> QED
  BY <1>1, <1>2, <1>3, <1>4, <1>5, <1>6, <1>7, <1>8, <1>9, <1>10

\* StopEditing keeps the types.
LEMMA StopEditingTyped ==
  ASSUME Typed, NEW x \in Calls, StopEditing(x)
  PROVE  Typed'
<1> USE DEF Typed, Workers, Callers
<1>1. DataTyped'
  BY NotNames, StampIsNew, NoStamp DEF DataTyped, OptContents, OptStamps,
       ServerShape, StopEditing, TurnShape, Versions, retry, session
<1>2. FailureTyped'
  BY NotNames DEF FailureTyped, ServerShape, StopEditing, TurnShape, retry,
       session
<1>3. RestTyped'
  BY NotNames DEF RestTyped, ServerShape, StopEditing, TurnShape, retry, session
<1>4. PendingTyped'
  BY NotNames, IdIsNew DEF Conflicts, DataTyped, OptContents, OptStamps,
       PendingTyped, ServerShape, StopEditing, TurnShape, Versions, retry, session
<1>5. PcTyped'
  BY NotNames DEF PcTyped, ServerShape, StopEditing, TurnShape, TurnTyped, retry,
       session
<1>6. AskTyped'
  BY NotNames DEF AskTyped, Conflicts, PendingTyped, ServerShape, StopEditing,
       TurnShape, retry, session
<1>7. TurnTyped'
  BY NotNames DEF OptContents, OptStamps, PcTyped, Phases, ServerShape,
       StopEditing, TurnShape, TurnTyped, Turns, Versions, retry, session
<1>8. TurnShape'
  BY NotNames DEF ServerShape, StopEditing, TurnShape, TurnTyped, Turns, retry,
       session
<1>9. CallsAsk'
  BY DEF StopEditing, CallsAsk, AskTyped, PcTyped
<1>10. ServerShape'
  BY NotNames, StampIsNew, NoStamp DEF DataTyped, Deleted, ServerShape,
       StopEditing, TurnShape, Versions, retry, session
<1> QED
  BY <1>1, <1>2, <1>3, <1>4, <1>5, <1>6, <1>7, <1>8, <1>9, <1>10

\* Refuse keeps the types.
LEMMA RefuseTyped ==
  ASSUME Typed, NEW x \in Calls, Refuse(x)
  PROVE  Typed'
<1> USE DEF Typed, Workers, Callers
<1>1. DataTyped' /\ ServerShape'
  BY NotNames, StampIsNew, NoStamp DEF Current, DataTyped, Free, NoAsk,
       OptContents, OptStamps, Refuse, ServerShape, Versions, retry, session
<1>2. FailureTyped' /\ RestTyped' /\ PendingTyped'
  BY NotNames DEF Current, FailureTyped, Free, NoAsk, PendingTyped, Refuse,
       RestTyped, retry, session
<1>3. PcTyped' /\ AskTyped' /\ CallsAsk'
  BY NotNames DEF AskTyped, CallsAsk, Current, Free, NoAsk, PcTyped, Refuse,
       TurnShape, TurnTyped, retry, session
<1>4. TurnTyped' /\ TurnShape'
  BY NotNames DEF Current, Free, NoAsk, PcTyped, Refuse, TurnShape, TurnTyped,
       retry, session
<1> QED
  BY <1>1, <1>2, <1>3, <1>4

\* CloseTimesOut keeps the types.
LEMMA CloseTimesOutTyped ==
  ASSUME Typed, NEW x \in Calls, CloseTimesOut(x)
  PROVE  Typed'
<1> USE DEF Typed, Workers, Callers
<1>1. DataTyped' /\ ServerShape'
  BY NotNames, StampIsNew, NoStamp DEF CloseTimesOut, DataTyped, Free, NoAsk,
       OptContents, OptStamps, ServerShape, Versions, retry, session
<1>2. FailureTyped' /\ RestTyped' /\ PendingTyped'
  BY NotNames DEF CloseTimesOut, FailureTyped, Free, NoAsk, PendingTyped,
       RestTyped, retry, session
<1>3. PcTyped' /\ AskTyped' /\ CallsAsk'
  BY NotNames DEF AskTyped, CallsAsk, CloseTimesOut, Free, NoAsk, PcTyped,
       TurnShape, TurnTyped, retry, session
<1>4. TurnTyped' /\ TurnShape'
  BY NotNames DEF CloseTimesOut, Free, NoAsk, PcTyped, TurnShape, TurnTyped,
       retry, session
<1> QED
  BY <1>1, <1>2, <1>3, <1>4

\* Admit keeps the types.
LEMMA AdmitTyped ==
  ASSUME Typed, NEW x \in Calls, Admit(x)
  PROVE  Typed'
<1> USE DEF Typed, Workers, Callers
<1>1. DataTyped'
  BY NotNames, StampIsNew, NoStamp DEF Admit, Current, DataTyped, FirstPhase,
       Free, OptContents, OptStamps, ServerShape, TurnShape, Versions, retry,
       session
<1>2. FailureTyped'
  BY NotNames DEF Admit, Current, FailureTyped, FirstPhase, Free, ServerShape,
       TurnShape, retry, session
<1>3. RestTyped'
  BY NotNames DEF Admit, Current, FirstPhase, Free, RestTyped, ServerShape,
       TurnShape, retry, session
<1>4. PendingTyped'
  BY NotNames, IdIsNew DEF Admit, Conflicts, Current, DataTyped, FirstPhase, Free,
       OptContents, OptStamps, PendingTyped, ServerShape, TurnShape, Versions,
       retry, session
<1>5. PcTyped'
  BY NotNames DEF Admit, Current, FirstPhase, Free, PcTyped, ServerShape,
       TurnShape, TurnTyped, retry, session
<1>6. AskTyped'
  BY NotNames DEF Admit, AskTyped, Conflicts, Current, FirstPhase, Free,
       PendingTyped, ServerShape, TurnShape, retry, session
<1>7. TurnTyped'
  <2>1. ask[x].act \in {"overwrite", "reload", "close"}
    BY DEF Admit, AskTyped, CallsAsk
  <2>2. FirstPhase(ask[x].act) \in Phases
    BY <2>1 DEF FirstPhase, Phases
  <2>3. turn' = [Free EXCEPT !.by = x, !.phase = FirstPhase(ask[x].act)]
    BY DEF Admit
  <2>4. turn' \in Turns
    BY <2>2, <2>3 DEF Free, Turns, OptContents, OptStamps
  <2>5. \A w \in Callers : pc'[w] = "turn" <=> turn'.by = w
    BY <2>3, NotNames DEF Admit, Free, TurnTyped, PcTyped
  <2> QED
    BY <2>4, <2>5 DEF TurnTyped
<1>8. TurnShape'
  <2>1. ask[x].act \in {"overwrite", "reload", "close"}
    BY DEF Admit, AskTyped, CallsAsk
  <2>2. FirstPhase(ask[x].act) \in {"rehash", "stat", "look"}
    BY <2>1 DEF FirstPhase
  <2>3. turn'.by = x /\ turn'.phase = FirstPhase(ask[x].act)
    BY DEF Admit, Free
  <2> QED
    BY <2>2, <2>3 DEF TurnShape
<1>9. CallsAsk'
  BY NotNames DEF Admit, AskTyped, CallsAsk, Current, FirstPhase, Free, PcTyped,
       ServerShape, TurnShape, retry, session
<1>10. ServerShape'
  BY NotNames, StampIsNew, NoStamp DEF Admit, Current, DataTyped, Deleted,
       FirstPhase, Free, ServerShape, TurnShape, Versions, retry, session
<1> QED
  BY <1>1, <1>2, <1>3, <1>4, <1>5, <1>6, <1>7, <1>8, <1>9, <1>10

\* HashCopy keeps the types.
LEMMA HashCopyTyped ==
  ASSUME Typed, HashCopy
  PROVE  Typed'
<1> USE DEF Typed, Workers, Callers
<1>1. DataTyped'
  BY NotNames, StampIsNew, NoStamp DEF DataTyped, Failed, Free, Go, HashCopy,
       Leave, NoAsk, OptContents, OptStamps, ServerShape, Spend, TurnShape,
       Versions, retry, session
<1>2. FailureTyped'
  <2>1. CASE Failed(Unreadable)
    BY <2>1, FailedTyped
  <2>2. CASE UNCHANGED retry
    BY <2>2 DEF retry, FailureTyped
  <2> QED
    BY <2>1, <2>2 DEF HashCopy
<1>3. RestTyped'
  <2>1. saveSeen' = saveSeen /\ latest' = latest
    BY DEF HashCopy
  <2>2. raced' \in BOOLEAN
    BY DEF HashCopy, RestTyped
  <2>3. left' \in [{"saves", "writes", "faults"} -> Nat]
    BY DEF HashCopy, Spend, RestTyped
  <2> QED
    BY <2>1, <2>2, <2>3 DEF RestTyped
<1>4. PendingTyped'
  BY NotNames, IdIsNew DEF Conflicts, DataTyped, Failed, Free, Go, HashCopy,
       Leave, NoAsk, OptContents, OptStamps, PendingTyped, ServerShape, Spend,
       TurnShape, Versions, retry, session
<1>5. PcTyped'
  BY NotNames DEF Failed, Free, Go, HashCopy, Leave, NoAsk, PcTyped, ServerShape,
       Spend, TurnShape, TurnTyped, retry, session
<1>6. AskTyped'
  BY NotNames DEF AskTyped, Conflicts, Failed, Free, Go, HashCopy, Leave, NoAsk,
       PendingTyped, ServerShape, Spend, TurnShape, retry, session
<1>7. CallsAsk'
  BY NotNames DEF AskTyped, CallsAsk, Failed, Free, Go, HashCopy, Leave, NoAsk,
       PcTyped, ServerShape, Spend, TurnShape, retry, session
<1>8. ServerShape'
  BY NotNames, StampIsNew, NoStamp DEF DataTyped, Deleted, Failed, Free, Go,
       HashCopy, Leave, NoAsk, ServerShape, Spend, TurnShape, Versions, retry,
       session
<1>9. TurnTyped' /\ TurnShape'
  <2>1. CASE Leave
    BY <2>1, LeaveTyped DEF HashCopy
  <2>2. CASE ~Leave
    <3>1. PICK q \in BOOLEAN : turn' = [turn EXCEPT !.phase = "check", !.hash = local,
                                     !.quiet = q]
      BY <2>2 DEF HashCopy, Go
    <3>2. turn.phase # "free"
      BY <2>2 DEF HashCopy
    <3>3. turn' \in Turns /\ turn'.by = turn.by
      BY <3>1 DEF TurnTyped, Turns, Phases, OptContents, OptStamps, Versions, DataTyped
    <3>4. TurnTyped'
      BY <2>2, <3>3 DEF TurnTyped, HashCopy, Go
    <3>5. TurnShape'
      BY <3>1, <3>2, <3>3, NotNames
         DEF TurnShape, ServerShape, TurnTyped, Turns, HashCopy, DataTyped, Deleted,
            Versions
    <3> QED
      BY <3>4, <3>5
  <2> QED
    BY <2>1, <2>2
<1> QED
  BY <1>1, <1>2, <1>3, <1>4, <1>5, <1>6, <1>7, <1>8, <1>9

\* CheckRemote keeps the types.
LEMMA CheckRemoteTyped ==
  ASSUME Typed, CheckRemote
  PROVE  Typed'
<1> USE DEF Typed, Workers, Callers
<1>1. DataTyped'
  BY NotNames, StampIsNew, NoStamp DEF CheckRemote, DataTyped, Failed, Free,
       GiveUp, Go, HoldBack, Known, Leave, NoAsk, OptContents, OptStamps,
       ServerShape, Spend, TurnShape, Versions, View, retry
<1>2. FailureTyped'
  <2>1. turn.hash \in Contents
    BY DEF TurnShape, CheckRemote
  <2>2. CASE GiveUp
    BY <2>1, <2>2, GiveUpTyped
  <2>3. CASE UNCHANGED retry
    BY <2>3 DEF retry, FailureTyped
  <2> QED
    BY <2>2, <2>3 DEF CheckRemote
<1>3. RestTyped'
  <2>1. saveSeen' = saveSeen /\ latest' = latest
    BY DEF CheckRemote
  <2>2. raced' \in BOOLEAN
    BY DEF CheckRemote, RestTyped
  <2>3. left' \in [{"saves", "writes", "faults"} -> Nat]
    BY DEF CheckRemote, Spend, RestTyped
  <2> QED
    BY <2>1, <2>2, <2>3 DEF RestTyped
<1>4. PendingTyped'
  BY NotNames, IdIsNew DEF CheckRemote, Conflicts, DataTyped, Failed, Free,
       GiveUp, Go, HoldBack, Known, Leave, NoAsk, OptContents, OptStamps,
       PendingTyped, ServerShape, Spend, TurnShape, Versions, View, retry
<1>5. PcTyped'
  BY NotNames DEF CheckRemote, Failed, Free, GiveUp, Go, HoldBack, Known, Leave,
       NoAsk, PcTyped, ServerShape, Spend, TurnShape, TurnTyped, View, retry
<1>6. AskTyped'
  BY NotNames DEF AskTyped, CheckRemote, Conflicts, Failed, Free, GiveUp, Go,
       HoldBack, Known, Leave, NoAsk, PendingTyped, ServerShape, Spend, TurnShape,
       View, retry
<1>7. CallsAsk'
  BY NotNames DEF AskTyped, CallsAsk, CheckRemote, Failed, Free, GiveUp, Go,
       HoldBack, Known, Leave, NoAsk, PcTyped, ServerShape, Spend, TurnShape,
       View, retry
<1>8. ServerShape'
  BY NotNames, StampIsNew, NoStamp DEF CheckRemote, DataTyped, Deleted, Failed,
       Free, GiveUp, Go, HoldBack, Known, Leave, NoAsk, ServerShape, Spend,
       TurnShape, Versions, View, retry
<1>9. TurnTyped' /\ TurnShape'
  <2>1. CASE Leave
    BY <2>1, LeaveTyped DEF CheckRemote
  <2>2. CASE ~Leave
    <3>1. turn' = [turn EXCEPT !.phase = "copy"]
      BY <2>2 DEF CheckRemote, Go
    <3>2. turn.phase # "free"
      BY <2>2 DEF CheckRemote
    <3>3. turn' \in Turns /\ turn'.by = turn.by
      BY <3>1 DEF TurnTyped, Turns, Phases, OptContents, OptStamps, Versions, DataTyped
    <3>4. TurnTyped'
      BY <2>2, <3>3 DEF TurnTyped, CheckRemote, Go
    <3>5. TurnShape'
      BY <3>1, <3>2, <3>3, NotNames
         DEF TurnShape, ServerShape, TurnTyped, Turns, CheckRemote, DataTyped,
            Deleted, Versions
    <3> QED
      BY <3>4, <3>5
  <2> QED
    BY <2>1, <2>2
<1> QED
  BY <1>1, <1>2, <1>3, <1>4, <1>5, <1>6, <1>7, <1>8, <1>9

\* CopyUp keeps the types.
LEMMA CopyUpTyped ==
  ASSUME Typed, CopyUp
  PROVE  Typed'
<1> USE DEF Typed, Workers, Callers
<1>1. DataTyped'
  BY NotNames, StampIsNew, NoStamp DEF CopyUp, DataTyped, Failed, Free, GiveUp,
       Go, Leave, NoAsk, OptContents, OptStamps, ServerShape, Spend, TurnShape,
       Versions, retry, session
<1>2. FailureTyped'
  <2>1. turn.hash \in Contents
    BY DEF TurnShape, CopyUp
  <2>2. CASE GiveUp
    BY <2>1, <2>2, GiveUpTyped
  <2>3. CASE UNCHANGED retry
    BY <2>3 DEF retry, FailureTyped
  <2> QED
    BY <2>2, <2>3 DEF CopyUp
<1>3. RestTyped'
  <2>1. saveSeen' = saveSeen /\ latest' = latest
    BY DEF CopyUp
  <2>2. raced' \in BOOLEAN
    BY DEF CopyUp, RestTyped
  <2>3. left' \in [{"saves", "writes", "faults"} -> Nat]
    BY DEF CopyUp, Spend, RestTyped
  <2> QED
    BY <2>1, <2>2, <2>3 DEF RestTyped
<1>4. PendingTyped'
  BY NotNames, IdIsNew DEF Conflicts, CopyUp, DataTyped, Failed, Free, GiveUp, Go,
       Leave, NoAsk, OptContents, OptStamps, PendingTyped, ServerShape, Spend,
       TurnShape, Versions, retry, session
<1>5. PcTyped'
  BY NotNames DEF CopyUp, Failed, Free, GiveUp, Go, Leave, NoAsk, PcTyped,
       ServerShape, Spend, TurnShape, TurnTyped, retry, session
<1>6. AskTyped'
  BY NotNames DEF AskTyped, Conflicts, CopyUp, Failed, Free, GiveUp, Go, Leave,
       NoAsk, PendingTyped, ServerShape, Spend, TurnShape, retry, session
<1>7. CallsAsk'
  BY NotNames DEF AskTyped, CallsAsk, CopyUp, Failed, Free, GiveUp, Go, Leave,
       NoAsk, PcTyped, ServerShape, Spend, TurnShape, retry, session
<1>8. ServerShape'
  BY NotNames, StampIsNew, NoStamp DEF CopyUp, DataTyped, Deleted, Failed, Free,
       GiveUp, Go, Leave, NoAsk, ServerShape, Spend, TurnShape, Versions, retry,
       session
<1>9. TurnTyped' /\ TurnShape'
  <2>1. CASE Leave
    BY <2>1, LeaveTyped DEF CopyUp
  <2>2. CASE ~Leave
    <3>1. turn' = [turn EXCEPT !.phase = "swap", !.sent = local]
      BY <2>2 DEF CopyUp, Go
    <3>2. turn.phase # "free"
      BY <2>2 DEF CopyUp
    <3>3. turn' \in Turns /\ turn'.by = turn.by
      BY <3>1 DEF TurnTyped, Turns, Phases, OptContents, OptStamps, Versions, DataTyped
    <3>4. TurnTyped'
      BY <2>2, <3>3 DEF TurnTyped, CopyUp, Go
    <3>5. TurnShape'
      BY <3>1, <3>2, <3>3, NotNames
         DEF TurnShape, ServerShape, TurnTyped, Turns, CopyUp, DataTyped, Deleted,
            Versions
    <3> QED
      BY <3>4, <3>5
  <2> QED
    BY <2>1, <2>2
<1> QED
  BY <1>1, <1>2, <1>3, <1>4, <1>5, <1>6, <1>7, <1>8, <1>9

\* SwapIn keeps the types.
LEMMA SwapInTyped ==
  ASSUME Typed, SwapIn
  PROVE  Typed'
<1> USE DEF Typed, Workers, Callers
<1>1. DataTyped'
  BY NotNames, StampIsNew, NoStamp DEF DataTyped, Free, Leave, NoAsk, OptContents,
       OptStamps, ServerShape, SwapIn, TurnShape, Versions
<1>2. FailureTyped'
  BY NotNames DEF FailureTyped, Free, Leave, NoAsk, ServerShape, SwapIn, TurnShape
<1>3. RestTyped'
  BY NotNames DEF Free, Leave, NoAsk, RestTyped, ServerShape, SwapIn, TurnShape
<1>4. PendingTyped'
  BY NotNames, IdIsNew DEF Conflicts, DataTyped, Free, Leave, NoAsk, OptContents,
       OptStamps, PendingTyped, ServerShape, SwapIn, TurnShape, Versions
<1>5. PcTyped'
  BY NotNames DEF Free, Leave, NoAsk, PcTyped, ServerShape, SwapIn, TurnShape,
       TurnTyped
<1>6. AskTyped'
  BY NotNames DEF AskTyped, Conflicts, Free, Leave, NoAsk, PendingTyped,
       ServerShape, SwapIn, TurnShape
<1>7. TurnTyped'
  BY NotNames DEF Free, Leave, NoAsk, OptContents, OptStamps, PcTyped, Phases,
       ServerShape, SwapIn, TurnShape, TurnTyped, Turns, Versions
<1>8. TurnShape'
  BY NotNames DEF Free, Leave, NoAsk, ServerShape, SwapIn, TurnShape, TurnTyped,
       Turns
<1>9. CallsAsk'
  BY NotNames DEF AskTyped, CallsAsk, Free, Leave, NoAsk, PcTyped, ServerShape,
       SwapIn, TurnShape
<1>10. ServerShape'
  BY NotNames, StampIsNew, NoStamp DEF DataTyped, Deleted, Free, Leave, NoAsk,
       ServerShape, SwapIn, TurnShape, Versions
<1> QED
  BY <1>1, <1>2, <1>3, <1>4, <1>5, <1>6, <1>7, <1>8, <1>9, <1>10

\* SwapFails keeps the types.
LEMMA SwapFailsTyped ==
  ASSUME Typed, SwapFails
  PROVE  Typed'
<1> USE DEF Typed, Workers, Callers
<1>1. DataTyped'
  BY NotNames, StampIsNew, NoStamp DEF DataTyped, Deleted, Failed, Free, GiveUp,
       Leave, NoAsk, OptContents, OptStamps, ServerShape, Spend, SwapFails,
       TurnShape, Versions, retry, session
<1>2. FailureTyped'
  <2>1. turn.hash \in Contents
    BY DEF TurnShape, SwapFails
  <2>2. CASE GiveUp
    BY <2>1, <2>2, GiveUpTyped
  <2>3. CASE UNCHANGED retry
    BY <2>3 DEF retry, FailureTyped
  <2> QED
    BY <2>2, <2>3 DEF SwapFails
<1>3. RestTyped'
  <2>1. saveSeen' = saveSeen /\ latest' = latest
    BY DEF SwapFails
  <2>2. raced' \in BOOLEAN
    BY DEF SwapFails, RestTyped
  <2>3. left' \in [{"saves", "writes", "faults"} -> Nat]
    BY DEF SwapFails, Spend, RestTyped
  <2> QED
    BY <2>1, <2>2, <2>3 DEF RestTyped
<1>4. PendingTyped'
  BY NotNames, IdIsNew DEF Conflicts, DataTyped, Deleted, Failed, Free, GiveUp,
       Leave, NoAsk, OptContents, OptStamps, PendingTyped, ServerShape, Spend,
       SwapFails, TurnShape, Versions, retry, session
<1>5. PcTyped'
  BY NotNames DEF Deleted, Failed, Free, GiveUp, Leave, NoAsk, PcTyped,
       ServerShape, Spend, SwapFails, TurnShape, TurnTyped, retry, session
<1>6. AskTyped'
  BY NotNames DEF AskTyped, Conflicts, Deleted, Failed, Free, GiveUp, Leave,
       NoAsk, PendingTyped, ServerShape, Spend, SwapFails, TurnShape, retry,
       session
<1>7. TurnTyped'
  BY NotNames DEF Deleted, Failed, Free, GiveUp, Leave, NoAsk, OptContents,
       OptStamps, PcTyped, Phases, ServerShape, Spend, SwapFails, TurnShape,
       TurnTyped, Turns, Versions, retry, session
<1>8. TurnShape'
  BY NotNames DEF Deleted, Failed, Free, GiveUp, Leave, NoAsk, ServerShape, Spend,
       SwapFails, TurnShape, TurnTyped, Turns, retry, session
<1>9. CallsAsk'
  BY NotNames DEF AskTyped, CallsAsk, Deleted, Failed, Free, GiveUp, Leave, NoAsk,
       PcTyped, ServerShape, Spend, SwapFails, TurnShape, retry, session
<1>10. ServerShape'
  BY NotNames, StampIsNew, NoStamp DEF DataTyped, Deleted, Failed, Free, GiveUp,
       Leave, NoAsk, ServerShape, Spend, SwapFails, TurnShape, Versions, retry,
       session
<1> QED
  BY <1>1, <1>2, <1>3, <1>4, <1>5, <1>6, <1>7, <1>8, <1>9, <1>10

\* ReadCopy keeps the types.
LEMMA ReadCopyTyped ==
  ASSUME Typed, ReadCopy
  PROVE  Typed'
<1> USE DEF Typed, Workers, Callers
<1>1. DataTyped'
  BY NotNames, StampIsNew, NoStamp DEF DataTyped, Free, Go, Leave, NoAsk,
       OptContents, OptStamps, ReadCopy, ServerShape, Spend, TurnShape, Versions,
       retry, session
<1>2. FailureTyped'
  BY NotNames DEF FailureTyped, Free, Go, Leave, NoAsk, ReadCopy, ServerShape,
       Spend, TurnShape, retry, session
<1>3. RestTyped'
  BY NotNames DEF Free, Go, Leave, NoAsk, ReadCopy, RestTyped, ServerShape, Spend,
       TurnShape, retry, session
<1>4. PendingTyped'
  BY NotNames, IdIsNew DEF Conflicts, DataTyped, Free, Go, Leave, NoAsk,
       OptContents, OptStamps, PendingTyped, ReadCopy, ServerShape, Spend,
       TurnShape, Versions, retry, session
<1>5. PcTyped'
  BY NotNames DEF Free, Go, Leave, NoAsk, PcTyped, ReadCopy, ServerShape, Spend,
       TurnShape, TurnTyped, retry, session
<1>6. AskTyped'
  BY NotNames DEF AskTyped, Conflicts, Free, Go, Leave, NoAsk, PendingTyped,
       ReadCopy, ServerShape, Spend, TurnShape, retry, session
<1>7. CallsAsk'
  BY NotNames DEF AskTyped, CallsAsk, Free, Go, Leave, NoAsk, PcTyped, ReadCopy,
       ServerShape, Spend, TurnShape, retry, session
<1>8. ServerShape'
  BY NotNames, StampIsNew, NoStamp DEF DataTyped, Deleted, Free, Go, Leave, NoAsk,
       ReadCopy, ServerShape, Spend, TurnShape, Versions, retry, session
<1>9. TurnTyped' /\ TurnShape'
  <2>1. CASE Leave
    BY <2>1, LeaveTyped DEF ReadCopy
  <2>2. CASE ~Leave
    <3>1. PICK p \in {"decide", "recheck"} : turn' = [turn EXCEPT !.hash = local, !.phase = p]
      BY <2>2 DEF ReadCopy, Go
    <3>2. turn.phase # "free"
      BY <2>2 DEF ReadCopy
    <3>3. turn' \in Turns /\ turn'.by = turn.by
      BY <3>1 DEF TurnTyped, Turns, Phases, OptContents, OptStamps, Versions, DataTyped
    <3>4. TurnTyped'
      BY <2>2, <3>3 DEF TurnTyped, ReadCopy, Go
    <3>5. TurnShape'
      BY <3>1, <3>2, <3>3, NotNames
         DEF TurnShape, ServerShape, TurnTyped, Turns, ReadCopy, DataTyped, Deleted,
            Versions
    <3> QED
      BY <3>4, <3>5
  <2> QED
    BY <2>1, <2>2
<1> QED
  BY <1>1, <1>2, <1>3, <1>4, <1>5, <1>6, <1>7, <1>8, <1>9

\* Recheck keeps the types.
LEMMA RecheckTyped ==
  ASSUME Typed, Recheck
  PROVE  Typed'
<1> USE DEF Typed, Workers, Callers
<1>1. DataTyped'
  BY NotNames, StampIsNew, NoStamp DEF AsReported, DataTyped, Free, Go, HoldBack,
       Known, Leave, NoAsk, OptContents, OptStamps, Recheck, ServerShape, Spend,
       TurnShape, Versions, View, retry
<1>2. FailureTyped'
  BY NotNames DEF AsReported, FailureTyped, Free, Go, HoldBack, Known, Leave,
       NoAsk, Recheck, ServerShape, Spend, TurnShape, View, retry
<1>3. RestTyped'
  BY NotNames DEF AsReported, Free, Go, HoldBack, Known, Leave, NoAsk, Recheck,
       RestTyped, ServerShape, Spend, TurnShape, View, retry
<1>4. PendingTyped'
  BY NotNames, IdIsNew DEF AsReported, Conflicts, DataTyped, Free, Go, HoldBack,
       Known, Leave, NoAsk, OptContents, OptStamps, PendingTyped, Recheck,
       ServerShape, Spend, TurnShape, Versions, View, retry
<1>5. PcTyped'
  BY NotNames DEF AsReported, Free, Go, HoldBack, Known, Leave, NoAsk, PcTyped,
       Recheck, ServerShape, Spend, TurnShape, TurnTyped, View, retry
<1>6. AskTyped'
  BY NotNames DEF AsReported, AskTyped, Conflicts, Free, Go, HoldBack, Known,
       Leave, NoAsk, PendingTyped, Recheck, ServerShape, Spend, TurnShape, View,
       retry
<1>7. CallsAsk'
  BY NotNames DEF AsReported, AskTyped, CallsAsk, Free, Go, HoldBack, Known,
       Leave, NoAsk, PcTyped, Recheck, ServerShape, Spend, TurnShape, View, retry
<1>8. ServerShape'
  BY NotNames, StampIsNew, NoStamp DEF AsReported, DataTyped, Deleted, Free, Go,
       HoldBack, Known, Leave, NoAsk, Recheck, ServerShape, Spend, TurnShape,
       Versions, View, retry
<1>9. TurnTyped' /\ TurnShape'
  <2>1. CASE Leave
    BY <2>1, LeaveTyped DEF Recheck
  <2>2. CASE ~Leave
    <3>1. turn' = [turn EXCEPT !.phase = "copy"]
      BY <2>2 DEF Recheck, Go
    <3>2. turn.phase # "free"
      BY <2>2 DEF Recheck
    <3>3. turn' \in Turns /\ turn'.by = turn.by
      BY <3>1 DEF TurnTyped, Turns, Phases, OptContents, OptStamps, Versions, DataTyped
    <3>4. TurnTyped'
      BY <2>2, <3>3 DEF TurnTyped, Recheck, Go
    <3>5. TurnShape'
      BY <3>1, <3>2, <3>3, NotNames
         DEF TurnShape, ServerShape, TurnTyped, Turns, Recheck, DataTyped, Deleted,
            Versions
    <3> QED
      BY <3>4, <3>5
  <2> QED
    BY <2>1, <2>2
<1> QED
  BY <1>1, <1>2, <1>3, <1>4, <1>5, <1>6, <1>7, <1>8, <1>9

\* StatForReload keeps the types.
LEMMA StatForReloadTyped ==
  ASSUME Typed, StatForReload
  PROVE  Typed'
<1> USE DEF Typed, Workers, Callers
<1>1. DataTyped'
  BY NotNames, StampIsNew, NoStamp DEF DataTyped, Deleted, Free, Go, Leave, NoAsk,
       OptContents, OptStamps, ServerShape, Spend, StatForReload, TurnShape,
       Versions, retry, session
<1>2. FailureTyped'
  BY NotNames DEF Deleted, FailureTyped, Free, Go, Leave, NoAsk, ServerShape,
       Spend, StatForReload, TurnShape, retry, session
<1>3. RestTyped'
  BY NotNames DEF Deleted, Free, Go, Leave, NoAsk, RestTyped, ServerShape, Spend,
       StatForReload, TurnShape, retry, session
<1>4. PendingTyped'
  BY NotNames, IdIsNew DEF Conflicts, DataTyped, Deleted, Free, Go, Leave, NoAsk,
       OptContents, OptStamps, PendingTyped, ServerShape, Spend, StatForReload,
       TurnShape, Versions, retry, session
<1>5. PcTyped'
  BY NotNames DEF Deleted, Free, Go, Leave, NoAsk, PcTyped, ServerShape, Spend,
       StatForReload, TurnShape, TurnTyped, retry, session
<1>6. AskTyped'
  BY NotNames DEF AskTyped, Conflicts, Deleted, Free, Go, Leave, NoAsk,
       PendingTyped, ServerShape, Spend, StatForReload, TurnShape, retry, session
<1>7. CallsAsk'
  BY NotNames DEF AskTyped, CallsAsk, Deleted, Free, Go, Leave, NoAsk, PcTyped,
       ServerShape, Spend, StatForReload, TurnShape, retry, session
<1>8. ServerShape'
  BY NotNames, StampIsNew, NoStamp DEF DataTyped, Deleted, Free, Go, Leave, NoAsk,
       ServerShape, Spend, StatForReload, TurnShape, Versions, retry, session
<1>9. TurnTyped' /\ TurnShape'
  <2>1. CASE Leave
    BY <2>1, LeaveTyped DEF StatForReload
  <2>2. CASE ~Leave
    <3>1. turn' = [turn EXCEPT !.phase = "download", !.stat = server.stamp]
      BY <2>2 DEF StatForReload, Go
    <3>2. server # Deleted /\ turn.phase # "free"
      BY <2>2 DEF StatForReload
    <3>3. turn' \in Turns /\ turn'.by = turn.by
      BY <3>1 DEF TurnTyped, Turns, Phases, OptContents, OptStamps, Versions, DataTyped
    <3>4. TurnTyped'
      BY <2>2, <3>3 DEF TurnTyped, StatForReload, Go
    <3>5. TurnShape'
      BY <3>1, <3>2, <3>3, NotNames
         DEF TurnShape, ServerShape, TurnTyped, Turns, StatForReload, DataTyped,
            Deleted, Versions
    <3> QED
      BY <3>4, <3>5
  <2> QED
    BY <2>1, <2>2
<1> QED
  BY <1>1, <1>2, <1>3, <1>4, <1>5, <1>6, <1>7, <1>8, <1>9

\* Download keeps the types.
LEMMA DownloadTyped ==
  ASSUME Typed, Download
  PROVE  Typed'
<1> USE DEF Typed, Workers, Callers
<1>1. DataTyped'
  BY NotNames, StampIsNew, NoStamp DEF DataTyped, Deleted, Download, Free, Leave,
       NoAsk, OptContents, OptStamps, ServerShape, Spend, TurnShape, Versions,
       retry, session
<1>2. FailureTyped'
  BY NotNames DEF Deleted, Download, FailureTyped, Free, Leave, NoAsk,
       ServerShape, Spend, TurnShape, retry, session
<1>3. RestTyped'
  BY NotNames DEF Deleted, Download, Free, Leave, NoAsk, RestTyped, ServerShape,
       Spend, TurnShape, retry, session
<1>4. PendingTyped'
  BY NotNames, IdIsNew DEF Conflicts, DataTyped, Deleted, Download, Free, Leave,
       NoAsk, OptContents, OptStamps, PendingTyped, ServerShape, Spend, TurnShape,
       Versions, retry, session
<1>5. PcTyped'
  BY NotNames DEF Deleted, Download, Free, Leave, NoAsk, PcTyped, ServerShape,
       Spend, TurnShape, TurnTyped, retry, session
<1>6. AskTyped'
  BY NotNames DEF AskTyped, Conflicts, Deleted, Download, Free, Leave, NoAsk,
       PendingTyped, ServerShape, Spend, TurnShape, retry, session
<1>7. CallsAsk'
  BY NotNames DEF AskTyped, CallsAsk, Deleted, Download, Free, Leave, NoAsk,
       PcTyped, ServerShape, Spend, TurnShape, retry, session
<1>8. ServerShape'
  BY NotNames, StampIsNew, NoStamp DEF DataTyped, Deleted, Download, Free, Leave,
       NoAsk, ServerShape, Spend, TurnShape, Versions, retry, session
<1>9. TurnTyped' /\ TurnShape'
  <2>1. CASE Leave
    BY <2>1, LeaveTyped DEF Download
  <2>2. CASE ~Leave
    <3>1. turn' = [turn EXCEPT !.phase = "adopt", !.sent = server.content]
      BY <2>2 DEF Download, Go
    <3>2. server # Deleted /\ turn.phase # "free"
      BY <2>2 DEF Download
    <3>3. turn' \in Turns /\ turn'.by = turn.by
      BY <3>1 DEF TurnTyped, Turns, Phases, OptContents, OptStamps, Versions, DataTyped
    <3>4. pc' = pc \/ \E t \in Tasks : pc[t] = "idle" /\ pc' = [pc EXCEPT ![t] = "save"]
      BY <2>2 DEF Download
    <3>5. \A w \in Callers : pc'[w] = "turn" <=> pc[w] = "turn"
      BY <3>4 DEF PcTyped
    <3>6. TurnTyped'
      BY <3>3, <3>5 DEF TurnTyped
    <3>7. TurnShape'
      BY <3>1, <3>2, <3>3, NotNames DEF TurnShape, ServerShape, TurnTyped, Turns,
         Download, DataTyped, Deleted, Versions
    <3> QED
      BY <3>6, <3>7
  <2> QED
    BY <2>1, <2>2
<1> QED
  BY <1>1, <1>2, <1>3, <1>4, <1>5, <1>6, <1>7, <1>8, <1>9

\* Adopt keeps the types.
LEMMA AdoptTyped ==
  ASSUME Typed, Adopt
  PROVE  Typed'
<1> USE DEF Typed, Workers, Callers
<1>1. DataTyped'
  <2>1. baseline' = turn.stat /\ synced' = turn.sent /\ held' = turn.sent
    BY DEF Adopt
  <2>2. turn.sent \in Contents /\ turn.stat \in OptStamps
    BY DEF Adopt, TurnShape, TurnTyped, Turns
  <2>3. server' = server /\ local' = local /\ open' = open
    BY DEF Adopt
  <2> QED
    BY <2>1, <2>2, <2>3 DEF DataTyped
<1>2. FailureTyped'
  BY NotNames DEF Adopt, FailureTyped, Free, Leave, NoAsk, ServerShape, TurnShape
<1>3. RestTyped'
  BY NotNames DEF Adopt, Free, Leave, NoAsk, RestTyped, ServerShape, TurnShape
<1>4. PendingTyped'
  BY NotNames, IdIsNew DEF Adopt, Conflicts, DataTyped, Free, Leave, NoAsk,
       OptContents, OptStamps, PendingTyped, ServerShape, TurnShape, Versions
<1>5. PcTyped'
  BY NotNames DEF Adopt, Free, Leave, NoAsk, PcTyped, ServerShape, TurnShape,
       TurnTyped
<1>6. AskTyped'
  BY NotNames DEF Adopt, AskTyped, Conflicts, Free, Leave, NoAsk, PendingTyped,
       ServerShape, TurnShape
<1>7. TurnTyped'
  BY NotNames DEF Adopt, Free, Leave, NoAsk, OptContents, OptStamps, PcTyped,
       Phases, ServerShape, TurnShape, TurnTyped, Turns, Versions
<1>8. TurnShape'
  BY NotNames DEF Adopt, Free, Leave, NoAsk, ServerShape, TurnShape, TurnTyped,
       Turns
<1>9. CallsAsk'
  BY NotNames DEF Adopt, AskTyped, CallsAsk, Free, Leave, NoAsk, PcTyped,
       ServerShape, TurnShape
<1>10. ServerShape'
  BY NotNames, StampIsNew, NoStamp DEF Adopt, DataTyped, Deleted, Free, Leave,
       NoAsk, ServerShape, TurnShape, Versions
<1> QED
  BY <1>1, <1>2, <1>3, <1>4, <1>5, <1>6, <1>7, <1>8, <1>9, <1>10

\* Decide keeps the types.
LEMMA DecideTyped ==
  ASSUME Typed, Decide
  PROVE  Typed'
<1> USE DEF Typed, Workers, Callers
<1>1. DataTyped' /\ ServerShape'
  BY NotNames, StampIsNew, NoStamp DEF DataTyped, Decide, Free, Leave, NoAsk,
       OptContents, OptStamps, ServerShape, Versions, retry, session
<1>2. FailureTyped' /\ RestTyped' /\ PendingTyped'
  BY NotNames DEF Decide, FailureTyped, Free, Leave, NoAsk, PendingTyped,
       RestTyped, retry, session
<1>3. PcTyped' /\ AskTyped' /\ CallsAsk'
  BY NotNames DEF AskTyped, CallsAsk, Decide, Free, Leave, NoAsk, PcTyped,
       TurnShape, TurnTyped, retry, session
<1>4. TurnTyped' /\ TurnShape'
  BY NotNames DEF Decide, Free, Leave, NoAsk, OptContents, OptStamps, PcTyped,
       Phases, TurnShape, TurnTyped, Turns, retry, session
<1> QED
  BY <1>1, <1>2, <1>3, <1>4

\* The first state has the types.
LEMMA InitTyped == Init => Typed
<1> SUFFICES ASSUME Init PROVE Typed
  OBVIOUS
<1> USE StartIsThere, BoundsAreNat, NotNames DEF Init
<1>1. DataTyped /\ ServerShape
  BY DEF DataTyped, Versions, OptContents, OptStamps, ServerShape, Deleted
<1>2. turn \in Turns /\ TurnShape
  BY DEF Turns, Phases, OptContents, OptStamps, TurnShape, Free
<1>3. \A w \in Callers : pc[w] = "turn" <=> turn.by = w
  BY DEF Free
<1>4. AskTyped /\ CallsAsk
  BY DEF AskTyped, NoAsk, CallsAsk, Callers
<1>5. FailureTyped /\ PendingTyped /\ PcTyped
  BY DEF FailureTyped, PendingTyped, PcTyped
<1>6. RestTyped
  <2>1. left \in [{"saves", "writes", "faults"} -> Nat]
    OBVIOUS
  <2>2. saveSeen \in BOOLEAN /\ latest \in Workers \cup {None} /\ raced \in BOOLEAN
    OBVIOUS
  <2> QED
    BY <2>1, <2>2 DEF RestTyped
<1> QED
  BY <1>1, <1>2, <1>3, <1>4, <1>5, <1>6 DEF Typed, TurnTyped

-----------------------------------------------------------------------------
(* What is known of the server, and what the user was told. *)

\* EditorSaves keeps the invariant.
LEMMA EditorSavesKeeps ==
  ASSUME Inv, NEW x \in Contents, EditorSaves(x), Typed'
  PROVE  Inv'
<1> USE DEF Inv, Typed, Workers, Callers
<1>1. /\ UNCHANGED <<server, session, retry, ask, turn, raced>>
      /\ BaselineIsHonest /\ ReloadIsHonest /\ AnswersPending
      /\ NothingUnseenIsReplaced /\ SilentRetriesWereReported /\ QuietIsRepeat
  BY DEF EditorSaves
<1> QED
  BY <1>1
     DEF BaselineIsHonest, ReloadIsHonest, AnswersPending,
         NothingUnseenIsReplaced, SilentRetriesWereReported, QuietIsRepeat,
         session, retry, View, Known

\* OthersWrite keeps the invariant.
LEMMA OthersWriteKeeps ==
  ASSUME Inv, NEW x \in Contents, OthersWrite(x), Typed'
  PROVE  Inv'
<1> USE DEF Inv, Typed, Workers, Callers
<1>1. BaselineIsHonest'
  BY NotNames, StampIsNew, NoStamp DEF BaselineIsHonest, DataTyped, FailureTyped,
       OthersWrite, Remembered, ServerShape, Spend, TurnShape, TurnTyped, retry,
       session
<1>2. ReloadIsHonest'
  BY NotNames, StampIsNew, NoStamp DEF DataTyped, FailureTyped, OthersWrite,
       ReloadIsHonest, Remembered, ServerShape, Spend, TurnShape, TurnTyped,
       retry, session
<1>3. AnswersPending'
  BY NotNames, StampIsNew, NoStamp DEF AnswersPending, DataTyped, FailureTyped,
       OthersWrite, ServerShape, Spend, TurnShape, TurnTyped, retry, session
<1>4. NothingUnseenIsReplaced'
  BY NotNames, StampIsNew, NoStamp DEF AnswersPending, DataTyped, FailureTyped,
       Known, NothingUnseenIsReplaced, OthersWrite, Remembered, ServerShape,
       Spend, TurnShape, TurnTyped, View, retry, session
<1>5. SilentRetriesWereReported'
  BY NotNames, StampIsNew, NoStamp DEF DataTyped, FailureTyped, OthersWrite,
       QuietIsRepeat, ServerShape, SilentRetriesWereReported, Spend, TurnShape,
       TurnTyped, retry, session
<1>6. QuietIsRepeat'
  BY NotNames, StampIsNew, NoStamp DEF DataTyped, FailureTyped, OthersWrite,
       QuietIsRepeat, ServerShape, Spend, TurnShape, TurnTyped, retry, session
<1> QED
  BY <1>1, <1>2, <1>3, <1>4, <1>5, <1>6

\* OthersDelete keeps the invariant.
LEMMA OthersDeleteKeeps ==
  ASSUME Inv, OthersDelete, Typed'
  PROVE  Inv'
<1> USE DEF Inv, Typed, Workers, Callers
<1>1. BaselineIsHonest'
  BY NotNames, StampIsNew, NoStamp DEF BaselineIsHonest, DataTyped, Deleted,
       FailureTyped, OthersDelete, Remembered, ServerShape, Spend, TurnShape,
       TurnTyped, retry, session
<1>2. ReloadIsHonest'
  BY NotNames, StampIsNew, NoStamp DEF DataTyped, Deleted, FailureTyped,
       OthersDelete, ReloadIsHonest, Remembered, ServerShape, Spend, TurnShape,
       TurnTyped, retry, session
<1>3. AnswersPending'
  BY NotNames, StampIsNew, NoStamp DEF AnswersPending, DataTyped, Deleted,
       FailureTyped, OthersDelete, ServerShape, Spend, TurnShape, TurnTyped,
       retry, session
<1>4. NothingUnseenIsReplaced'
  BY NotNames, StampIsNew, NoStamp DEF AnswersPending, DataTyped, Deleted,
       FailureTyped, Known, NothingUnseenIsReplaced, OthersDelete, Remembered,
       ServerShape, Spend, TurnShape, TurnTyped, View, retry, session
<1>5. SilentRetriesWereReported'
  BY NotNames, StampIsNew, NoStamp DEF DataTyped, Deleted, FailureTyped,
       OthersDelete, QuietIsRepeat, ServerShape, SilentRetriesWereReported, Spend,
       TurnShape, TurnTyped, retry, session
<1>6. QuietIsRepeat'
  BY NotNames, StampIsNew, NoStamp DEF DataTyped, Deleted, FailureTyped,
       OthersDelete, QuietIsRepeat, ServerShape, Spend, TurnShape, TurnTyped,
       retry, session
<1> QED
  BY <1>1, <1>2, <1>3, <1>4, <1>5, <1>6

\* End keeps the invariant.
LEMMA EndKeeps ==
  ASSUME Inv, End, Typed'
  PROVE  Inv'
<1> USE DEF Inv, Typed, Workers, Callers
<1>1. /\ UNCHANGED <<server, session, retry, ask, turn, raced>>
      /\ BaselineIsHonest /\ ReloadIsHonest /\ AnswersPending
      /\ NothingUnseenIsReplaced /\ SilentRetriesWereReported /\ QuietIsRepeat
  BY DEF End
<1> QED
  BY <1>1
     DEF BaselineIsHonest, ReloadIsHonest, AnswersPending,
         NothingUnseenIsReplaced, SilentRetriesWereReported, QuietIsRepeat,
         session, retry, View, Known

\* Settle keeps the invariant.
LEMMA SettleKeeps ==
  ASSUME Inv, NEW x \in Tasks, Settle(x), Typed'
  PROVE  Inv'
<1> USE DEF Inv, Typed, Workers, Callers
<1>1. /\ UNCHANGED <<server, session, retry, ask, turn, raced>>
      /\ BaselineIsHonest /\ ReloadIsHonest /\ AnswersPending
      /\ NothingUnseenIsReplaced /\ SilentRetriesWereReported /\ QuietIsRepeat
  BY DEF Settle
<1> QED
  BY <1>1
     DEF BaselineIsHonest, ReloadIsHonest, AnswersPending,
         NothingUnseenIsReplaced, SilentRetriesWereReported, QuietIsRepeat,
         session, retry, View, Known

\* RescanTick keeps the invariant.
LEMMA RescanTickKeeps ==
  ASSUME Inv, RescanTick, Typed'
  PROVE  Inv'
<1> USE DEF Inv, Typed, Workers, Callers
<1>1. /\ UNCHANGED <<server, session, retry, ask, turn, raced>>
      /\ BaselineIsHonest /\ ReloadIsHonest /\ AnswersPending
      /\ NothingUnseenIsReplaced /\ SilentRetriesWereReported /\ QuietIsRepeat
  BY DEF RescanTick
<1> QED
  BY <1>1
     DEF BaselineIsHonest, ReloadIsHonest, AnswersPending,
         NothingUnseenIsReplaced, SilentRetriesWereReported, QuietIsRepeat,
         session, retry, View, Known

\* Elapse keeps the invariant.
LEMMA ElapseKeeps ==
  ASSUME Inv, NEW x \in Workers, Elapse(x), Typed'
  PROVE  Inv'
<1> USE DEF Inv, Typed, Workers, Callers
<1>1. /\ UNCHANGED <<server, session, retry, ask, turn, raced>>
      /\ BaselineIsHonest /\ ReloadIsHonest /\ AnswersPending
      /\ NothingUnseenIsReplaced /\ SilentRetriesWereReported /\ QuietIsRepeat
  BY DEF Elapse
<1> QED
  BY <1>1
     DEF BaselineIsHonest, ReloadIsHonest, AnswersPending,
         NothingUnseenIsReplaced, SilentRetriesWereReported, QuietIsRepeat,
         session, retry, View, Known

\* TakeTurn keeps the invariant.
LEMMA TakeTurnKeeps ==
  ASSUME Inv, NEW x \in Workers, TakeTurn(x), Typed'
  PROVE  Inv'
<1> USE DEF Inv, Typed, Workers, Callers
<1>1. \/ turn' = turn
      \/ turn'.phase = "hash" /\ turn'.quiet = FALSE
  BY DEF TakeTurn, Free
<1>2. UNCHANGED <<server, session, retry, ask, raced>>
  BY DEF TakeTurn
<1>3. BaselineIsHonest' /\ SilentRetriesWereReported'
  BY <1>2 DEF BaselineIsHonest, SilentRetriesWereReported, session, retry
<1>4. ReloadIsHonest' /\ AnswersPending' /\ NothingUnseenIsReplaced' /\ QuietIsRepeat'
  BY <1>1, <1>2
     DEF ReloadIsHonest, AnswersPending, NothingUnseenIsReplaced, QuietIsRepeat, View,
        Known,
         session, retry
<1> QED
  BY <1>3, <1>4

\* RetryDue keeps the invariant.
LEMMA RetryDueKeeps ==
  ASSUME Inv, RetryDue, Typed'
  PROVE  Inv'
<1> USE DEF Inv, Typed, Workers, Callers
<1>1. BaselineIsHonest'
  BY NotNames, StampIsNew, NoStamp DEF BaselineIsHonest, DataTyped, FailureTyped,
       Remembered, RetryDue, ServerShape, TurnShape, TurnTyped, session
<1>2. ReloadIsHonest'
  BY NotNames, StampIsNew, NoStamp DEF DataTyped, FailureTyped, ReloadIsHonest,
       Remembered, RetryDue, ServerShape, TurnShape, TurnTyped, session
<1>3. AnswersPending'
  BY NotNames, StampIsNew, NoStamp DEF AnswersPending, DataTyped, FailureTyped,
       RetryDue, ServerShape, TurnShape, TurnTyped, session
<1>4. NothingUnseenIsReplaced'
  BY NotNames, StampIsNew, NoStamp DEF AnswersPending, DataTyped, FailureTyped,
       Known, NothingUnseenIsReplaced, Remembered, RetryDue, ServerShape,
       TurnShape, TurnTyped, View, session
<1>5. SilentRetriesWereReported'
  BY NotNames, StampIsNew, NoStamp DEF DataTyped, FailureTyped, QuietIsRepeat,
       RetryDue, ServerShape, SilentRetriesWereReported, TurnShape, TurnTyped,
       session
<1>6. QuietIsRepeat'
  BY NotNames, StampIsNew, NoStamp DEF DataTyped, FailureTyped, QuietIsRepeat,
       RetryDue, ServerShape, TurnShape, TurnTyped, session
<1> QED
  BY <1>1, <1>2, <1>3, <1>4, <1>5, <1>6

\* AnswerConflict keeps the invariant.
LEMMA AnswerConflictKeeps ==
  ASSUME Inv, NEW x \in Calls, AnswerConflict(x), Typed'
  PROVE  Inv'
<1> USE DEF Inv, Typed, Workers, Callers
<1>1. BaselineIsHonest'
  BY NotNames, StampIsNew, NoStamp DEF AnswerConflict, BaselineIsHonest,
       DataTyped, FailureTyped, Remembered, ServerShape, TurnShape, TurnTyped,
       retry, session
<1>2. ReloadIsHonest'
  BY NotNames, StampIsNew, NoStamp DEF AnswerConflict, DataTyped, FailureTyped,
       ReloadIsHonest, Remembered, ServerShape, TurnShape, TurnTyped, retry,
       session
<1>3. AnswersPending'
  <2>1. UNCHANGED <<turn, server, session, raced>>
    BY DEF AnswerConflict
  <2>2. turn.by \in Calls => turn.by # x
    BY DEF AnswerConflict, TurnTyped
  <2>3. turn.by \in Calls => ask'[turn.by] = ask[turn.by]
    BY <2>2 DEF AnswerConflict, AskTyped
  <2> QED
    BY <2>1, <2>3 DEF AnswersPending, View, Known, session
<1>4. NothingUnseenIsReplaced'
  <2>1. UNCHANGED <<turn, server, session, raced>>
    BY DEF AnswerConflict
  <2>2. turn.by \in Calls => turn.by # x
    BY DEF AnswerConflict, TurnTyped
  <2>3. turn.by \in Calls => ask'[turn.by] = ask[turn.by]
    BY <2>2 DEF AnswerConflict, AskTyped
  <2> QED
    BY <2>1, <2>3 DEF NothingUnseenIsReplaced, View, Known, session
<1>5. SilentRetriesWereReported'
  BY NotNames, StampIsNew, NoStamp DEF AnswerConflict, DataTyped, FailureTyped,
       QuietIsRepeat, ServerShape, SilentRetriesWereReported, TurnShape,
       TurnTyped, retry, session
<1>6. QuietIsRepeat'
  BY NotNames, StampIsNew, NoStamp DEF AnswerConflict, DataTyped, FailureTyped,
       QuietIsRepeat, ServerShape, TurnShape, TurnTyped, retry, session
<1> QED
  BY <1>1, <1>2, <1>3, <1>4, <1>5, <1>6

\* StopEditing keeps the invariant.
LEMMA StopEditingKeeps ==
  ASSUME Inv, NEW x \in Calls, StopEditing(x), Typed'
  PROVE  Inv'
<1> USE DEF Inv, Typed, Workers, Callers
<1>1. BaselineIsHonest'
  BY NotNames, StampIsNew, NoStamp DEF BaselineIsHonest, DataTyped, FailureTyped,
       Remembered, ServerShape, StopEditing, TurnShape, TurnTyped, retry, session
<1>2. ReloadIsHonest'
  BY NotNames, StampIsNew, NoStamp DEF DataTyped, FailureTyped, ReloadIsHonest,
       Remembered, ServerShape, StopEditing, TurnShape, TurnTyped, retry, session
<1>3. AnswersPending'
  <2>1. UNCHANGED <<turn, server, session, raced>>
    BY DEF StopEditing
  <2>2. turn.by \in Calls => turn.by # x
    BY DEF StopEditing, TurnTyped
  <2>3. turn.by \in Calls => ask'[turn.by] = ask[turn.by]
    BY <2>2 DEF StopEditing, AskTyped
  <2> QED
    BY <2>1, <2>3 DEF AnswersPending, View, Known, session
<1>4. NothingUnseenIsReplaced'
  <2>1. UNCHANGED <<turn, server, session, raced>>
    BY DEF StopEditing
  <2>2. turn.by \in Calls => turn.by # x
    BY DEF StopEditing, TurnTyped
  <2>3. turn.by \in Calls => ask'[turn.by] = ask[turn.by]
    BY <2>2 DEF StopEditing, AskTyped
  <2> QED
    BY <2>1, <2>3 DEF NothingUnseenIsReplaced, View, Known, session
<1>5. SilentRetriesWereReported'
  BY NotNames, StampIsNew, NoStamp DEF DataTyped, FailureTyped, QuietIsRepeat,
       ServerShape, SilentRetriesWereReported, StopEditing, TurnShape, TurnTyped,
       retry, session
<1>6. QuietIsRepeat'
  BY NotNames, StampIsNew, NoStamp DEF DataTyped, FailureTyped, QuietIsRepeat,
       ServerShape, StopEditing, TurnShape, TurnTyped, retry, session
<1> QED
  BY <1>1, <1>2, <1>3, <1>4, <1>5, <1>6

\* Refuse keeps the invariant.
LEMMA RefuseKeeps ==
  ASSUME Inv, NEW x \in Calls, Refuse(x), Typed'
  PROVE  Inv'
<1> USE DEF Inv, Typed, Workers, Callers
<1>1. BaselineIsHonest'
  BY NotNames, StampIsNew, NoStamp DEF BaselineIsHonest, Current, DataTyped,
       FailureTyped, Free, NoAsk, Refuse, Remembered, ServerShape, TurnShape,
       TurnTyped, retry, session
<1>2. ReloadIsHonest'
  BY NotNames, StampIsNew, NoStamp DEF Current, DataTyped, FailureTyped, Free,
       NoAsk, Refuse, ReloadIsHonest, Remembered, ServerShape, TurnShape,
       TurnTyped, retry, session
<1>3. AnswersPending'
  BY NotNames, StampIsNew, NoStamp DEF AnswersPending, Current, DataTyped,
       FailureTyped, Free, NoAsk, Refuse, ServerShape, TurnShape, TurnTyped,
       retry, session
<1>4. NothingUnseenIsReplaced'
  BY NotNames, StampIsNew, NoStamp DEF AnswersPending, Current, DataTyped,
       FailureTyped, Free, Known, NoAsk, NothingUnseenIsReplaced, Refuse,
       Remembered, ServerShape, TurnShape, TurnTyped, View, retry, session
<1>5. SilentRetriesWereReported'
  BY NotNames, StampIsNew, NoStamp DEF Current, DataTyped, FailureTyped, Free,
       NoAsk, QuietIsRepeat, Refuse, ServerShape, SilentRetriesWereReported,
       TurnShape, TurnTyped, retry, session
<1>6. QuietIsRepeat'
  BY NotNames, StampIsNew, NoStamp DEF Current, DataTyped, FailureTyped, Free,
       NoAsk, QuietIsRepeat, Refuse, ServerShape, TurnShape, TurnTyped, retry,
       session
<1> QED
  BY <1>1, <1>2, <1>3, <1>4, <1>5, <1>6

\* CloseTimesOut keeps the invariant.
LEMMA CloseTimesOutKeeps ==
  ASSUME Inv, NEW x \in Calls, CloseTimesOut(x), Typed'
  PROVE  Inv'
<1> USE DEF Inv, Typed, Workers, Callers
<1>1. BaselineIsHonest'
  BY NotNames, StampIsNew, NoStamp DEF BaselineIsHonest, CloseTimesOut, DataTyped,
       FailureTyped, Free, NoAsk, Remembered, ServerShape, TurnShape, TurnTyped,
       retry, session
<1>2. ReloadIsHonest'
  BY NotNames, StampIsNew, NoStamp DEF CloseTimesOut, DataTyped, FailureTyped,
       Free, NoAsk, ReloadIsHonest, Remembered, ServerShape, TurnShape, TurnTyped,
       retry, session
<1>3. AnswersPending'
  BY NotNames, StampIsNew, NoStamp DEF AnswersPending, CloseTimesOut, DataTyped,
       FailureTyped, Free, NoAsk, ServerShape, TurnShape, TurnTyped, retry,
       session
<1>4. NothingUnseenIsReplaced'
  BY NotNames, StampIsNew, NoStamp DEF AnswersPending, CloseTimesOut, DataTyped,
       FailureTyped, Free, Known, NoAsk, NothingUnseenIsReplaced, Remembered,
       ServerShape, TurnShape, TurnTyped, View, retry, session
<1>5. SilentRetriesWereReported'
  BY NotNames, StampIsNew, NoStamp DEF CloseTimesOut, DataTyped, FailureTyped,
       Free, NoAsk, QuietIsRepeat, ServerShape, SilentRetriesWereReported,
       TurnShape, TurnTyped, retry, session
<1>6. QuietIsRepeat'
  BY NotNames, StampIsNew, NoStamp DEF CloseTimesOut, DataTyped, FailureTyped,
       Free, NoAsk, QuietIsRepeat, ServerShape, TurnShape, TurnTyped, retry,
       session
<1> QED
  BY <1>1, <1>2, <1>3, <1>4, <1>5, <1>6

\* Admit keeps the invariant.
LEMMA AdmitKeeps ==
  ASSUME Inv, NEW x \in Calls, Admit(x), Typed'
  PROVE  Inv'
<1> USE DEF Inv, Typed, Workers, Callers
<1>1. BaselineIsHonest'
  BY NotNames, StampIsNew, NoStamp DEF Admit, BaselineIsHonest, Current,
       DataTyped, FailureTyped, FirstPhase, Free, Remembered, ServerShape,
       TurnShape, TurnTyped, retry, session
<1>2. ReloadIsHonest'
  BY NotNames, StampIsNew, NoStamp DEF Admit, Current, DataTyped, FailureTyped,
       FirstPhase, Free, ReloadIsHonest, Remembered, ServerShape, TurnShape,
       TurnTyped, retry, session
<1>3. AnswersPending'
  <2>1. /\ turn'.by = x /\ turn'.phase = FirstPhase(ask[x].act)
        /\ pending' = pending /\ ask' = ask
    BY DEF Admit, Free, session
  <2>2. ask[x].act \in {"overwrite", "reload", "close"}
    BY DEF Admit, AskTyped, CallsAsk
  <2>3. CASE ask[x].act = "overwrite"
    BY <2>1, <2>3 DEF Admit, Current, AnswersPending
  <2>4. CASE ask[x].act # "overwrite"
    BY <2>1, <2>2, <2>4 DEF FirstPhase, AnswersPending
  <2> QED
    BY <2>3, <2>4
<1>4. NothingUnseenIsReplaced'
  BY NotNames, StampIsNew, NoStamp DEF Admit, AnswersPending, Current, DataTyped,
       FailureTyped, FirstPhase, Free, Known, NothingUnseenIsReplaced, Remembered,
       ServerShape, TurnShape, TurnTyped, View, retry, session
<1>5. SilentRetriesWereReported'
  BY NotNames, StampIsNew, NoStamp DEF Admit, Current, DataTyped, FailureTyped,
       FirstPhase, Free, QuietIsRepeat, ServerShape, SilentRetriesWereReported,
       TurnShape, TurnTyped, retry, session
<1>6. QuietIsRepeat'
  BY NotNames, StampIsNew, NoStamp DEF Admit, Current, DataTyped, FailureTyped,
       FirstPhase, Free, QuietIsRepeat, ServerShape, TurnShape, TurnTyped, retry,
       session
<1> QED
  BY <1>1, <1>2, <1>3, <1>4, <1>5, <1>6

\* HashCopy keeps the invariant.
LEMMA HashCopyKeeps ==
  ASSUME Inv, HashCopy, Typed'
  PROVE  Inv'
<1> USE DEF Inv, Typed, Workers, Callers
<1>1. BaselineIsHonest'
  BY NotNames, StampIsNew, NoStamp DEF BaselineIsHonest, DataTyped, Failed,
       FailureTyped, Free, Go, HashCopy, Leave, NoAsk, Remembered, ServerShape,
       Spend, TurnShape, TurnTyped, retry, session
<1>2. SilentRetriesWereReported'
  BY NotNames, StampIsNew, NoStamp DEF DataTyped, Failed, FailureTyped, Free, Go,
       HashCopy, Leave, NoAsk, QuietIsRepeat, ServerShape,
       SilentRetriesWereReported, Spend, TurnShape, TurnTyped, retry, session
<1>3. /\ ReloadIsHonest' /\ AnswersPending'
      /\ NothingUnseenIsReplaced' /\ QuietIsRepeat'
  <2>1. CASE Leave
    <3>1. turn'.phase = "free" /\ turn'.quiet = FALSE
      BY <2>1 DEF Leave, Free
    <3> QED
      BY <3>1
         DEF ReloadIsHonest, AnswersPending, NothingUnseenIsReplaced, QuietIsRepeat
  <2>2. CASE ~Leave
    <3>1. turn'.phase = "check" /\ turn'.by = turn.by /\ turn'.hash = local
      BY <2>2 DEF HashCopy, Go, TurnTyped, Turns
    <3>2. UNCHANGED <<pending, server, baseline, synced, ask>>
      BY <2>2 DEF HashCopy, Go, session
    <3>3. ReloadIsHonest'
      BY <3>1, <3>2 DEF ReloadIsHonest
    <3>4. AnswersPending'
      BY <2>2, <3>1, <3>2, NotNames DEF AnswersPending, TurnShape, HashCopy
    <3>5. NothingUnseenIsReplaced'
      BY <2>2, <3>1, <3>2
         DEF NothingUnseenIsReplaced, View, Known
    <3>6. failure' = failure /\ (turn'.quiet => failure = local)
      BY <2>2 DEF HashCopy, retry, Go, TurnTyped, Turns
    <3>7. QuietIsRepeat'
      BY <3>1, <3>6 DEF QuietIsRepeat
    <3> QED
      BY <3>3, <3>4, <3>5, <3>7
  <2> QED
    BY <2>1, <2>2
<1> QED
  BY <1>1, <1>2, <1>3

\* CheckRemote keeps the invariant.
LEMMA CheckRemoteKeeps ==
  ASSUME Inv, CheckRemote, Typed'
  PROVE  Inv'
<1> USE DEF Inv, Typed, Workers, Callers
<1>1. BaselineIsHonest'
  BY NotNames, StampIsNew, NoStamp DEF BaselineIsHonest, CheckRemote, DataTyped,
       Failed, FailureTyped, Free, GiveUp, Go, HoldBack, Known, Leave, NoAsk,
       Remembered, ServerShape, Spend, TurnShape, TurnTyped, View, retry
<1>2. SilentRetriesWereReported'
  BY NotNames, StampIsNew, NoStamp DEF CheckRemote, DataTyped, Failed,
       FailureTyped, Free, GiveUp, Go, HoldBack, Known, Leave, NoAsk,
       QuietIsRepeat, ServerShape, SilentRetriesWereReported, Spend, TurnShape,
       TurnTyped, View, retry
<1>3. /\ ReloadIsHonest' /\ AnswersPending'
      /\ NothingUnseenIsReplaced' /\ QuietIsRepeat'
  <2>1. CASE Leave
    <3>1. turn'.phase = "free" /\ turn'.quiet = FALSE
      BY <2>1 DEF Leave, Free
    <3> QED
      BY <3>1
         DEF ReloadIsHonest, AnswersPending, NothingUnseenIsReplaced, QuietIsRepeat
  <2>2. CASE ~Leave
    <3>1. /\ turn'.phase = "copy" /\ turn'.by = turn.by
          /\ turn'.hash = turn.hash /\ turn'.quiet = turn.quiet
      BY <2>2 DEF CheckRemote, Go, TurnTyped, Turns
    <3>2. UNCHANGED <<pending, server, baseline, synced, ask>>
      BY <2>2 DEF CheckRemote, Go, session
    <3>3. ReloadIsHonest'
      BY <3>1, <3>2 DEF ReloadIsHonest
    <3>4. AnswersPending'
      BY <2>2, <3>1, <3>2, NotNames DEF AnswersPending, TurnShape, CheckRemote
    <3>5. NothingUnseenIsReplaced'
      BY <2>2, <3>1, <3>2
         DEF NothingUnseenIsReplaced, View, Known, CheckRemote
    <3>6. failure' = failure
      BY <2>2 DEF CheckRemote, retry, Go
    <3>7. QuietIsRepeat'
      BY <3>1, <3>6 DEF QuietIsRepeat, CheckRemote
    <3> QED
      BY <3>3, <3>4, <3>5, <3>7
  <2> QED
    BY <2>1, <2>2
<1> QED
  BY <1>1, <1>2, <1>3

\* CopyUp keeps the invariant.
LEMMA CopyUpKeeps ==
  ASSUME Inv, CopyUp, Typed'
  PROVE  Inv'
<1> USE DEF Inv, Typed, Workers, Callers
<1>1. BaselineIsHonest'
  BY NotNames, StampIsNew, NoStamp DEF BaselineIsHonest, CopyUp, DataTyped,
       Failed, FailureTyped, Free, GiveUp, Go, Leave, NoAsk, Remembered,
       ServerShape, Spend, TurnShape, TurnTyped, retry, session
<1>2. SilentRetriesWereReported'
  BY NotNames, StampIsNew, NoStamp DEF CopyUp, DataTyped, Failed, FailureTyped,
       Free, GiveUp, Go, Leave, NoAsk, QuietIsRepeat, ServerShape,
       SilentRetriesWereReported, Spend, TurnShape, TurnTyped, retry, session
<1>3. /\ ReloadIsHonest' /\ AnswersPending'
      /\ NothingUnseenIsReplaced' /\ QuietIsRepeat'
  <2>1. CASE Leave
    <3>1. turn'.phase = "free" /\ turn'.quiet = FALSE
      BY <2>1 DEF Leave, Free
    <3> QED
      BY <3>1
         DEF ReloadIsHonest, AnswersPending, NothingUnseenIsReplaced, QuietIsRepeat
  <2>2. CASE ~Leave
    <3>1. /\ turn'.phase = "swap" /\ turn'.by = turn.by
          /\ turn'.hash = turn.hash /\ turn'.quiet = turn.quiet
      BY <2>2 DEF CopyUp, Go, TurnTyped, Turns
    <3>2. UNCHANGED <<pending, server, baseline, synced, ask>>
      BY <2>2 DEF CopyUp, Go, session
    <3>3. ReloadIsHonest'
      BY <3>1, <3>2 DEF ReloadIsHonest
    <3>4. AnswersPending'
      BY <2>2, <3>1, <3>2, NotNames DEF AnswersPending, TurnShape, CopyUp
    <3>5. NothingUnseenIsReplaced'
      BY <2>2, <3>1, <3>2
         DEF NothingUnseenIsReplaced, View, Known, CopyUp
    <3>6. failure' = failure
      BY <2>2 DEF CopyUp, retry, Go
    <3>7. QuietIsRepeat'
      BY <3>1, <3>6 DEF QuietIsRepeat, CopyUp
    <3> QED
      BY <3>3, <3>4, <3>5, <3>7
  <2> QED
    BY <2>1, <2>2
<1> QED
  BY <1>1, <1>2, <1>3

\* SwapIn keeps the invariant.
LEMMA SwapInKeeps ==
  ASSUME Inv, SwapIn, Typed'
  PROVE  Inv'
<1> USE DEF Inv, Typed, Workers, Callers
<1>1. BaselineIsHonest'
  BY NotNames, StampIsNew, NoStamp DEF BaselineIsHonest, DataTyped, FailureTyped,
       Free, Leave, NoAsk, Remembered, ServerShape, SwapIn, TurnShape, TurnTyped
<1>2. ReloadIsHonest'
  BY NotNames, StampIsNew, NoStamp DEF DataTyped, FailureTyped, Free, Leave,
       NoAsk, ReloadIsHonest, Remembered, ServerShape, SwapIn, TurnShape,
       TurnTyped
<1>3. AnswersPending'
  BY NotNames, StampIsNew, NoStamp DEF AnswersPending, DataTyped, FailureTyped,
       Free, Leave, NoAsk, ServerShape, SwapIn, TurnShape, TurnTyped
<1>4. NothingUnseenIsReplaced'
  BY NotNames, StampIsNew, NoStamp DEF AnswersPending, DataTyped, FailureTyped,
       Free, Known, Leave, NoAsk, NothingUnseenIsReplaced, Remembered,
       ServerShape, SwapIn, TurnShape, TurnTyped, View
<1>5. SilentRetriesWereReported'
  BY NotNames, StampIsNew, NoStamp DEF DataTyped, FailureTyped, Free, Leave,
       NoAsk, QuietIsRepeat, ServerShape, SilentRetriesWereReported, SwapIn,
       TurnShape, TurnTyped
<1>6. QuietIsRepeat'
  BY NotNames, StampIsNew, NoStamp DEF DataTyped, FailureTyped, Free, Leave,
       NoAsk, QuietIsRepeat, ServerShape, SwapIn, TurnShape, TurnTyped
<1> QED
  BY <1>1, <1>2, <1>3, <1>4, <1>5, <1>6

\* SwapFails keeps the invariant.
LEMMA SwapFailsKeeps ==
  ASSUME Inv, SwapFails, Typed'
  PROVE  Inv'
<1> USE DEF Inv, Typed, Workers, Callers
<1>1. BaselineIsHonest'
  BY NotNames, StampIsNew, NoStamp DEF BaselineIsHonest, DataTyped, Deleted,
       Failed, FailureTyped, Free, GiveUp, Leave, NoAsk, Remembered, ServerShape,
       Spend, SwapFails, TurnShape, TurnTyped, retry, session
<1>2. ReloadIsHonest'
  BY NotNames, StampIsNew, NoStamp DEF DataTyped, Deleted, Failed, FailureTyped,
       Free, GiveUp, Leave, NoAsk, ReloadIsHonest, Remembered, ServerShape, Spend,
       SwapFails, TurnShape, TurnTyped, retry, session
<1>3. AnswersPending'
  BY NotNames, StampIsNew, NoStamp DEF AnswersPending, DataTyped, Deleted, Failed,
       FailureTyped, Free, GiveUp, Leave, NoAsk, ServerShape, Spend, SwapFails,
       TurnShape, TurnTyped, retry, session
<1>4. NothingUnseenIsReplaced'
  BY NotNames, StampIsNew, NoStamp DEF AnswersPending, DataTyped, Deleted, Failed,
       FailureTyped, Free, GiveUp, Known, Leave, NoAsk, NothingUnseenIsReplaced,
       Remembered, ServerShape, Spend, SwapFails, TurnShape, TurnTyped, View,
       retry, session
<1>5. SilentRetriesWereReported'
  BY NotNames, StampIsNew, NoStamp DEF DataTyped, Deleted, Failed, FailureTyped,
       Free, GiveUp, Leave, NoAsk, QuietIsRepeat, ServerShape,
       SilentRetriesWereReported, Spend, SwapFails, TurnShape, TurnTyped, retry,
       session
<1>6. QuietIsRepeat'
  BY NotNames, StampIsNew, NoStamp DEF DataTyped, Deleted, Failed, FailureTyped,
       Free, GiveUp, Leave, NoAsk, QuietIsRepeat, ServerShape, Spend, SwapFails,
       TurnShape, TurnTyped, retry, session
<1> QED
  BY <1>1, <1>2, <1>3, <1>4, <1>5, <1>6

\* ReadCopy keeps the invariant.
LEMMA ReadCopyKeeps ==
  ASSUME Inv, ReadCopy, Typed'
  PROVE  Inv'
<1> USE DEF Inv, Typed, Workers, Callers
<1>1. BaselineIsHonest'
  BY NotNames, StampIsNew, NoStamp DEF BaselineIsHonest, DataTyped, FailureTyped,
       Free, Go, Leave, NoAsk, ReadCopy, Remembered, ServerShape, Spend,
       TurnShape, TurnTyped, retry, session
<1>2. SilentRetriesWereReported'
  BY NotNames, StampIsNew, NoStamp DEF DataTyped, FailureTyped, Free, Go, Leave,
       NoAsk, QuietIsRepeat, ReadCopy, ServerShape, SilentRetriesWereReported,
       Spend, TurnShape, TurnTyped, retry, session
<1>3. /\ ReloadIsHonest' /\ AnswersPending'
      /\ NothingUnseenIsReplaced' /\ QuietIsRepeat'
  <2>1. CASE Leave
    <3>1. turn'.phase = "free" /\ turn'.quiet = FALSE
      BY <2>1 DEF Leave, Free
    <3> QED
      BY <3>1
         DEF ReloadIsHonest, AnswersPending, NothingUnseenIsReplaced, QuietIsRepeat
  <2>2. CASE ~Leave
    <3>1. /\ turn'.phase = (IF turn.phase = "look" THEN "decide" ELSE "recheck")
          /\ turn'.by = turn.by /\ turn'.quiet = turn.quiet
      BY <2>2 DEF ReadCopy, Go, TurnTyped, Turns
    <3>2. UNCHANGED <<pending, server, baseline, synced, ask>>
      BY <2>2 DEF ReadCopy, Go, session
    <3>3. ReloadIsHonest'
      BY <3>1, <3>2 DEF ReloadIsHonest
    <3>4. AnswersPending'
      BY <2>2, <3>1, <3>2, NotNames DEF AnswersPending, TurnShape, ReadCopy
    <3>5. NothingUnseenIsReplaced'
      BY <2>2, <3>1, <3>2
         DEF NothingUnseenIsReplaced, View, Known
    <3>6. QuietIsRepeat'
      BY <3>1 DEF QuietIsRepeat, ReadCopy
    <3> QED
      BY <3>3, <3>4, <3>5, <3>6
  <2> QED
    BY <2>1, <2>2
<1> QED
  BY <1>1, <1>2, <1>3

\* Recheck keeps the invariant.
LEMMA RecheckKeeps ==
  ASSUME Inv, Recheck, Typed'
  PROVE  Inv'
<1> USE DEF Inv, Typed, Workers, Callers
<1>1. BaselineIsHonest'
  BY NotNames, StampIsNew, NoStamp DEF AsReported, BaselineIsHonest, DataTyped,
       FailureTyped, Free, Go, HoldBack, Known, Leave, NoAsk, Recheck, Remembered,
       ServerShape, Spend, TurnShape, TurnTyped, View, retry
<1>2. SilentRetriesWereReported'
  BY NotNames, StampIsNew, NoStamp DEF AsReported, DataTyped, FailureTyped, Free,
       Go, HoldBack, Known, Leave, NoAsk, QuietIsRepeat, Recheck, ServerShape,
       SilentRetriesWereReported, Spend, TurnShape, TurnTyped, View, retry
<1>3. /\ ReloadIsHonest' /\ AnswersPending'
      /\ NothingUnseenIsReplaced' /\ QuietIsRepeat'
  <2>1. CASE Leave
    <3>1. turn'.phase = "free" /\ turn'.quiet = FALSE
      BY <2>1 DEF Leave, Free
    <3> QED
      BY <3>1
         DEF ReloadIsHonest, AnswersPending, NothingUnseenIsReplaced, QuietIsRepeat
  <2>2. CASE ~Leave
    <3>1. /\ turn'.phase = "copy" /\ turn'.by = turn.by
          /\ turn'.hash = turn.hash /\ turn'.quiet = turn.quiet
      BY <2>2 DEF Recheck, Go, TurnTyped, Turns
    <3>2. UNCHANGED <<pending, server, baseline, synced, ask>>
      BY <2>2 DEF Recheck, Go, session
    <3>3. ReloadIsHonest'
      BY <3>1, <3>2 DEF ReloadIsHonest
    <3>4. AnswersPending'
      BY <2>2, <3>1, <3>2, NotNames DEF AnswersPending, TurnShape, Recheck
    <3>5. NothingUnseenIsReplaced'
      BY <2>2, <3>1, <3>2
         DEF NothingUnseenIsReplaced, View, Known, Recheck,
             AsReported, AnswersPending, TurnShape
    <3>6. QuietIsRepeat'
      BY <3>1 DEF QuietIsRepeat, Recheck
    <3> QED
      BY <3>3, <3>4, <3>5, <3>6
  <2> QED
    BY <2>1, <2>2
<1> QED
  BY <1>1, <1>2, <1>3

\* StatForReload keeps the invariant.
LEMMA StatForReloadKeeps ==
  ASSUME Inv, StatForReload, Typed'
  PROVE  Inv'
<1> USE DEF Inv, Typed, Workers, Callers
<1>1. BaselineIsHonest'
  BY NotNames, StampIsNew, NoStamp DEF BaselineIsHonest, DataTyped, Deleted,
       FailureTyped, Free, Go, Leave, NoAsk, Remembered, ServerShape, Spend,
       StatForReload, TurnShape, TurnTyped, retry, session
<1>2. SilentRetriesWereReported'
  BY NotNames, StampIsNew, NoStamp DEF DataTyped, Deleted, FailureTyped, Free, Go,
       Leave, NoAsk, QuietIsRepeat, ServerShape, SilentRetriesWereReported, Spend,
       StatForReload, TurnShape, TurnTyped, retry, session
<1>3. /\ ReloadIsHonest' /\ AnswersPending'
      /\ NothingUnseenIsReplaced' /\ QuietIsRepeat'
  <2>1. CASE Leave
    <3>1. turn'.phase = "free" /\ turn'.quiet = FALSE
      BY <2>1 DEF Leave, Free
    <3> QED
      BY <3>1
         DEF ReloadIsHonest, AnswersPending, NothingUnseenIsReplaced, QuietIsRepeat
  <2>2. CASE ~Leave
    <3>1. turn'.phase = "download" /\ turn'.by = turn.by /\ turn'.quiet = turn.quiet
      BY <2>2 DEF StatForReload, Go, TurnTyped, Turns
    <3>2. UNCHANGED <<pending, server, baseline, synced, ask>>
      BY <2>2 DEF StatForReload, Go, session
    <3>3. ReloadIsHonest'
      BY <3>1, <3>2 DEF ReloadIsHonest
    <3>4. AnswersPending'
      BY <2>2, <3>1, <3>2, NotNames DEF AnswersPending, TurnShape, StatForReload
    <3>5. NothingUnseenIsReplaced'
      BY <2>2, <3>1, <3>2
         DEF NothingUnseenIsReplaced, View, Known
    <3>6. QuietIsRepeat'
      BY <3>1 DEF QuietIsRepeat, StatForReload
    <3> QED
      BY <3>3, <3>4, <3>5, <3>6
  <2> QED
    BY <2>1, <2>2
<1> QED
  BY <1>1, <1>2, <1>3

\* Download keeps the invariant.
LEMMA DownloadKeeps ==
  ASSUME Inv, Download, Typed'
  PROVE  Inv'
<1> USE DEF Inv, Typed, Workers, Callers
<1>1. BaselineIsHonest'
  BY NotNames, StampIsNew, NoStamp DEF BaselineIsHonest, DataTyped, Deleted,
       Download, FailureTyped, Free, Leave, NoAsk, Remembered, ServerShape, Spend,
       TurnShape, TurnTyped, retry, session
<1>2. SilentRetriesWereReported'
  BY NotNames, StampIsNew, NoStamp DEF DataTyped, Deleted, Download, FailureTyped,
       Free, Leave, NoAsk, QuietIsRepeat, ServerShape, SilentRetriesWereReported,
       Spend, TurnShape, TurnTyped, retry, session
<1>3. /\ ReloadIsHonest' /\ AnswersPending'
      /\ NothingUnseenIsReplaced' /\ QuietIsRepeat'
  <2>1. CASE Leave
    <3>1. turn'.phase = "free" /\ turn'.quiet = FALSE
      BY <2>1 DEF Leave, Free
    <3> QED
      BY <3>1
         DEF ReloadIsHonest, AnswersPending, NothingUnseenIsReplaced, QuietIsRepeat
  <2>2. CASE ~Leave
    <3>1. /\ turn'.phase = "adopt" /\ turn'.by = turn.by /\ turn'.quiet = turn.quiet
          /\ turn'.sent = server.content /\ turn'.stat = turn.stat
      <4>1. turn' = [turn EXCEPT !.phase = "adopt", !.sent = server.content]
        BY <2>2 DEF Download
      <4> QED
        BY <4>1 DEF TurnTyped, Turns
    <3>2. UNCHANGED <<pending, server, baseline, synced, ask>>
      BY <2>2 DEF Download, Go, session
    <3>3. ReloadIsHonest'
      BY <3>1, <3>2 DEF ReloadIsHonest
    <3>4. AnswersPending'
      BY <2>2, <3>1, <3>2, NotNames DEF AnswersPending, TurnShape, Download
    <3>5. NothingUnseenIsReplaced'
      BY <2>2, <3>1, <3>2
         DEF NothingUnseenIsReplaced, View, Known
    <3>6. QuietIsRepeat'
      BY <3>1 DEF QuietIsRepeat, Download
    <3> QED
      BY <3>3, <3>4, <3>5, <3>6
  <2> QED
    BY <2>1, <2>2
<1> QED
  BY <1>1, <1>2, <1>3

\* Adopt keeps the invariant.
LEMMA AdoptKeeps ==
  ASSUME Inv, Adopt, Typed'
  PROVE  Inv'
<1> USE DEF Inv, Typed, Workers, Callers
<1>1. BaselineIsHonest'
  <2>1. baseline' = turn.stat /\ held' = turn.sent /\ server' = server /\ turn.phase = "adopt"
    BY DEF Adopt
  <2> QED
    BY <2>1 DEF BaselineIsHonest, ReloadIsHonest
<1>2. ReloadIsHonest'
  BY NotNames, StampIsNew, NoStamp DEF Adopt, DataTyped, FailureTyped, Free,
       Leave, NoAsk, ReloadIsHonest, Remembered, ServerShape, TurnShape, TurnTyped
<1>3. AnswersPending'
  BY NotNames, StampIsNew, NoStamp DEF Adopt, AnswersPending, DataTyped,
       FailureTyped, Free, Leave, NoAsk, ServerShape, TurnShape, TurnTyped
<1>4. NothingUnseenIsReplaced'
  BY NotNames, StampIsNew, NoStamp DEF Adopt, AnswersPending, DataTyped,
       FailureTyped, Free, Known, Leave, NoAsk, NothingUnseenIsReplaced,
       Remembered, ServerShape, TurnShape, TurnTyped, View
<1>5. SilentRetriesWereReported'
  BY NotNames, StampIsNew, NoStamp DEF Adopt, DataTyped, FailureTyped, Free,
       Leave, NoAsk, QuietIsRepeat, ServerShape, SilentRetriesWereReported,
       TurnShape, TurnTyped
<1>6. QuietIsRepeat'
  BY NotNames, StampIsNew, NoStamp DEF Adopt, DataTyped, FailureTyped, Free,
       Leave, NoAsk, QuietIsRepeat, ServerShape, TurnShape, TurnTyped
<1> QED
  BY <1>1, <1>2, <1>3, <1>4, <1>5, <1>6

\* Decide keeps the invariant.
LEMMA DecideKeeps ==
  ASSUME Inv, Decide, Typed'
  PROVE  Inv'
<1> USE DEF Inv, Typed, Workers, Callers
<1>1. BaselineIsHonest'
  BY NotNames, StampIsNew, NoStamp DEF BaselineIsHonest, DataTyped, Decide,
       FailureTyped, Free, Leave, NoAsk, Remembered, ServerShape, TurnShape,
       TurnTyped, retry, session
<1>2. ReloadIsHonest'
  BY NotNames, StampIsNew, NoStamp DEF DataTyped, Decide, FailureTyped, Free,
       Leave, NoAsk, ReloadIsHonest, Remembered, ServerShape, TurnShape,
       TurnTyped, retry, session
<1>3. AnswersPending'
  BY NotNames, StampIsNew, NoStamp DEF AnswersPending, DataTyped, Decide,
       FailureTyped, Free, Leave, NoAsk, ServerShape, TurnShape, TurnTyped, retry,
       session
<1>4. NothingUnseenIsReplaced'
  BY NotNames, StampIsNew, NoStamp DEF AnswersPending, DataTyped, Decide,
       FailureTyped, Free, Known, Leave, NoAsk, NothingUnseenIsReplaced,
       Remembered, ServerShape, TurnShape, TurnTyped, View, retry, session
<1>5. SilentRetriesWereReported'
  BY NotNames, StampIsNew, NoStamp DEF DataTyped, Decide, FailureTyped, Free,
       Leave, NoAsk, QuietIsRepeat, ServerShape, SilentRetriesWereReported,
       TurnShape, TurnTyped, retry, session
<1>6. QuietIsRepeat'
  BY NotNames, StampIsNew, NoStamp DEF DataTyped, Decide, FailureTyped, Free,
       Leave, NoAsk, QuietIsRepeat, ServerShape, TurnShape, TurnTyped, retry,
       session
<1> QED
  BY <1>1, <1>2, <1>3, <1>4, <1>5, <1>6

-----------------------------------------------------------------------------
(* The theorems. *)

\* The first state satisfies the invariant.
LEMMA InitInv == Init => Inv
<1> SUFFICES ASSUME Init PROVE Inv
  OBVIOUS
<1>1. Typed
  BY InitTyped
<1>2. BaselineIsHonest
  BY DEF Init, BaselineIsHonest
<1>3. turn.phase = "free" /\ ~turn.quiet /\ failure = None
  BY DEF Init, Free
<1> QED
  BY <1>1, <1>2, <1>3
     DEF Inv, ReloadIsHonest, AnswersPending, NothingUnseenIsReplaced,
         SilentRetriesWereReported, QuietIsRepeat

\* So does every step.
LEMMA NextInv == Inv /\ [Next]_vars => Inv'
<1> SUFFICES ASSUME Inv, [Next]_vars PROVE Inv'
  OBVIOUS
<1>0. Typed
  BY DEF Inv
<1>1. ASSUME NEW x \in Contents, EditorSaves(x) PROVE Inv'
  BY <1>0, <1>1, EditorSavesTyped, EditorSavesKeeps
<1>2. ASSUME NEW x \in Contents, OthersWrite(x) PROVE Inv'
  BY <1>0, <1>2, OthersWriteTyped, OthersWriteKeeps
<1>3. CASE OthersDelete
  BY <1>0, <1>3, OthersDeleteTyped, OthersDeleteKeeps
<1>4. CASE End
  BY <1>0, <1>4, EndTyped, EndKeeps
<1>5. ASSUME NEW x \in Tasks, Settle(x) PROVE Inv'
  BY <1>0, <1>5, SettleTyped, SettleKeeps
<1>6. CASE RescanTick
  BY <1>0, <1>6, RescanTickTyped, RescanTickKeeps
<1>7. ASSUME NEW x \in Workers, Elapse(x) PROVE Inv'
  BY <1>0, <1>7, ElapseTyped, ElapseKeeps
<1>8. ASSUME NEW x \in Workers, TakeTurn(x) PROVE Inv'
  BY <1>0, <1>8, TakeTurnTyped, TakeTurnKeeps
<1>9. CASE RetryDue
  BY <1>0, <1>9, RetryDueTyped, RetryDueKeeps
<1>10. ASSUME NEW x \in Calls, AnswerConflict(x) PROVE Inv'
  BY <1>0, <1>10, AnswerConflictTyped, AnswerConflictKeeps
<1>11. ASSUME NEW x \in Calls, StopEditing(x) PROVE Inv'
  BY <1>0, <1>11, StopEditingTyped, StopEditingKeeps
<1>12. ASSUME NEW x \in Calls, Refuse(x) PROVE Inv'
  BY <1>0, <1>12, RefuseTyped, RefuseKeeps
<1>13. ASSUME NEW x \in Calls, CloseTimesOut(x) PROVE Inv'
  BY <1>0, <1>13, CloseTimesOutTyped, CloseTimesOutKeeps
<1>14. ASSUME NEW x \in Calls, Admit(x) PROVE Inv'
  BY <1>0, <1>14, AdmitTyped, AdmitKeeps
<1>15. CASE HashCopy
  BY <1>0, <1>15, HashCopyTyped, HashCopyKeeps
<1>16. CASE CheckRemote
  BY <1>0, <1>16, CheckRemoteTyped, CheckRemoteKeeps
<1>17. CASE CopyUp
  BY <1>0, <1>17, CopyUpTyped, CopyUpKeeps
<1>18. CASE SwapIn
  BY <1>0, <1>18, SwapInTyped, SwapInKeeps
<1>19. CASE SwapFails
  BY <1>0, <1>19, SwapFailsTyped, SwapFailsKeeps
<1>20. CASE ReadCopy
  BY <1>0, <1>20, ReadCopyTyped, ReadCopyKeeps
<1>21. CASE Recheck
  BY <1>0, <1>21, RecheckTyped, RecheckKeeps
<1>22. CASE StatForReload
  BY <1>0, <1>22, StatForReloadTyped, StatForReloadKeeps
<1>23. CASE Download
  BY <1>0, <1>23, DownloadTyped, DownloadKeeps
<1>24. CASE Adopt
  BY <1>0, <1>24, AdoptTyped, AdoptKeeps
<1>25. CASE Decide
  BY <1>0, <1>25, DecideTyped, DecideKeeps
<1>26. CASE UNCHANGED vars
  BY <1>26 DEF vars, session, retry, Inv, Typed, DataTyped, FailureTyped, RestTyped,
     PendingTyped, PcTyped, AskTyped, TurnTyped,
     TurnShape, CallsAsk, ServerShape,
     BaselineIsHonest, ReloadIsHonest, AnswersPending, NothingUnseenIsReplaced,
     SilentRetriesWereReported, QuietIsRepeat, View, Known
<1> QED
  BY <1>1, <1>2, <1>3, <1>4, <1>5, <1>6, <1>7, <1>8, <1>9, <1>10, <1>11, <1>12, <1>13,
     <1>14, <1>15, <1>16, <1>17, <1>18, <1>19, <1>20, <1>21, <1>22, <1>23, <1>24,
     <1>25, <1>26 DEF Next, Step

\* What the holder of the lock remembers, whom it answers, what it may replace: the
\* inductive invariant of the edit (struct EditSync and everything under its lock).
THEOREM EditInvariant == Spec => []Inv
<1> QED
  BY InitInv, NextInv, PTL DEF Spec

\* Every variable has its type and the lock one holder (upload_lock).
THEOREM TypeCorrect == Spec => []TypeOK
<1>1. Inv => TypeOK
  BY DEF Inv, Typed, TypeOK, DataTyped, FailureTyped, RestTyped, PendingTyped,
     PcTyped, AskTyped, TurnTyped
<1> QED
  BY <1>1, EditInvariant, PTL

\* While the stamp of the server is the baseline, it holds what the edit downloaded or
\* sent last (check_remote).
THEOREM BaselineHonest == Spec => []BaselineIsHonest
<1>1. Inv => BaselineIsHonest
  BY DEF Inv
<1> QED
  BY <1>1, EditInvariant, PTL

\* No upload replaces a version that the edit had not agreed with and the user had not
\* answered, but for one written after the check (on_change, resolve).
THEOREM NothingUnseen == Spec => []NothingUnseenIsReplaced
<1>1. Inv => NothingUnseenIsReplaced
  BY DEF Inv
<1> QED
  BY <1>1, EditInvariant, PTL

\* A failure that is retried in silence was reported (failed).
THEOREM FailuresReported == Spec => []SilentRetriesWereReported
<1>1. Inv => SilentRetriesWereReported
  BY DEF Inv
<1> QED
  BY <1>1, EditInvariant, PTL

-----------------------------------------------------------------------------
(* What CloseKeepsUnsynced takes: a copy that no save changes between the two  *)
(* times an upload reads it.  The run edit_undo shows that it is not kept      *)
(* without that.                                                               *)

\* Nobody saves from the hash of the copy to its upload.
CopyRests == turn.phase \in {"check", "recheck", "copy"} => local' = local

\* What the session takes for synced is what the server was given or gave.
SyncedIsHeld ==
  /\ synced = held
  /\ turn.phase \in {"check", "recheck", "copy"} => turn.hash = local
  /\ turn.phase = "swap" => turn.sent = turn.hash

\* A step that changes neither the copy nor the session, and leaves the turn
\* alone, begins or ends it.
LEMMA SyncedKept ==
  ASSUME Typed, SyncedIsHeld, UNCHANGED <<synced, held>>,
         \/ turn' = Free
         \/ turn'.phase \in {"hash", "rehash", "stat", "look", "download",
                             "adopt", "decide"}
         \/ turn' = turn /\ (CopyRests \/ local' = local)
  PROVE  SyncedIsHeld'
BY DEF SyncedIsHeld, CopyRests, Free

\* The steps before and beside the turns.
LEMMA BesideSynced ==
  ASSUME Typed, SyncedIsHeld, CopyRests,
         \/ \E c \in Contents : EditorSaves(c) \/ OthersWrite(c)
         \/ OthersDelete \/ End \/ RescanTick \/ RetryDue
         \/ \E t \in Tasks : Settle(t)
         \/ \E w \in Workers : Elapse(w) \/ TakeTurn(w)
         \/ \E c \in Calls : AnswerConflict(c) \/ StopEditing(c) \/ Refuse(c)
                             \/ CloseTimesOut(c) \/ Admit(c)
  PROVE  SyncedIsHeld'
<1>1. UNCHANGED <<synced, held>>
  BY DEF EditorSaves, OthersWrite, OthersDelete, End, RescanTick, RetryDue,
     Settle, Elapse, TakeTurn, AnswerConflict, StopEditing, Refuse,
     CloseTimesOut, Admit, session
<1>2. CASE turn' = turn
  BY <1>1, <1>2, SyncedKept
<1>3. CASE turn' # turn
  <2>1. \/ \E w \in Workers : TakeTurn(w)
        \/ \E c \in Calls : Admit(c)
    BY <1>3 DEF EditorSaves, OthersWrite, OthersDelete, End, RescanTick,
       RetryDue, Settle, Elapse, AnswerConflict, StopEditing, Refuse,
       CloseTimesOut
  <2>2. ASSUME NEW w \in Workers, TakeTurn(w) PROVE turn'.phase = "hash"
    BY <1>3, <2>2 DEF TakeTurn, Free
  <2>3. ASSUME NEW c \in Calls, Admit(c)
        PROVE  turn'.phase \in {"rehash", "stat", "look"}
    <3>1. turn' = [Free EXCEPT !.by = c, !.phase = FirstPhase(ask[c].act)]
      BY <2>3 DEF Admit
    <3>2. ask[c].act \in {"overwrite", "reload", "close"}
      BY <2>3 DEF Admit, Typed, CallsAsk, AskTyped
    <3> QED
      BY <3>1, <3>2 DEF Free, FirstPhase
  <2> QED
    BY <1>1, <2>1, <2>2, <2>3, SyncedKept
<1> QED
  BY <1>2, <1>3

\* The steps of the holder of the lock.
LEMMA TurnSynced ==
  ASSUME Typed, SyncedIsHeld, CopyRests, Step
  PROVE  SyncedIsHeld'
<1>0. turn \in Turns /\ local \in Contents
  BY DEF Typed, TurnTyped, DataTyped
<1>1. CASE HashCopy
  <2>1. UNCHANGED <<local, synced, held>>
    BY <1>1 DEF HashCopy, session
  <2>2. CASE Leave
    BY <2>1, <2>2, SyncedKept DEF Leave
  <2>3. CASE \E q : Go([turn EXCEPT !.phase = "check", !.hash = local, !.quiet = q])
    BY <1>0, <2>1, <2>3 DEF Go, SyncedIsHeld, Turns
  <2> QED
    BY <1>1, <2>2, <2>3 DEF HashCopy
<1>2. CASE CheckRemote
  <2>1. UNCHANGED <<local, synced, held>> /\ turn.phase = "check"
    BY <1>2 DEF CheckRemote
  <2>2. CASE Leave
    BY <2>1, <2>2, SyncedKept DEF Leave
  <2>3. CASE Go([turn EXCEPT !.phase = "copy"])
    BY <1>0, <2>1, <2>3 DEF Go, SyncedIsHeld, Turns
  <2> QED
    BY <1>2, <2>2, <2>3 DEF CheckRemote
<1>3. CASE CopyUp
  <2>1. UNCHANGED <<local, synced, held>> /\ turn.phase = "copy"
    BY <1>3 DEF CopyUp, session
  <2>2. CASE Leave
    BY <2>1, <2>2, SyncedKept DEF Leave
  <2>3. CASE Go([turn EXCEPT !.phase = "swap", !.sent = local])
    BY <1>0, <2>1, <2>3 DEF Go, SyncedIsHeld, Turns
  <2> QED
    BY <1>3, <2>2, <2>3 DEF CopyUp
<1>4. CASE SwapIn
  BY <1>4 DEF SwapIn, Leave, SyncedIsHeld, Free
<1>5. CASE SwapFails
  BY <1>5, SyncedKept DEF SwapFails, Leave, session
<1>6. CASE ReadCopy
  <2>1. UNCHANGED <<local, synced, held>>
    BY <1>6 DEF ReadCopy, session
  <2>2. CASE Leave
    BY <2>1, <2>2, SyncedKept DEF Leave
  <2>3. CASE \E p \in {"decide", "recheck"} :
               Go([turn EXCEPT !.hash = local, !.phase = p])
    BY <1>0, <2>1, <2>3 DEF Go, SyncedIsHeld, Turns
  <2> QED
    BY <1>6, <2>2, <2>3 DEF ReadCopy
<1>7. CASE Recheck
  <2>1. UNCHANGED <<local, synced, held>> /\ turn.phase = "recheck"
    BY <1>7 DEF Recheck
  <2>2. CASE Leave
    BY <2>1, <2>2, SyncedKept DEF Leave
  <2>3. CASE Go([turn EXCEPT !.phase = "copy"])
    BY <1>0, <2>1, <2>3 DEF Go, SyncedIsHeld, Turns
  <2> QED
    BY <1>7, <2>2, <2>3 DEF Recheck
<1>8. CASE StatForReload
  <2>1. UNCHANGED <<local, synced, held>>
    BY <1>8 DEF StatForReload, session
  <2>2. CASE Leave
    BY <2>1, <2>2, SyncedKept DEF Leave
  <2>3. CASE Go([turn EXCEPT !.phase = "download", !.stat = server.stamp])
    <3>1. turn'.phase = "download"
      BY <1>0, <2>3 DEF Go, Turns
    <3> QED
      BY <2>1, <3>1, SyncedKept
  <2> QED
    BY <1>8, <2>2, <2>3 DEF StatForReload
<1>9. CASE Download
  <2>1. UNCHANGED <<synced, held>>
    BY <1>9 DEF Download, session
  <2>2. turn' = Free \/ turn'.phase = "adopt"
    BY <1>0, <1>9 DEF Download, Leave, Turns
  <2> QED
    BY <2>1, <2>2, SyncedKept
<1>10. CASE Adopt
  BY <1>10 DEF Adopt, Leave, SyncedIsHeld, Free
<1>11. CASE Decide
  BY <1>11, SyncedKept DEF Decide, Leave, session
<1> QED
  BY <1>1, <1>2, <1>3, <1>4, <1>5, <1>6, <1>7, <1>8, <1>9, <1>10, <1>11 DEF Step

LEMMA NextSynced ==
  Inv /\ SyncedIsHeld /\ [Next]_vars /\ [CopyRests]_vars => SyncedIsHeld'
<1>1. CASE UNCHANGED vars
  BY <1>1 DEF vars, session, SyncedIsHeld
<1>2. ASSUME Inv, SyncedIsHeld, CopyRests, Next PROVE SyncedIsHeld'
  BY <1>2, BesideSynced, TurnSynced DEF Next, Inv
<1> QED
  BY <1>1, <1>2

\* If no save lands between the hash of the copy and its upload, what the
\* session takes for synced is what the server was last given or gave
\* (on_change, upload, resolve).
THEOREM SyncedWhenAtRest == Spec /\ [][CopyRests]_vars => []SyncedIsHeld
<1>1. Init => SyncedIsHeld
  BY DEF Init, SyncedIsHeld, Free
<1> QED
  BY <1>1, NextSynced, EditInvariant, PTL DEF Spec

\* And then a close without force throws nothing away that the server was not
\* given (sftp_close_edit): the second reading of the copy is all that the
\* promise of its comment lacks.
THEOREM CloseKeepsWhenAtRest ==
  Spec /\ [][CopyRests]_vars => CloseKeepsUnsynced
<1>1. ASSUME Inv, SyncedIsHeld, Next, turn.phase = "decide", turn' = Free,
             open, ~open'
      PROVE  turn.hash = held
  <2>1. turn # Free
    BY <1>1 DEF Free
  <2>2. Decide
    BY <1>1, <2>1 DEF Next, Step, EditorSaves, OthersWrite, OthersDelete, End,
       RescanTick, RetryDue, Settle, Elapse, TakeTurn, AnswerConflict,
       StopEditing, Refuse, CloseTimesOut, Admit, HashCopy, CheckRemote, CopyUp,
       SwapIn, SwapFails, ReadCopy, Recheck, StatForReload, Download, Adopt
  <2> QED
    BY <1>1, <2>2 DEF Decide, SyncedIsHeld
<1>2. Inv /\ SyncedIsHeld /\ [Next]_vars =>
        [turn.phase = "decide" /\ turn' = Free /\ open /\ ~open' =>
           turn.hash = held]_vars
  BY <1>1
<1> QED
  BY <1>2, EditInvariant, SyncedWhenAtRest, PTL DEF Spec, CloseKeepsUnsynced

=============================================================================
