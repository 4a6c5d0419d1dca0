------------------------------ MODULE EditSync ------------------------------
(***************************************************************************)
(* One remote file open in a local editor: the staged copy, the watcher's   *)
(* tasks and the periodic rescan that sync it back, the conflicts held back *)
(* for the user, and the user's answers and "Stop editing" calls            *)
(* (commands/sftp.rs, struct EditSync).                                     *)
(*                                                                          *)
(* A content stands for its own SHA-256. A version of the remote file has a *)
(* stamp (size and modification time) no remembered version has; a server   *)
(* that reports neither is compared by content. Every network or disk call  *)
(* is a step of its own, and `Faults' of them may fail.                     *)
(***************************************************************************)
EXTENDS Naturals, FiniteSets

CONSTANTS
  Contents,     \* what the file may hold
  Start,        \* what it holds when it is opened
  Stamps,       \* stamps of versions of the remote file
  Ids,          \* conflict ids
  Tasks,        \* tasks the watcher's callback spawns
  Rescan,       \* the task of periodic_rescan
  Calls,        \* the user's sftp_edit_resolve and sftp_close_edit calls
  Stamped,      \* whether the server reports sizes and times
  None, Unreadable,
  Saves, Writes, Faults  \* bounds: editor saves, others' writes, failing calls

ASSUME NamesApart ==
  /\ None \notin Contents \cup Stamps \cup Ids \cup Tasks \cup Calls \cup {Rescan}
  /\ Unreadable \notin Contents \cup {None}
  /\ Rescan \notin Tasks \cup Calls
  /\ Tasks \cap Calls = {}

ASSUME StartIsThere == Start \in Contents /\ Stamps # {} /\ Stamped \in BOOLEAN

ASSUME BoundsAreNat == Saves \in Nat /\ Writes \in Nat /\ Faults \in Nat

VARIABLES
  server,    \* the remote file: [content, stamp], both None when deleted
  local,     \* the staged copy
  open,      \* the edit has not ended
  baseline, synced, pending,       \* what the session knows of the server
  saveSeen, failure, due,          \* SyncRetry
  latest,    \* the task of the newest debounce generation, until it has its turn
  pc, ask,   \* where each task or call is; what each call asks for
  turn,      \* upload_lock: its holder and what that holder remembers
  left,      \* how many saves, writes and faults are left
  held,      \* history: what the server held when this edit last agreed with it
  raced,     \* history: others wrote since the running upload's check
  told       \* history: contents whose failure was reported since a success

session == <<baseline, synced, pending, held>>
retry == <<failure, due, told>>
vars == <<server, local, open, session, saveSeen, retry, latest,
          pc, ask, turn, left, raced>>

Workers == Tasks \cup {Rescan}
Callers == Workers \cup Calls
Deleted == [content |-> None, stamp |-> None]
NoAsk == [act |-> "none", id |-> None]
Free == [by |-> None, phase |-> "free", saved |-> FALSE, quiet |-> FALSE,
         hash |-> None, sent |-> None, stat |-> None]

\* What a STAT, or a capped download where the server reports no stamp, tells.
View == IF Stamped THEN server.stamp ELSE server.content
\* What the session last agreed with, in the same terms.
Known == IF Stamped THEN baseline ELSE synced

Remembered == {server.stamp, baseline, turn.stat} \cup {p.remote : p \in {pending} \ {None}}
RoomForStamp == Stamped => \E s \in Stamps : s \notin Remembered
NewStamp == IF Stamped THEN CHOOSE s \in Stamps : s \notin Remembered ELSE None

UsedIds == {ask[c].id : c \in Calls} \cup {p.id : p \in {pending} \ {None}}
NewId == CHOOSE i \in Ids : i \notin UsedIds

Spend(what) == left[what] > 0 /\ left' = [left EXCEPT ![what] = @ - 1]

Init ==
  /\ server = [content |-> Start,
               stamp |-> IF Stamped THEN CHOOSE s \in Stamps : TRUE ELSE None]
  /\ local = Start /\ synced = Start /\ held = Start
  /\ baseline = server.stamp
  /\ open = TRUE
  /\ pending = None
  /\ saveSeen = FALSE
  /\ failure = None /\ due = FALSE /\ told = {}
  /\ latest = None
  /\ pc = [x \in Callers |-> "idle"]
  /\ ask = [c \in Calls |-> NoAsk]
  /\ turn = Free
  /\ left = [saves |-> Saves, writes |-> Writes, faults |-> Faults]
  /\ raced = FALSE

-----------------------------------------------------------------------------
(* The world: the editor, the watcher, and others on the server.            *)

\* A save; the watcher delivers it, reports an overflow, or loses it.
EditorSaves(c) ==
  /\ open
  /\ Spend("saves")
  /\ local' = c
  /\ \/ pc' = pc
     \/ \E t \in Tasks, event \in {"save", "overflow"} :
          pc[t] = "idle" /\ pc' = [pc EXCEPT ![t] = event]
  /\ UNCHANGED <<server, open, session, saveSeen, retry, latest,
                 ask, turn, raced>>

OthersWrite(c) ==
  /\ Spend("writes")
  /\ RoomForStamp
  /\ server' = [content |-> c, stamp |-> NewStamp]
  /\ raced' = (turn.phase \in {"copy", "swap"})
  /\ UNCHANGED <<local, open, session, saveSeen, retry, latest,
                 pc, ask, turn>>

OthersDelete ==
  /\ Spend("writes")
  /\ server # Deleted
  /\ server' = Deleted
  /\ raced' = (turn.phase \in {"copy", "swap"})
  /\ UNCHANGED <<local, open, session, saveSeen, retry, latest,
                 pc, ask, turn>>

\* A forced close, the session's close, a lock of the vault: no question asked.
End ==
  /\ open
  /\ open' = FALSE
  /\ UNCHANGED <<server, local, session, saveSeen, retry, latest,
                 pc, ask, turn, left, raced>>

-----------------------------------------------------------------------------
(* The debounce of on_change.                                               *)

\* react and the first half of settle: a newer generation.
Settle(t) ==
  /\ pc[t] \in {"save", "overflow"}
  /\ saveSeen' = (saveSeen \/ pc[t] = "save")
  /\ latest' = t
  /\ pc' = [pc EXCEPT ![t] = "settling"]
  /\ UNCHANGED <<server, local, open, session, retry, ask, turn,
                 left, raced>>

RescanTick ==
  /\ open
  /\ pc[Rescan] = "idle"
  /\ latest' = Rescan
  /\ pc' = [pc EXCEPT ![Rescan] = "settling"]
  /\ UNCHANGED <<server, local, open, session, saveSeen, retry, ask, turn, left, raced>>

\* The window has passed: only the newest generation goes on.
Elapse(w) ==
  /\ pc[w] = "settling"
  /\ pc' = [pc EXCEPT ![w] = IF latest = w /\ open THEN "waiting" ELSE "idle"]
  /\ UNCHANGED <<server, local, open, session, saveSeen, retry, latest, ask, turn, left, raced>>

\* A slip: sync-backs of one file overlap.
TakeTurnUnlocked(w) ==
  /\ pc[w] = "waiting"
  /\ IF latest = w /\ open
     THEN /\ turn' = [Free EXCEPT !.by = w, !.phase = "hash", !.saved = saveSeen]
          /\ saveSeen' = FALSE
          /\ latest' = None
          /\ pc' = [pc EXCEPT ![w] = "turn"]
     ELSE pc' = [pc EXCEPT ![w] = "idle"] /\ UNCHANGED <<turn, saveSeen, latest>>
  /\ UNCHANGED <<server, local, open, session, retry, ask, left, raced>>

\* The lock is free; the generation is looked at again under it.
TakeTurn(w) ==
  /\ pc[w] = "waiting"
  /\ turn = Free
  /\ IF latest = w /\ open
     THEN /\ turn' = [Free EXCEPT !.by = w, !.phase = "hash", !.saved = saveSeen]
          /\ saveSeen' = FALSE
          /\ latest' = None
          /\ pc' = [pc EXCEPT ![w] = "turn"]
     ELSE pc' = [pc EXCEPT ![w] = "idle"] /\ UNCHANGED <<turn, saveSeen, latest>>
  /\ UNCHANGED <<server, local, open, session, retry, ask, left, raced>>

RetryDue ==
  /\ failure # None
  /\ ~due
  /\ due' = TRUE
  /\ UNCHANGED <<server, local, open, session, saveSeen, failure, told,
                 latest, pc, ask, turn, left, raced>>

-----------------------------------------------------------------------------
(* The holder's turn. A step either leaves the turn or goes to a next phase. *)

Leave ==
  /\ turn' = Free
  /\ pc' = [pc EXCEPT ![turn.by] = "idle"]
  /\ ask' = [c \in Calls |-> IF c = turn.by THEN NoAsk ELSE ask[c]]

Go(next) == turn' = next /\ UNCHANGED <<pc, ask>>

\* EditSync::failed: remembered, a quiet retry scheduled, told at most once.
Failed(c) ==
  /\ failure' = c
  /\ due' = FALSE
  /\ told' = IF turn.saved \/ (~turn.quiet /\ failure # c) THEN told \cup {c} ELSE told

\* A sync-back records its failure; a resolve only answers with it.
GiveUp ==
  IF turn.by \in Calls THEN UNCHANGED retry ELSE Failed(turn.hash)

\* EditSync::hold_back: the pending conflict is now about this remote and local.
HoldBack(remote) ==
  IF pending # None /\ pending.remote = remote
  THEN pending' = [pending EXCEPT !.local = turn.hash]
  ELSE /\ \E i \in Ids : i \notin UsedIds
       /\ pending' = [id |-> NewId, remote |-> remote, local |-> turn.hash]

\* A slip: whatever a rescan finds is a quiet retry.
HashCopyQuiet ==
  LET quiet == ~turn.saved IN
  /\ turn.phase = "hash"
  /\ \/ Spend("faults") /\ Failed(Unreadable) /\ Leave
     \/ /\ synced = local \/ FALSE
        /\ Leave
        /\ UNCHANGED <<retry, left>>
     \/ /\ synced # local /\ TRUE
        /\ Go([turn EXCEPT !.phase = "check", !.hash = local, !.quiet = quiet])
        /\ UNCHANGED <<retry, left>>
  /\ UNCHANGED <<server, local, open, session, saveSeen, latest,
                 raced>>

\* A slip: content that failed once is never tried again without a save.
HashCopyOnce ==
  LET quiet == ~turn.saved /\ failure = local IN
  /\ turn.phase = "hash"
  /\ \/ Spend("faults") /\ Failed(Unreadable) /\ Leave
     \/ /\ synced = local \/ quiet
        /\ Leave
        /\ UNCHANGED <<retry, left>>
     \/ /\ synced # local /\ ~quiet
        /\ Go([turn EXCEPT !.phase = "check", !.hash = local, !.quiet = quiet])
        /\ UNCHANGED <<retry, left>>
  /\ UNCHANGED <<server, local, open, session, saveSeen, latest,
                 raced>>

\* on_change reads the copy and decides whether there is anything to do.
HashCopy ==
  LET quiet == ~turn.saved /\ failure = local IN
  /\ turn.phase = "hash"
  /\ \/ Spend("faults") /\ Failed(Unreadable) /\ Leave
     \/ /\ synced = local \/ (quiet /\ ~due)
        /\ Leave
        /\ UNCHANGED <<retry, left>>
     \/ /\ synced # local /\ (quiet => due)
        /\ Go([turn EXCEPT !.phase = "check", !.hash = local, !.quiet = quiet])
        /\ UNCHANGED <<retry, left>>
  /\ UNCHANGED <<server, local, open, session, saveSeen, latest,
                 raced>>

\* check_remote: nothing is sent unless the server is as last agreed.
CheckRemote ==
  /\ turn.phase = "check"
  /\ \/ Spend("faults") /\ GiveUp /\ Leave /\ UNCHANGED pending
     \/ /\ View = Known
        /\ Go([turn EXCEPT !.phase = "copy"])
        /\ UNCHANGED <<pending, retry, left>>
     \/ /\ View # Known
        /\ HoldBack(View)
        /\ Leave
        /\ UNCHANGED <<retry, left>>
  /\ UNCHANGED <<server, local, open, baseline, synced, held, saveSeen,
                 latest, raced>>

\* upload: the copy is read AGAIN, into a temporary file. A leftover of an earlier
\* attempt that cannot be removed first is one of the ways to fail.
CopyUp ==
  /\ turn.phase = "copy"
  /\ \/ Spend("faults") /\ GiveUp /\ Leave /\ raced' = FALSE
     \/ /\ Go([turn EXCEPT !.phase = "swap", !.sent = local])
        /\ UNCHANGED <<retry, left, raced>>
  /\ UNCHANGED <<server, local, open, session, saveSeen, latest>>

\* The temporary file is renamed over the original and everything is settled.
SwapIn ==
  /\ turn.phase = "swap"
  /\ RoomForStamp
  /\ server' = [content |-> turn.sent, stamp |-> NewStamp]
  /\ baseline' = NewStamp /\ synced' = turn.hash /\ held' = turn.sent
  /\ pending' = None
  /\ failure' = None /\ due' = FALSE /\ told' = {}
  /\ raced' = FALSE
  /\ Leave
  /\ UNCHANGED <<local, open, saveSeen, latest, left>>

\* The swap fails: the original stays or is gone already, and the temporary file
\* is kept - or the rename was done and its answer lost.
SwapFails ==
  /\ turn.phase = "swap"
  /\ Spend("faults")
  /\ \/ server' \in {server, Deleted}
     \/ /\ RoomForStamp
        /\ server' = [content |-> turn.sent, stamp |-> NewStamp]
  /\ GiveUp
  /\ raced' = FALSE
  /\ Leave
  /\ UNCHANGED <<local, open, session, saveSeen, latest>>

-----------------------------------------------------------------------------
(* The user's calls.                                                        *)

\* sftp_edit_resolve for the conflict on the screen.
AnswerConflict(c) ==
  /\ open
  /\ pc[c] = "idle"
  /\ pending # None
  /\ \E act \in {"overwrite", "reload"} :
       ask' = [ask EXCEPT ![c] = [act |-> act, id |-> pending.id]]
  /\ pc' = [pc EXCEPT ![c] = "waiting"]
  /\ UNCHANGED <<server, local, open, session, saveSeen, retry, latest, turn, left, raced>>

\* sftp_close_edit without force.
StopEditing(c) ==
  /\ open
  /\ pc[c] = "idle"
  /\ ask' = [ask EXCEPT ![c] = [act |-> "close", id |-> None]]
  /\ pc' = [pc EXCEPT ![c] = "waiting"]
  /\ UNCHANGED <<server, local, open, session, saveSeen, retry, latest, turn, left, raced>>

\* A close, or an answer to the conflict that is still pending.
Current(c) == ask[c].act # "close" => pending # None /\ pending.id = ask[c].id

\* Refused: the edit has ended, or the conflict is settled or replaced.
Refuse(c) ==
  /\ pc[c] = "waiting"
  /\ turn = Free
  /\ ~(open /\ Current(c))
  /\ pc' = [pc EXCEPT ![c] = "idle"]
  /\ ask' = [ask EXCEPT ![c] = NoAsk]
  /\ UNCHANGED <<server, local, open, session, saveSeen, retry, latest, turn, left, raced>>

\* A close gives up after ten seconds behind another holder: the edit is kept.
CloseTimesOut(c) ==
  /\ pc[c] = "waiting"
  /\ ask[c].act = "close"
  /\ turn # Free
  /\ pc' = [pc EXCEPT ![c] = "idle"]
  /\ ask' = [ask EXCEPT ![c] = NoAsk]
  /\ UNCHANGED <<server, local, open, session, saveSeen, retry, latest, turn, left, raced>>

FirstPhase(act) ==
  CASE act = "overwrite" -> "rehash"
    [] act = "reload" -> "stat"
    [] act = "close" -> "look"

Admit(c) ==
  /\ pc[c] = "waiting"
  /\ turn = Free
  /\ open
  /\ Current(c)
  /\ turn' = [Free EXCEPT !.by = c, !.phase = FirstPhase(ask[c].act)]
  /\ pc' = [pc EXCEPT ![c] = "turn"]
  /\ UNCHANGED <<server, local, open, session, saveSeen, retry, latest, ask, left, raced>>

\* Overwrite, and a close, read the copy.
ReadCopy ==
  /\ turn.phase \in {"rehash", "look"}
  /\ \/ Spend("faults") /\ Leave
     \/ /\ Go([turn EXCEPT !.hash = local,
                           !.phase = IF @ = "look" THEN "decide" ELSE "recheck"])
        /\ UNCHANGED left
  /\ UNCHANGED <<server, local, open, session, saveSeen, retry, latest, raced>>

\* A slip: the server is not looked at again.
AsReportedAnyway == TRUE

\* changed_since: the server is as reported, or back to what was agreed.
AsReported == View = pending.remote \/ (pending.remote # None /\ View = Known)

Recheck ==
  /\ turn.phase = "recheck"
  /\ \/ Spend("faults") /\ Leave /\ UNCHANGED pending
     \/ /\ AsReported
        /\ Go([turn EXCEPT !.phase = "copy"])
        /\ UNCHANGED <<pending, left>>
     \/ /\ ~AsReported
        /\ HoldBack(View)
        /\ Leave
        /\ UNCHANGED left
  /\ UNCHANGED <<server, local, open, baseline, synced, held, saveSeen,
                 retry, latest, raced>>

\* Reload: the STAT the download is based on.
StatForReload ==
  /\ turn.phase = "stat"
  /\ \/ Spend("faults") /\ Leave
     \/ server = Deleted /\ Leave /\ UNCHANGED left
     \/ /\ server # Deleted
        /\ Go([turn EXCEPT !.phase = "download", !.stat = server.stamp])
        /\ UNCHANGED left
  /\ UNCHANGED <<server, local, open, session, saveSeen, retry, latest, raced>>

\* The download replaces the copy, whatever it holds; the watcher may see that.
Download ==
  /\ turn.phase = "download"
  /\ \/ (Spend("faults") \/ (server = Deleted /\ UNCHANGED left)) /\ Leave
        /\ UNCHANGED local
     \/ /\ server # Deleted
        /\ local' = server.content
        /\ turn' = [turn EXCEPT !.phase = "adopt", !.sent = server.content]
        /\ \/ pc' = pc
           \/ \E t \in Tasks : pc[t] = "idle" /\ pc' = [pc EXCEPT ![t] = "save"]
        /\ UNCHANGED <<ask, left>>
  /\ UNCHANGED <<server, open, session, saveSeen, retry, latest,
                 raced>>

\* A slip: the stamp is taken after the download.
AdoptLate ==
  /\ turn.phase = "adopt"
  /\ baseline' = server.stamp /\ synced' = turn.sent /\ held' = turn.sent
  /\ pending' = None
  /\ failure' = None /\ told' = {} /\ UNCHANGED due
  /\ Leave
  /\ UNCHANGED <<server, local, open, saveSeen, latest, left, raced>>

\* The session agrees with what was downloaded - not with the copy as it is now.
Adopt ==
  /\ turn.phase = "adopt"
  /\ baseline' = turn.stat /\ synced' = turn.sent /\ held' = turn.sent
  /\ pending' = None
  /\ failure' = None /\ told' = {} /\ UNCHANGED due
  /\ Leave
  /\ UNCHANGED <<server, local, open, saveSeen, latest, left, raced>>

\* A close ends the edit only when the copy holds what was synced last.
Decide ==
  /\ turn.phase = "decide"
  /\ open' = (open /\ turn.hash # synced)
  /\ Leave
  /\ UNCHANGED <<server, local, session, saveSeen, retry, latest,
                 left, raced>>

-----------------------------------------------------------------------------
Step == \* of whoever holds the lock
  \/ HashCopy \/ CheckRemote \/ CopyUp \/ SwapIn \/ SwapFails
  \/ ReadCopy \/ Recheck \/ StatForReload \/ Download \/ Adopt \/ Decide

Next ==
  \/ \E c \in Contents : EditorSaves(c) \/ OthersWrite(c)
  \/ OthersDelete
  \/ End
  \/ \E t \in Tasks : Settle(t)
  \/ RescanTick
  \/ \E w \in Workers : Elapse(w) \/ TakeTurn(w)
  \/ RetryDue
  \/ \E c \in Calls :
       AnswerConflict(c) \/ StopEditing(c) \/ Refuse(c) \/ CloseTimesOut(c) \/ Admit(c)
  \/ Step

Spec == Init /\ [][Next]_vars

(* Timers fire, calls return or fail, and tokio's lock is first come, first       *)
(* served. The watcher's own tasks need no fairness: all its events may be lost.   *)
Fairness ==
  /\ WF_vars(RescanTick \/ Elapse(Rescan))
  /\ SF_vars(TakeTurn(Rescan))
  /\ WF_vars(RetryDue)
  /\ WF_vars(Step)

FairSpec == Spec /\ Fairness

-----------------------------------------------------------------------------
OptStamps == Stamps \cup {None}
OptContents == Contents \cup {None}
Versions == [content : OptContents, stamp : OptStamps]
Conflicts == [id : Ids, remote : Stamps \cup Contents \cup {None}, local : Contents]
Phases == {"free", "hash", "check", "copy", "swap", "rehash", "recheck",
           "stat", "download", "adopt", "look", "decide"}
Turns == [by : Callers \cup {None}, phase : Phases, saved : BOOLEAN, quiet : BOOLEAN,
          hash : OptContents, sent : OptContents, stat : OptStamps]

\* The types of the state; the lock has one holder, which is the one in its turn.
TypeOK ==
  /\ server \in Versions
  /\ local \in Contents /\ open \in BOOLEAN
  /\ baseline \in OptStamps /\ synced \in Contents /\ held \in Contents
  /\ pending \in Conflicts \cup {None}
  /\ saveSeen \in BOOLEAN /\ due \in BOOLEAN
  /\ failure \in Contents \cup {None, Unreadable}
  /\ told \subseteq Contents \cup {Unreadable}
  /\ latest \in Workers \cup {None}
  /\ pc \in [Callers -> {"idle", "save", "overflow", "settling", "waiting", "turn"}]
  /\ ask \in [Calls -> [act : {"overwrite", "reload", "close", "none"}, id : Ids \cup {None}]]
  /\ turn \in Turns
  /\ left \in [{"saves", "writes", "faults"} -> Nat]
  /\ raced \in BOOLEAN
  /\ \A x \in Callers : pc[x] = "turn" <=> turn.by = x

\* While the server still has the version the session calls its baseline, it holds
\* what this edit last downloaded or sent (check_remote relies on it: a stamp that
\* agrees must mean that nothing of anybody else's is there to lose).
BaselineIsHonest ==
  Stamped /\ server.stamp = baseline => server.content = held

\* What an upload is about to replace is what the edit agreed with last, or the very
\* version the user was shown and answered - unless others wrote after the check, the
\* race on_change and resolve document.
NothingUnseenIsReplaced ==
  turn.phase \in {"copy", "swap"} /\ ~raced =>
    \/ View = Known
    \/ /\ turn.by \in Calls /\ ask[turn.by].act = "overwrite"
       /\ pending # None /\ pending.id = ask[turn.by].id /\ View = pending.remote

\* A failure the session goes on retrying in silence is one the user was told of.
SilentRetriesWereReported == failure # None => failure \in told

\* Again and again the copy is in order: it holds what the session synced last, or
\* the user has been shown a conflict for what it holds, or the edit has ended. So a
\* save is never forgotten, even when the watcher lost its event, a newer burst or the
\* user's answer took its turn, or an attempt failed.
SavesLand ==
  []<>(~open \/ synced = local \/ (pending # None /\ pending.local = local))

\* "discard the staged copy - unless the copy holds something the server does not
\* have" (sftp_close_edit): what a close without force read from the copy is what the
\* session put on the server or took from it.
CloseKeepsUnsynced ==
  [][turn.phase = "decide" /\ turn' = Free /\ open /\ ~open' => turn.hash = held]_vars
=============================================================================
