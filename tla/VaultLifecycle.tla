--------------------------- MODULE VaultLifecycle ---------------------------
(***************************************************************************)
(* The lock / unlock / change-password core of SSHSpan                     *)
(* (src-tauri/src/commands/mod.rs) together with the operations that spend *)
(* the master password: sealing a record, opening a terminal session       *)
(* (commands/terminal.rs, ssh_client/mod.rs) and opening an SFTP channel   *)
(* on it (commands/sftp.rs).                                               *)
(*                                                                         *)
(* Every element of the request sets is ONE call of a command.  Commands   *)
(* run on the main thread, on async workers and on the blocking pool, so   *)
(* their steps interleave; a step here is the code between two points      *)
(* where another thread can act on the same state.                         *)
(***************************************************************************)
EXTENDS Naturals, FiniteSets

CONSTANTS
  Unlocks,     \* calls of vault_unlock
  Creates,     \* calls of vault_create
  Changes,     \* calls of vault_change_password
  Locks,       \* calls of lock_vault_internal: vault_lock, tray, watchdog
  Seals,       \* commands that seal a record with the master password
  Deletes,     \* calls of key_delete
  Connects,    \* calls of terminal_connect; also the id of its session
  Opens,       \* calls of sftp_open
  Records,     \* rows that hold a sealed value
  Passwords,
  NoPassword,
  NoRequest,
  StartPassword,  \* the password of the vault found on disk, or NoPassword
  StartLegacy,    \* its verifier is still the plaintext one
  FailureLimit    \* consecutive wrong guesses that engage the throttle

Requests == Unlocks \cup Creates \cup Changes \cup Locks \cup Seals
              \cup Deletes \cup Connects \cup Opens

\* The calls that capture the generation and check it again at the end.
Pending == Connects \cup Opens

\* A sealed value: the password it is sealed under and the request that
\* sealed it (a fresh salt and nonce make every seal a different blob).
NoBlob == [pw |-> NoPassword, by |-> NoRequest]
Blobs == {NoBlob} \cup [pw : Passwords, by : Requests \cup {NoRequest}]

ASSUME RequestsDistinct ==
  /\ NoRequest \notin Requests
  /\ Unlocks \cap (Creates \cup Changes \cup Locks \cup Seals \cup Deletes
                   \cup Connects \cup Opens) = {}
  /\ Creates \cap (Changes \cup Locks \cup Seals \cup Deletes \cup Connects
                   \cup Opens) = {}
  /\ Changes \cap (Locks \cup Seals \cup Deletes \cup Connects \cup Opens) = {}
  /\ Locks \cap (Seals \cup Deletes \cup Connects \cup Opens) = {}
  /\ Seals \cap (Deletes \cup Connects \cup Opens) = {}
  /\ Deletes \cap (Connects \cup Opens) = {}
  /\ Connects \cap Opens = {}

ASSUME PasswordsAssumption ==
  /\ NoPassword \notin Passwords
  /\ StartPassword \in Passwords \cup {NoPassword}
  /\ StartLegacy \in BOOLEAN
  /\ FailureLimit \in Nat \ {0}

VARIABLES
  \* on disk
  master,      \* the password the stored verifier accepts
  legacy,      \* the verifier is a plaintext one, not yet an Argon2id hash
  records,     \* per row, the blob it holds: who sealed it, under what
  \* in memory
  store,       \* VaultPasswordStore
  generation,  \* VaultGeneration
  readers,     \* VaultRotationLock: holders of a read guard,
  writer,      \*   the holder of the write guard,
  waiting,     \*   and the writers queued for it
  attempt,     \* UnlockThrottle.attempt: who is guessing
  failures,    \* UnlockThrottle.consecutive_failures
  cooling,     \* now < UnlockThrottle.locked_until
  sessions,    \* SessionRegistry
  sftp,        \* SftpRegistry
  \* per request
  pc,          \* its next step
  captured,    \* the generation it captured
  guess,       \* the password it offers as the current one
  held,        \* the password it works with: to set, to seal or to unseal
  snapshot,    \* the blobs a change read and re-sealed in memory
  target,      \* the row a connect unseals, the session an open uses
  \* history, read by properties only
  openedAt,    \* the generation captured by the request that set the store
  doomed,      \* what a lock found registered, or pending and not rechecked
  settled      \* sessions registered while unlocked and no lock was at work

disk == <<master, legacy, records>>
guards == <<readers, writer, waiting, attempt>>
throttle == <<failures, cooling>>
live == <<sessions, sftp>>
frame == <<captured, guess, held, snapshot>>
local == <<frame, target>>
history == <<openedAt, doomed, settled>>
vars == <<disk, store, generation, guards, throttle, live, pc, local, history>>

Steps == {"idle", "done", "guard", "attempt", "verify", "upgrade", "set",
          "check", "clear", "create", "createSet", "queue", "wait",
          "snapshot", "recheck", "commit", "kill", "closeSftp", "forget",
          "write", "capture", "resolve", "unseal", "handshake", "request",
          "answer", "checkUnlocked", "checkGeneration", "insert"}

-----------------------------------------------------------------------------
(* Helpers *)

Goto(r, from, to) ==
  /\ pc[r] = from
  /\ pc' = [pc EXCEPT ![r] = to]

Nothing == [r \in Records |-> NoBlob]

\* Fault: a return that leaves the attempt lock taken.
ReturnHoldingAttempt(r) ==
  /\ pc' = [pc EXCEPT ![r] = "done"]
  /\ readers' = readers \ {r}
  /\ writer' = IF writer = r THEN NoRequest ELSE writer
  /\ waiting' = waiting \ {r}
  /\ UNCHANGED <<attempt, frame>>

\* The call returns: every guard it still holds is dropped with it, and its
\* copies of passwords and secrets are wiped (Zeroizing).
Return(r) ==
  /\ pc' = [pc EXCEPT ![r] = "done"]
  /\ readers' = readers \ {r}
  /\ writer' = IF writer = r THEN NoRequest ELSE writer
  /\ waiting' = waiting \ {r}
  /\ attempt' = IF attempt = r THEN NoRequest ELSE attempt
  /\ captured' = [captured EXCEPT ![r] = 0]
  /\ guess' = [guess EXCEPT ![r] = NoPassword]
  /\ held' = [held EXCEPT ![r] = NoPassword]
  /\ snapshot' = [c \in Changes |-> IF c = r THEN Nothing ELSE snapshot[c]]

\* Fault: readers do not look at the write side.
SharedAlways == writer \in Changes \cup {NoRequest}

\* VaultRotationLock::try_shared: refused while a change holds OR awaits it.
SharedFree == writer = NoRequest /\ waiting = {}

Unlocked == store # NoPassword

\* A lock has bumped the generation and not yet cleared the store.
Locking(l) == l \in Locks /\ pc[l] \in {"kill", "closeSftp", "forget"}

-----------------------------------------------------------------------------
(* vault_create *)

\* The quick answer before the slow hash.
CreateBegin(k) ==
  /\ \/ /\ master = NoPassword
        /\ Goto(k, "idle", "create")
        /\ \E p \in Passwords : held' = [held EXCEPT ![k] = p]
     \/ /\ master # NoPassword
        /\ Goto(k, "idle", "done")
        /\ UNCHANGED held
  /\ UNCHANGED <<disk, store, generation, guards, throttle, live, captured,
                 guess, snapshot, target, history>>

\* Fault: the verifier is written without looking again.
CreateVerifierBlindly(k) ==
  /\ Goto(k, "create", "createSet")
  /\ master' = held[k]
  /\ UNCHANGED <<legacy, records, store, generation, guards, throttle, live,
                 local, history>>

\* Decided again, atomically, by the BEGIN IMMEDIATE transaction.
CreateVerifier(k) ==
  /\ \/ /\ master = NoPassword
        /\ Goto(k, "create", "createSet")
        /\ master' = held[k]
        /\ UNCHANGED <<guards, frame>>
     \/ /\ master # NoPassword
        /\ pc[k] = "create" /\ Return(k)
        /\ UNCHANGED master
  /\ UNCHANGED <<legacy, records, store, generation, throttle, live, target,
                 history>>

\* vault_create_in stores the password and captures no generation, so it asks
\* for none; openedAt takes the current one, and a creation that a lock
\* overtakes counts as opened after it.
CreateSet(k) ==
  /\ pc[k] = "createSet"
  /\ store' = held[k]
  /\ openedAt' = generation
  /\ Return(k)
  /\ UNCHANGED <<disk, generation, throttle, live, target, doomed,
                 settled>>

-----------------------------------------------------------------------------
(* A password guess: vault_unlock_in and verify_current_password share the   *)
(* throttle, its attempt lock and the verification.                          *)

Guessers == Unlocks \cup Changes

\* Fault: guesses run side by side.
GuessBeginUnserialized(r) ==
  /\ ~cooling /\ master # NoPassword
  /\ Goto(r, "attempt", "verify")
  /\ UNCHANGED <<disk, store, generation, guards, throttle, live, local,
                 history>>

\* The attempt lock, then the throttle's check and whether a vault exists.
GuessBegin(r) ==
  /\ pc[r] = "attempt"
  /\ attempt = NoRequest
  /\ \/ /\ ~cooling /\ master # NoPassword
        /\ Goto(r, "attempt", "verify")
        /\ attempt' = r
        /\ UNCHANGED <<readers, writer, waiting, frame>>
     \/ /\ cooling \/ master = NoPassword
        /\ Return(r)
  /\ UNCHANGED <<disk, store, generation, throttle, live, target, history>>

\* Fault: a correct guess forgives one failure instead of all.
AcceptForgivesOne(r) ==
  /\ pc' = [pc EXCEPT ![r] = IF r \in Unlocks THEN "set" ELSE "snapshot"]
  /\ attempt' = IF r \in Unlocks THEN attempt ELSE NoRequest
  /\ failures' = failures - 1
  /\ cooling' = FALSE
  /\ UNCHANGED <<readers, writer, waiting, frame>>

\* A correct guess goes on: an unlock keeps the attempt lock until it
\* returns, a change drops it with verify_current_password.
Accept(r) ==
  /\ pc' = [pc EXCEPT ![r] = IF r \in Unlocks THEN "set" ELSE "snapshot"]
  /\ attempt' = IF r \in Unlocks THEN attempt ELSE NoRequest
  /\ failures' = 0
  /\ cooling' = FALSE
  /\ UNCHANGED <<readers, writer, waiting, frame>>

GuessVerify(r) ==
  /\ pc[r] = "verify"
  /\ \/ /\ guess[r] # master
        /\ failures' = failures + 1
        /\ cooling' = (cooling \/ failures' >= FailureLimit)
        /\ Return(r)
     \/ /\ guess[r] = master /\ ~legacy
        /\ Accept(r)
     \/ /\ guess[r] = master /\ legacy
        /\ Goto(r, "verify", "upgrade")
        /\ UNCHANGED <<guards, throttle, frame>>
  /\ UNCHANGED <<disk, store, generation, live, target, history>>

\* A plaintext verifier that matched is replaced by its Argon2id hash.
GuessUpgrade(r) ==
  /\ pc[r] = "upgrade"
  /\ master' = guess[r]
  /\ legacy' = FALSE
  /\ Accept(r)
  /\ UNCHANGED <<records, store, generation, live, target, history>>

\* locked_until passes; the count of failures stays.
ThrottleCools ==
  /\ cooling
  /\ cooling' = FALSE
  /\ UNCHANGED <<disk, store, generation, guards, failures, live, pc, local,
                 history>>

\* The password goes into the store FIRST, then the generation is looked at:
\* vault_unlock_in and install_rotated_password.
SetPassword(r) ==
  /\ Goto(r, "set", "check")
  /\ store' = held[r]
  /\ openedAt' = captured[r]
  /\ UNCHANGED <<disk, generation, guards, throttle, live, local, doomed,
                 settled>>

\* Fault: nobody looks whether a lock came in between.
CheckSkipped(r) ==
  /\ pc[r] = "check"
  /\ Return(r)
  /\ UNCHANGED <<disk, store, generation, throttle, live, target, history>>

CheckStillCurrent(r) ==
  /\ pc[r] = "check"
  /\ \/ /\ generation = captured[r]
        /\ Return(r)
     \/ /\ generation # captured[r]
        /\ Goto(r, "check", "clear")
        /\ UNCHANGED <<guards, frame>>
  /\ UNCHANGED <<disk, store, generation, throttle, live, target, history>>

ClearAgain(r) ==
  /\ pc[r] = "clear"
  /\ store' = NoPassword
  /\ Return(r)
  /\ UNCHANGED <<disk, generation, throttle, live, target, history>>

-----------------------------------------------------------------------------
(* vault_unlock *)

\* The command body captures the generation; the rest runs on the pool.
UnlockBegin(u) ==
  /\ Goto(u, "idle", "guard")
  /\ captured' = [captured EXCEPT ![u] = generation]
  /\ \E p \in Passwords : /\ guess' = [guess EXCEPT ![u] = p]
                          /\ held' = [held EXCEPT ![u] = p]
  /\ UNCHANGED <<disk, store, generation, guards, throttle, live, snapshot,
                 target, history>>

\* Fault: an unlock takes no part in the rotation lock.
UnlockUnguarded(u) ==
  /\ Goto(u, "guard", "attempt")
  /\ UNCHANGED <<disk, store, generation, guards, throttle, live, local,
                 history>>

UnlockGuard(u) ==
  /\ \/ /\ SharedFree
        /\ Goto(u, "guard", "attempt")
        /\ readers' = readers \cup {u}
     \/ /\ ~SharedFree
        /\ Goto(u, "guard", "done")
        /\ UNCHANGED readers
  /\ UNCHANGED <<disk, store, generation, writer, waiting, attempt, throttle,
                 live, local, history>>

-----------------------------------------------------------------------------
(* vault_change_password: change_master_password under the write guard *)

ChangeBegin(c) ==
  /\ Goto(c, "idle", "queue")
  /\ captured' = [captured EXCEPT ![c] = generation]
  /\ \E p, q \in Passwords : /\ guess' = [guess EXCEPT ![c] = p]
                             /\ held' = [held EXCEPT ![c] = q]
  /\ UNCHANGED <<disk, store, generation, guards, throttle, live, snapshot,
                 target, history>>

ChangeQueue(c) ==
  /\ Goto(c, "queue", "wait")
  /\ waiting' = waiting \cup {c}
  /\ UNCHANGED <<disk, store, generation, readers, writer, attempt, throttle,
                 live, local, history>>

\* Fault: the change does not wait for running writers of sealed data.
ChangeAcquireOverReaders(c) ==
  /\ Goto(c, "wait", "attempt")
  /\ writer = NoRequest
  /\ writer' = c
  /\ waiting' = waiting \ {c}
  /\ UNCHANGED <<disk, store, generation, readers, attempt, throttle, live,
                 local, history>>

\* The lock is fair; which of several queued changes goes first is left open.
ChangeAcquire(c) ==
  /\ Goto(c, "wait", "attempt")
  /\ writer = NoRequest /\ readers = {}
  /\ writer' = c
  /\ waiting' = waiting \ {c}
  /\ UNCHANGED <<disk, store, generation, readers, attempt, throttle, live,
                 local, history>>

\* ROTATION_LOCK_WAIT has passed.
ChangeTimeout(c) ==
  /\ pc[c] = "wait"
  /\ Return(c)
  /\ UNCHANGED <<disk, store, generation, throttle, live, target, history>>

\* Read every sealed value and re-seal it in memory; one that does not
\* unseal under the current password aborts the change.
ChangeSnapshot(c) ==
  /\ pc[c] = "snapshot"
  /\ \/ /\ \A r \in Records : records[r] # NoBlob => records[r].pw = guess[c]
        /\ Goto(c, "snapshot", "recheck")
        /\ snapshot' = [snapshot EXCEPT ![c] = records]
        /\ UNCHANGED <<guards, captured, guess, held>>
     \/ /\ \E r \in Records : records[r] # NoBlob /\ records[r].pw # guess[c]
        /\ Return(c)
  /\ UNCHANGED <<disk, store, generation, throttle, live, target, history>>

\* A lock since the change began aborts it before anything is written.
ChangeRecheck(c) ==
  /\ pc[c] = "recheck"
  /\ \/ /\ generation = captured[c]
        /\ Goto(c, "recheck", "commit")
        /\ UNCHANGED <<guards, frame>>
     \/ /\ generation # captured[c]
        /\ Return(c)
  /\ UNCHANGED <<disk, store, generation, throttle, live, target, history>>

\* Fault: the blobs go back as they were read.
ResealedUnder(c) == snapshot[c]

Resealed(c) ==
  [r \in Records |-> IF snapshot[c][r] = NoBlob THEN NoBlob
                     ELSE [pw |-> held[c], by |-> c]]

\* Fault: the commit writes every row it read, whatever is there now.
ChangeCommitUpserting(c) ==
  /\ Goto(c, "commit", "set")
  /\ records' = Resealed(c)
  /\ master' = held[c]
  /\ legacy' = FALSE
  /\ UNCHANGED <<store, generation, guards, throttle, live, local, history>>

\* apply_vault_rotation: one transaction, which commits only if every row
\* that was re-sealed still holds its blob and no other row holds one.
ChangeCommit(c) ==
  /\ pc[c] = "commit"
  /\ \/ /\ records = snapshot[c]
        /\ Goto(c, "commit", "set")
        /\ records' = Resealed(c)
        /\ master' = held[c]
        /\ legacy' = FALSE
        /\ UNCHANGED <<guards, frame>>
     \/ /\ records # snapshot[c]
        /\ Return(c)
        /\ UNCHANGED disk
  /\ UNCHANGED <<store, generation, throttle, live, target, history>>

-----------------------------------------------------------------------------
(* lock_vault_with: bump, teardown, clear.  The teardown ends the shell      *)
(* sessions first and the SFTP channels after them.                          *)

CapturedNotRechecked(p) ==
  pc[p] \in {"resolve", "unseal", "handshake", "request", "answer",
             "checkUnlocked", "checkGeneration"}

Registered == sessions \cup ({sftp[c] : c \in Connects} \ {NoRequest})

LockBump(l) ==
  /\ Goto(l, "idle", "kill")
  /\ generation' = generation + 1
  /\ doomed' = doomed \cup Registered
                      \cup {p \in Pending : CapturedNotRechecked(p)}
  /\ UNCHANGED <<disk, store, guards, throttle, live, local, openedAt, settled>>

LockKillSessions(l) ==
  /\ Goto(l, "kill", "closeSftp")
  /\ sessions' = {}
  /\ UNCHANGED <<disk, store, generation, guards, throttle, sftp, local,
                 history>>

LockCloseSftp(l) ==
  /\ Goto(l, "closeSftp", "forget")
  /\ sftp' = [c \in Connects |-> NoRequest]
  /\ UNCHANGED <<disk, store, generation, guards, throttle, sessions, local,
                 history>>

LockClear(l) ==
  /\ Goto(l, "forget", "done")
  /\ store' = NoPassword
  /\ UNCHANGED <<disk, generation, guards, throttle, live, local, history>>

-----------------------------------------------------------------------------
(* Commands that seal a record (key_import and the like), and key_delete *)

\* The guard comes first, then the copy of the password.
SealBegin(s) ==
  /\ \/ /\ SharedFree /\ Unlocked
        /\ Goto(s, "idle", "write")
        /\ readers' = readers \cup {s}
        /\ held' = [held EXCEPT ![s] = store]
     \/ /\ ~(SharedFree /\ Unlocked)
        /\ Goto(s, "idle", "done")
        /\ UNCHANGED <<readers, held>>
  /\ UNCHANGED <<disk, store, generation, writer, waiting, attempt, throttle,
                 live, captured, guess, snapshot, target, history>>

SealWrite(s) ==
  /\ pc[s] = "write"
  /\ \E r \in Records :
       records' = [records EXCEPT ![r] = [pw |-> held[s], by |-> s]]
  /\ Return(s)
  /\ UNCHANGED <<master, legacy, store, generation, throttle, live, target,
                 history>>

\* key_delete asks for an unlocked vault and takes no guard; a lock between the
\* check and the delete would be told apart by no property.
Delete(d) ==
  /\ Unlocked
  /\ Goto(d, "idle", "done")
  /\ \E r \in Records : records' = [records EXCEPT ![r] = NoBlob]
  /\ UNCHANGED <<master, legacy, store, generation, guards, throttle, live,
                 local, history>>

-----------------------------------------------------------------------------
(* terminal_connect and sftp_open: capture, work across awaits, recheck,     *)
(* register.                                                                 *)

\* capture_vault_generation: the password is looked at, then the generation.
CaptureUnlocked(p) ==
  /\ Goto(p, "idle", IF Unlocked THEN "capture" ELSE "done")
  /\ UNCHANGED <<disk, store, generation, guards, throttle, live, local,
                 history>>

CaptureGeneration(p) ==
  /\ Goto(p, "capture", IF p \in Connects THEN "resolve" ELSE "request")
  /\ captured' = [captured EXCEPT ![p] = generation]
  /\ UNCHANGED <<disk, store, generation, guards, throttle, live, guess, held,
                 snapshot, target, history>>

\* resolve_connection: the guard, the password, the server's record ...  A
\* typed password or a key file needs nothing unsealed.
ConnectResolve(c) ==
  /\ \/ /\ SharedFree /\ Unlocked
        /\ Goto(c, "resolve", "handshake")
        /\ UNCHANGED <<readers, held, target>>
     \/ /\ SharedFree /\ Unlocked
        /\ Goto(c, "resolve", "unseal")
        /\ readers' = readers \cup {c}
        /\ held' = [held EXCEPT ![c] = store]
        /\ \E r \in Records : target' = [target EXCEPT ![c] = r]
     \/ /\ ~(SharedFree /\ Unlocked)
        /\ Goto(c, "resolve", "done")
        /\ UNCHANGED <<readers, held, target>>
  /\ UNCHANGED <<disk, store, generation, writer, waiting, attempt, throttle,
                 live, captured, guess, snapshot, history>>

\* ... and the unseal, which fails when the record is gone or is sealed
\* under another password.  The guard is dropped either way.
ConnectUnseal(c) ==
  /\ Goto(c, "unseal", IF records[target[c]].pw = held[c] THEN "handshake"
                                                          ELSE "done")
  /\ readers' = readers \ {c}
  /\ held' = [held EXCEPT ![c] = NoPassword]
  /\ target' = [target EXCEPT ![c] = NoRequest]
  /\ UNCHANGED <<disk, store, generation, writer, waiting, attempt, throttle,
                 live, captured, guess, snapshot, history>>

\* Connect, authenticate, open the shell.
ConnectHandshake(c) ==
  /\ \/ Goto(c, "handshake", "checkUnlocked")
     \/ Goto(c, "handshake", "done")
  /\ UNCHANGED <<disk, store, generation, guards, throttle, live, local,
                 history>>

\* get_sftp_tx: the session must be registered now.
OpenRequest(o) ==
  /\ \/ \E c \in sessions : /\ Goto(o, "request", "answer")
                            /\ target' = [target EXCEPT ![o] = c]
     \/ /\ Goto(o, "request", "done")
        /\ UNCHANGED target
  /\ UNCHANGED <<disk, store, generation, guards, throttle, live, captured,
                 guess, held, snapshot, history>>

\* The session task opened the channel, or ended first.
OpenAnswer(o) ==
  /\ \/ Goto(o, "answer", "checkUnlocked")
     \/ Goto(o, "answer", "done")
  /\ UNCHANGED <<disk, store, generation, guards, throttle, live, local,
                 history>>

\* require_generation_current: the password again, then the generation.
RecheckUnlocked(p) ==
  /\ Goto(p, "checkUnlocked", IF Unlocked THEN "checkGeneration" ELSE "done")
  /\ UNCHANGED <<disk, store, generation, guards, throttle, live, local,
                 history>>

\* Fault: an unlocked vault is enough to go on.
RecheckNothing(p) ==
  /\ Goto(p, "checkGeneration", "insert")
  /\ UNCHANGED <<disk, store, generation, guards, throttle, live, local,
                 history>>

RecheckGeneration(p) ==
  /\ Goto(p, "checkGeneration",
          IF generation = captured[p] THEN "insert" ELSE "done")
  /\ UNCHANGED <<disk, store, generation, guards, throttle, live, local,
                 history>>

Register(p) ==
  /\ Goto(p, "insert", "done")
  /\ \/ /\ p \in Connects
        /\ sessions' = sessions \cup {p}
        /\ settled' = IF Unlocked /\ ~\E l \in Locks : Locking(l)
                      THEN settled \cup {p} ELSE settled
        /\ UNCHANGED sftp
     \/ /\ p \in Opens
        /\ sftp' = [sftp EXCEPT ![target[p]] = p]
        /\ UNCHANGED <<sessions, settled>>
  /\ UNCHANGED <<disk, store, generation, guards, throttle, local, openedAt,
                 doomed>>

\* terminal_disconnect closes both.
Disconnect(c) ==
  /\ c \in sessions
  /\ sessions' = sessions \ {c}
  /\ sftp' = [sftp EXCEPT ![c] = NoRequest]
  /\ UNCHANGED <<disk, store, generation, guards, throttle, pc, local, history>>

\* The remote end closed: the session task removes its own entry only.
RemoteClose(c) ==
  /\ c \in sessions
  /\ sessions' = sessions \ {c}
  /\ UNCHANGED <<disk, store, generation, guards, throttle, sftp, pc, local,
                 history>>

-----------------------------------------------------------------------------
(* The program ends - closed, or crashed at any step - and starts again:     *)
(* only the database is left, and no running command.                        *)

Restart ==
  /\ store' = NoPassword /\ generation' = 0
  /\ readers' = {} /\ writer' = NoRequest /\ waiting' = {}
  /\ attempt' = NoRequest
  /\ failures' = 0 /\ cooling' = FALSE
  /\ sessions' = {} /\ sftp' = [c \in Connects |-> NoRequest]
  /\ pc' = [r \in Requests |-> IF pc[r] = "idle" THEN "idle" ELSE "done"]
  /\ captured' = [r \in Requests |-> 0]
  /\ guess' = [r \in Requests |-> NoPassword]
  /\ held' = [r \in Requests |-> NoPassword]
  /\ snapshot' = [c \in Changes |-> Nothing]
  /\ target' = [p \in Pending |-> NoRequest]
  /\ openedAt' = 0 /\ doomed' = {} /\ settled' = {}
  /\ UNCHANGED disk

-----------------------------------------------------------------------------

Init ==
  /\ master = StartPassword
  /\ legacy = (StartLegacy /\ StartPassword # NoPassword)
  /\ records \in [Records ->
       {NoBlob} \cup {[pw |-> p, by |-> NoRequest] : p \in {StartPassword}}]
  /\ store = NoPassword /\ generation = 0
  /\ readers = {} /\ writer = NoRequest /\ waiting = {}
  /\ attempt = NoRequest
  /\ failures = 0 /\ cooling = FALSE
  /\ sessions = {} /\ sftp = [c \in Connects |-> NoRequest]
  /\ pc = [r \in Requests |-> "idle"]
  /\ captured = [r \in Requests |-> 0]
  /\ guess = [r \in Requests |-> NoPassword]
  /\ held = [r \in Requests |-> NoPassword]
  /\ snapshot = [c \in Changes |-> Nothing]
  /\ target = [p \in Pending |-> NoRequest]
  /\ openedAt = 0 /\ doomed = {} /\ settled = {}

Create(k) == CreateBegin(k) \/ CreateVerifier(k) \/ CreateSet(k)

GuessStep(r) ==
  \/ GuessBegin(r) \/ GuessVerify(r) \/ GuessUpgrade(r)
  \/ SetPassword(r) \/ CheckStillCurrent(r) \/ ClearAgain(r)

Unlock(u) == UnlockBegin(u) \/ UnlockGuard(u) \/ GuessStep(u)

Change(c) ==
  \/ ChangeBegin(c) \/ ChangeQueue(c) \/ ChangeAcquire(c) \/ ChangeTimeout(c)
  \/ ChangeSnapshot(c) \/ ChangeRecheck(c) \/ ChangeCommit(c) \/ GuessStep(c)

Lock(l) ==
  \/ LockBump(l) \/ LockKillSessions(l) \/ LockCloseSftp(l) \/ LockClear(l)

Seal(s) == SealBegin(s) \/ SealWrite(s)

PendingStep(p) ==
  \/ CaptureUnlocked(p) \/ CaptureGeneration(p)
  \/ RecheckUnlocked(p) \/ RecheckGeneration(p) \/ Register(p)

Connect(c) ==
  ConnectResolve(c) \/ ConnectUnseal(c) \/ ConnectHandshake(c) \/ PendingStep(c)

OpenSftp(o) == OpenRequest(o) \/ OpenAnswer(o) \/ PendingStep(o)

Next ==
  \/ \E k \in Creates : Create(k)
  \/ \E u \in Unlocks : Unlock(u)
  \/ \E c \in Changes : Change(c)
  \/ \E l \in Locks : Lock(l)
  \/ \E s \in Seals : Seal(s)
  \/ \E d \in Deletes : Delete(d)
  \/ \E c \in Connects : Connect(c) \/ Disconnect(c) \/ RemoteClose(c)
  \/ \E o \in Opens : OpenSftp(o)
  \/ ThrottleCools
  \/ Restart

Spec == Init /\ [][Next]_vars

\* A command that has begun goes on: its thread runs, the network has
\* deadlines, the wait for the write guard times out.  Fairness is asked of
\* the commands together, no more than any scheduler gives; nobody has to
\* begin one, and nothing makes the program restart or a session end.
Running(r) ==
  /\ pc[r] # "idle"
  /\ \/ r \in Creates /\ Create(r)
     \/ r \in Unlocks /\ Unlock(r)
     \/ r \in Changes /\ Change(r)
     \/ r \in Locks /\ Lock(r)
     \/ r \in Seals /\ Seal(r)
     \/ r \in Connects /\ Connect(r)
     \/ r \in Opens /\ OpenSftp(r)

FairSpec == Spec /\ WF_vars(\E r \in Requests : Running(r))

-----------------------------------------------------------------------------
(* Properties *)

\* The shape of the state.
TypeOK ==
  /\ master \in Passwords \cup {NoPassword}
  /\ legacy \in BOOLEAN
  /\ records \in [Records -> Blobs]
  /\ store \in Passwords \cup {NoPassword}
  /\ generation \in Nat
  /\ readers \subseteq Requests
  /\ writer \in Changes \cup {NoRequest}
  /\ waiting \subseteq Changes
  /\ attempt \in Guessers \cup {NoRequest}
  /\ failures \in Nat
  /\ cooling \in BOOLEAN
  /\ sessions \subseteq Connects
  /\ sftp \in [Connects -> Opens \cup {NoRequest}]
  /\ pc \in [Requests -> Steps]
  /\ captured \in [Requests -> Nat]
  /\ guess \in [Requests -> Passwords \cup {NoPassword}]
  /\ held \in [Requests -> Passwords \cup {NoPassword}]
  /\ snapshot \in [Changes -> [Records -> Blobs]]
  /\ target \in [Pending -> Records \cup Connects \cup {NoRequest}]
  /\ openedAt \in Nat
  /\ doomed \subseteq Requests
  /\ settled \subseteq Connects

\* A change has committed and has not yet put its password into the store.
Installing(c) == c \in Changes /\ pc[c] = "set"

\* A setter has filled the store and not yet looked at the generation.
Unconfirmed(r) == r \in Guessers /\ pc[r] \in {"check", "clear"}

\* While the vault is unlocked, the password in memory is the one that opens
\* it on disk - except between the commit of a change and its install, when
\* the write guard keeps every command that seals out.  Otherwise a record
\* sealed from then on is unreadable after the next lock
\* (vault_create_in, vault_unlock_in, change_master_password).
StoreOpensVault ==
  Unlocked => store = master \/ \E c \in Changes : Installing(c)

\* Every stored secret is sealed under the password the verifier accepts,
\* whatever seals, deletions, locks, crashes and changes interleave
\* (VaultRotationLock, apply_vault_rotation).
SealedTogether ==
  \A r \in Records : records[r] # NoBlob => records[r].pw = master

\* A connect that read the password from the store never finds its record
\* sealed under another one: no change can commit between the two reads
\* (resolve_connection under the read guard).
UnsealWorks ==
  \A c \in Connects :
    pc[c] = "unseal" /\ records[target[c]] # NoBlob
      => records[target[c]].pw = held[c]

\* A lock wins over an unlock or a password change that began before it: once
\* no lock is at work and no setter is unconfirmed, an unlocked vault was
\* opened by a request that began after the last lock (vault_unlock_in,
\* install_rotated_password). Creations are not judged: CreateSet counts as
\* opened when it stores, whatever lock it was overtaken by.
LockWins ==
  Unlocked => \/ openedAt = generation
              \/ \E l \in Locks : Locking(l)
              \/ \E r \in Guessers : Unconfirmed(r)

\* What a lock found registered, or captured and not yet rechecked, is not
\* registered once the lock is done - even if the vault is unlocked again
\* before the pending call gets to its recheck (VaultGeneration::is_current).
DoomedNeverSurvives ==
  \/ Registered \cap doomed = {}
  \/ \E l \in Locks : Locking(l)

\* No guess is judged while the throttle cools down: guesses sent at once do
\* not all pass the check before one failure is counted
\* (UnlockThrottle.attempt).
NoGuessWhileCooling ==
  [][failures' > failures => ~cooling]_vars

\* A secret deleted while a change re-seals is not brought back by its commit:
\* a row that was absent holds a blob only because a command sealed it
\* (apply_vault_rotation writes conditionally).
DeletedStaysDeleted ==
  [][\A r \in Records : records[r] = NoBlob /\ records'[r] # NoBlob
       => records'[r].by \in Seals]_vars

\* The data at rest behaves as one password over all secrets.
SealedData == INSTANCE VaultSeal WITH
  key <- master,
  sealed <- [r \in Records |-> records[r].pw]

ImplementsVaultSeal == SealedData!Spec

\* Every command that begins returns: again and again there is a moment at
\* which none is under way, so neither the two guards nor the attempt lock can
\* leave callers waiting for each other (VaultRotationLock, UnlockThrottle).
RequestsFinish ==
  []<>(\A r \in Requests : pc[r] \in {"idle", "done"})

\* A session or an SFTP channel opened before a lock does not outlive it.
\* (Registration follows the recheck without a lock in between.)
NoSessionOutlivesLock ==
  \A c \in sessions :
    captured[c] = generation \/ \E l \in Locks : Locking(l)

\* A session that was registered in an unlocked vault is gone when the vault
\* is locked and no lock or setter is at work: the password leaves the store
\* only after every session was killed (lock_vault_internal).
LockedHasNoSession ==
  \/ Unlocked
  \/ \E l \in Locks : Locking(l)
  \/ \E r \in Guessers : Unconfirmed(r)
  \/ sessions \cap settled = {}

=============================================================================
