# SSHSpan: specifications, model checking and proofs

SSHSpan is a desktop SSH client: a Rust backend (`src-tauri/src`), a web
renderer that calls it through Tauri commands, and one SQLite database. This
directory holds TLA+ modules of the parts whose correctness depends on the
order in which threads act, the TLC configurations that check them on small
instances, and TLAPS proofs of what must hold for every instance. Paths below
are relative to `src-tauri/src` of the repository.

Run one configuration with `tlc -config vault_passwords.cfg MCVaultLifecycle`,
and the proofs of a module with `tlapm VaultLifecycle_proofs.tla`, likewise for
`TransferQueue_proofs`, `EditSync_proofs`, `McpSessions_proofs`,
`McpSessions_life`, `BitwardenSync_typing`, `BitwardenSync_steps` and
`BitwardenSync_proofs`. `PROJECT.json` lists the runs, the mutants, the source
lines of every definition, the hazards and the theorems.

## 1. The system

### Components

| component | state it keeps | operations | hard behaviour | what makes it correct |
|---|---|---|---|---|
| Vault (`commands/mod.rs`, `db/mod.rs`, `crypto/vault.rs`) | verifier and sealed rows on disk; `VaultPasswordStore`, `VaultGeneration`, `VaultRotationLock`, `UnlockThrottle` in memory | create, unlock, lock, change password, seal, delete | commands run on the main thread, async workers and the blocking pool at once; a change spans many rows; a crash at any point | the password in memory opens the vault on disk; every secret is sealed under one password; a lock wins; guesses are throttled |
| Terminal sessions, SFTP channels (`commands/terminal.rs`, `ssh_client/mod.rs`, `commands/sftp.rs`) | `SessionRegistry`, `SftpRegistry` | connect, open a channel, disconnect, teardown by a lock | a handshake takes seconds, locks and unlocks happen meanwhile | nothing a lock found survives it |
| Transfer queue (`sftp/queue.rs`) | jobs behind a mutex, rows of `transfer_queue` | enqueue, dispatch, worker, retry with backoff, pause, cancel, resume, retry, clear, restore | rows written after the mutex is released; workers race with the user; sessions die; restarts | one worker per job, the limit, no stopped job restarted, no forgotten slot |
| `.part` staging (`sftp/queue.rs`) | one partial file per transfer | prepare, append, rename over, verify | resume after crash, source changed meanwhile | the final name never holds a torn file |
| Edit sync (`commands/sftp.rs`, `EditSync`) | per opened file: watched hash, remote fingerprint, conflict | open, change, upload, resolve, close | watcher events, upload and the user's answer interleave | no local edit lost, no remote version overwritten unseen |
| MCP servers (`assistant/mcp.rs`) | sessions per server, bindings, teardown jobs | connect, call, save, remove, lock teardown | answers after a teardown, expired sessions, retries | a session belongs to the saved configuration; a call runs once |
| Assistant gate (`assistant/mod.rs`) | autonomy level per session | classify and approve a command | - | nothing above the level runs unasked |
| Bitwarden sync (`bitwarden/sync.rs`) | item id, revision, sync marker and category mark per row; the list waiting for approval | fetch, plan, upload, link, list, approve, pull | a lost answer, a crash between the provider's answer and the local mark, both sides edited during a run | no edit of either side lost, nothing created twice, remote changes only as approved |
| Host keys (`ssh_client/mod.rs`) | pins per host:port | verify, ask, pin | two connects ask at once | a changed key is never accepted unasked |
| Credential questions (`commands/mod.rs`) | one question at a time, recent declines | ask, decline | concurrent connects | at most one dialog, no repeat within the cooldown |
| Categories (`db/mod.rs`) | a tree of rows per scope | insert, move, rename, order, delete | - | a forest, sibling names distinct |
| Database, backup, settings, audit | tables | sequential SQL | - | - |
| Crypto and key formats (`crypto/*`) | none | parse, encode, derive | - | round trips |
| PuTTY import, key deployment | none | one pass over input | - | - |
| Updater (`commands/updater.rs`) | staged installer | check, download, verify, launch | - | only a verified release is launched |
| Application shell (`lib.rs`) | window, tray, idle watchdog | lock on idle or from the tray | a third thread that locks | locks of the vault module |
| Renderer (`src/renderer`) | user interface | calls the above | - | - |

### How they meet

* `lock_vault_internal` is the one place where the vault reaches into the
  others: it bumps the generation, ends the SSH sessions, the edits and the SFTP
  channels, pauses the queue, tears down MCP sessions, and clears the password.
* Every long operation captures the generation at its start and compares it
  before it commits something (`capture_vault_generation`,
  `require_generation_current`).
* Everything that seals or unseals takes a shared guard of the rotation lock; a
  change of the password takes the exclusive one, with a deadline.
* Jobs of the queue name SSH sessions by id; a resume looks them up again in
  the session registry.
* The Bitwarden sync reads and writes the rows that the server and category
  commands write, and holds none of their locks between its own statements.

## 2. Modules

| module | what it is |
|---|---|
| `VaultSeal` | abstract: one password over all secrets, changed in one step |
| `VaultLifecycle` | the vault, its locks and throttle, sealing and deleting, sessions and channels; implements `VaultSeal` |
| `VaultLifecycle_proofs` | its theorems |
| `TransferLife` | abstract: the jobs of the queue as the user sees them |
| `TransferQueue` | jobs, workers, timers, commands, rows and restarts; implements `TransferLife` |
| `EditSync` | one remote file open in a local editor |
| `SessionLife` | abstract: the way a session on an MCP server goes, once |
| `McpSessions` | the sessions of one MCP server; implements `SessionLife` |
| `BitwardenSync` | the server half of the Bitwarden sync and what meets it |
| `..._proofs` | the theorems of the module they are named after |
| `McpSessions_life` | the theorems about sessions as `SessionLife` tells them |
| `BitwardenSync_typing`, `BitwardenSync_steps` | its type correctness; lemmas about what each of its steps changes |
| `MC...` | small instances of the module they are named after |

Operators headed `Fault:` are not part of any specification: each is a
plausible slip in the definition that follows it (a dropped check, a wrong
order), and every checked property is known to fail under one of them.

### VaultLifecycle

One request is one call of a command. A request's `pc` names its next step, and
a step is the code between two points where another thread can touch the same
state. On disk: `master` (the password the verifier accepts), `legacy` (the
verifier is still the plaintext one) and `records` (per row, a blob: the
password it is sealed under and the request that sealed it, so that two seals
differ as fresh salts make them differ). In memory: `store`, `generation`, the
rotation lock (`readers`, `writer`, `waiting`), the throttle (`attempt`,
`failures`, `cooling`) and the registries `sessions` and `sftp`.

| actions | code |
|---|---|
| `CreateBegin`, `CreateVerifier`, `CreateSet` | `vault_create_in`: quick check, the `BEGIN IMMEDIATE` transaction, the store |
| `UnlockBegin`, `UnlockGuard`, `GuessBegin`, `GuessVerify`, `GuessUpgrade`, `SetPassword`, `CheckStillCurrent`, `ClearAgain` | `vault_unlock`: generation, shared guard, attempt lock and throttle, verification, legacy upgrade, store first and generation second |
| `ChangeBegin` ... `ChangeCommit` | `vault_change_password`: queue for the exclusive guard or time out, verify, re-seal a snapshot in memory, look at the generation, commit if no row moved |
| `LockBump`, `LockKillSessions`, `LockCloseSftp`, `LockClear` | `lock_vault_with` and its teardown, in that order |
| `SealBegin`, `SealWrite`, `Delete` | `key_import_in` and its like; `key_delete` |
| `CaptureUnlocked`, `CaptureGeneration`, `ConnectResolve`, `ConnectUnseal`, `ConnectHandshake`, `OpenRequest`, `OpenAnswer`, `RecheckUnlocked`, `RecheckGeneration`, `Register` | `terminal_connect`, `sftp_open` |
| `Disconnect`, `RemoteClose`, `ThrottleCools`, `Restart` | `terminal_disconnect`, the session task, time, the end of the program |

`Return` is every return of a command: it drops all guards the call holds and
wipes its copies of secrets. Cryptography is reduced to which password a blob
or a verifier belongs to; time to `cooling` and to the timeout a waiting change
may take at any moment. SQLite transactions are atomic steps that succeed: that
`apply_vault_rotation` re-seals all rows and the verifier or none is taken from
SQLite, and a restart is looked at before and after it; likewise the re-sealing
in memory before it is one step. A creation captures no generation
(`vault_create_in`), so `openedAt` takes the one at its store, and `LockWins`
does not judge creations (section 5).

### TransferQueue

`job` is the list behind the mutex, `disk` the rows, `task` the threads: the
main thread (synchronous Tauri commands run on it one at a time), calls of
`sftp_queue_add`, threads that lock, and a pool `Runs` of async tasks, which are
workers or the timers of automatic retries. Each function is one step under
the mutex, then one `Persist` per row, then what follows (`Dispatch`, `Spawn`);
rows of different threads may cross. A worker opens its channel (`Open`), may
write progress rows, notices a flag at a chunk boundary (`Notice`) or comes to
an end (`CopyEnds`), and settles (`FinishJob`, `HandleFailure`). `Restart`
ends the program between any two steps and runs `restore_pending`.

Reductions: one session per job stands for both ends of a server copy; flags are
FALSE while no worker holds them, because `dispatch` makes new ones; a row keeps
whether it is pending, the attempts and the saved server - what a restart and
`clear_finished` read; the limit does not change during a run; statements on the
table succeed; the lock of the vault is not tracked, so commands may be called
at any time; the timer of a retry does not wake before `retry_at`. (The code
leaves room for one that does: it would dispatch nothing, and its job wait for
the next dispatch. `NoLostWakeup` and `SlotsFill` rest on this.) `Shadowed`
names the jobs whose rows are followed and is a bound: with no row followed, a
restart comes back with an empty list.

### EditSync

The state is the session `EditSync` keeps (`baseline`, `synced`, `pending`,
`saveSeen`, `failure`, `due`), the staged copy, the remote file, the newest
debounce generation (`latest`) and who holds `upload_lock` (`turn`). The
watcher's callback spawns `Tasks`, the periodic rescan is one more, and the
user's commands are `Calls`; all of them take the lock one at a time and go
through the phases of `turn`.

| actions | code |
|---|---|
| `EditorSaves`, `OthersWrite`, `OthersDelete`, `End` | the editor, other users of the server, a lock or a lost session |
| `Settle`, `RescanTick`, `Elapse`, `TakeTurn`, `RetryDue` | the debounce task, `periodic_rescan`, `upload_lock` and the check of the generation after it |
| `HashCopy`, `CheckRemote`, `HoldBack`, `CopyUp`, `SwapIn`, `SwapFails` | `on_change`, `check_remote`, `hold_back`, `upload` and `rename_over` |
| `AnswerConflict`, `StopEditing`, `Admit`, `Refuse`, `CloseTimesOut` | `sftp_edit_resolve` and `sftp_close_edit` up to the lock |
| `ReadCopy`, `Recheck`, `StatForReload`, `Download`, `Adopt`, `Decide` | what they do under it |

A content stands for its own SHA-256. A version of the remote file has a stamp
(size and time) that no version still remembered has; `Stamped` says whether
the server reports stamps at all, and where it does not, versions are compared
by content, as `check_remote` does. An overflow rescan is a task that did not
see the save; a temporary file that a failed attempt leaves behind is one of the
ways in which `CopyUp` can fail; the rename of the new file over the old is one
step. Not modelled: opening (a second open that shares the edit, the closing
mark, handles on the staged copy), and files over 16 MiB
(`EDIT_COMPARE_MAX_BYTES`), which are too large to be compared by content on a
server without stamps.

### McpSessions

One server's record (`stored`), the registry of live sessions and the ends that
are due (`registry`, `deferred`, `ends`, `taken`, and `old`, what a request took
out of the registry and has yet to end), the sessions the server itself knows
(`alive`, `issued`), and one frame per connect or call. `left` remembers the
sessions given up with a warning, `lost` those given up without one.

| actions | code |
|---|---|
| `Begin`, `Load`, `SetUp`, `Initialize`, `CheckAnswered`, `Register`, `EndOld`, `Initialized` | `server_context`, `establish_session` and what they call |
| `CheckList`, `List`, `Store`, `GateBeforeCall`, `Call`, `NoAnswer`, `Refused`, `Refresh` | `request_with_session`, `store_fetched_tools`, `run_tool_call` and its gates, `after_refused_call` |
| `Release`, `EndReplaced`, `StartTeardowns`, `TeardownEnds` | `SessionUse::drop`, `McpState::end_replaced`, the admission and the end of teardown jobs |
| `Save`, `SaveDrops`, `Allow`, `Decline`, `Toggle`, `RemoveTakes`, `RemoveDeletes` | the commands of the settings view and the credential question |
| `LockBump`, `LockDrain`, `LockClear`, `Unlock`, `Expire` | `lock_vault_with` as far as it meets the sessions, and the server forgetting a session |

A binding is the URL and the credential, which may be none, a secret or an
environment variable; everything that decides whether a tool may run is the flag
`callable`. Each HTTP exchange is one step whose answer meets the state of that
moment, or is lost. An initialize is answered, or the server issues a session
and the exchange still fails (no whole answer in time, an error, a protocol
version the client rejects), or it fails before that. In the second case the
program drops the id: the session is `lost`. A DELETE ends the session, fails
with a warning (`left`), or is answered 405, which the code takes for an end
(`lost`). The count and the entry of teardowns are apart in the code
(`admit_teardowns`, `track_teardowns`): `StartTeardowns` counts any part of
those under way, so `MaxTeardowns` decides who is given up but is no bound on
them, and no property says it is. What a registration or a stale record
displaces is ended in a step of its own (`EndOld`): a lock may come in between.
A save counts from the generation in which its command began; an Allow or a
Decline may fail to be written (a password change runs, or an error).

Simplified: a save is validated and committed in one step, one save at a time;
that a question is not repeated within its cooldown is a question that is not
asked, at will; `Load` looks up the session and reads the record again in one
step; `remove_server` succeeds; a DELETE can always be made (`session_end`,
`origin_client`). A "no" that is not written counts as not given. Not modelled:
servers that issue no session id, records re-sealed by a change of the password,
several servers at once, SSE and paging, the wait at exit, and a command that
begins between a lock's bump and its drain (the gap `lock_escape` shows).

### BitwardenSync

Both sides are in the state: `rows` with their sync columns and category mark,
`cats`, and the provider's `items`. `run` is what a run of `run_sync` holds: the
vault as it was fetched, the rows as they were listed, the marks, what is still
to be done. The properties are about the distance between such snapshots and
what the rows and items are by then.

| actions | code |
|---|---|
| `SaveStart`, `SaveWrite`, `ServerDelete` | `store_server` (category checked, stamp taken, sealed) and its write; `server_delete` |
| `RenameCategory`, `DeleteCategory` | the transactions of `db/mod.rs` with their marks |
| `ItemEdited`, `ItemTrashed`, `ItemRestored`, `ItemGivenAway`, `ItemMoved`, `ItemCloned`, `ItemAdded` | what the user may do in Bitwarden itself |
| `StartAsking`, `Approve`, `Decline`, `ListServers`, `CategoryMarks`, `LoadIndex` | `bwSyncNow`, `bitwarden_sync`, `run_sync`, the start of `server_pass` |
| `LeaveAmbiguous`, `LeaveAlone`, `Create`, `Update`, `UploadFails`, `Link`, `ListChange` | one row of `server_pass`, by `plan_server_row_marked` |
| `Record`, `AnswerLost` | `record_pushed_server`, `category_uploaded`; the answer that never arrives |
| `Settle`, `PullStart`, `PullServer`, `PullNewServer`, `PullFails` | `settle_remote_changes` and the pulls: category first, then the seal, then `apply_pulled_server` |
| `Abort`, `Crash` | the check for a lock at every boundary; the end of the program and the clean-up of the next start |

Everything a row and an item hold but the category is one number, fresh with
every save and every edit, so that a lost edit shows as a difference. One clock
stamps both sides, and stamps of the two sides are never compared, as in the
code. `base` remembers what row and item last agreed on, `late` the rows whose
last save wrote a stamp older than the row's, `astray` the rows pulled into a
category that was changed meanwhile, `ours` the items the sync created that
nobody has taken out of its sight since; all four are for the properties only. A
new item gets some unused id (`NewItem` chooses one, ids being alike), and ids
are never given twice. Simplified: the order of rows is free; a category's
servers move to no category when it is deleted; the record of an answer and the
removal of the category mark are one step; a request does not arrive after the
program that sent it has ended; the provider refuses updates of items it does
not show as live; an approval names rows by their id, where the code's token has
what was shown of them (name, host, port), so two rows that show the same are
told apart only here. Not modelled: an answer without a `revisionDate`, a
category path that cannot be made (the code falls back on the listed category),
the key half, the limit on how many changes may be listed, items without dates,
three rounds of approval at most, several runs at once (the renderer starts one
at a time).

## 3. Runs

| run | instance | shows |
|---|---|---|
| `vault_passwords` | an unlock, a change, a lock, a seal, a delete, a connect; 2 passwords, 1 record, plaintext verifier, limit of 1 failure; fair | `StoreOpensVault`, `SealedTogether`, `LockWins`, `UnsealWorks`, `DeletedStaysDeleted`, `VaultSeal` is implemented, and `RequestsFinish`: guards, the attempt lock and deadlines never leave a command stuck |
| `vault_sessions` | first start: two creations, two unlocks, a lock, a connect, an SFTP open | `DoomedNeverSurvives`: what a lock found registered, or pending and not rechecked, is not registered after it - also when the vault is unlocked again before the answer comes; `StoreOpensVault`, `NoGuessWhileCooling` |
| `queue_slots` | 2 jobs, 1 slot, 1 retry, user commands, a locker, fair | `OneWorkerPerActiveJob`, `NoLostWakeup`, `StoppedStaysStopped`, `SlotsFill`, and `TransferLife` is implemented: its `Start` has the limit |
| `queue_restart` | 1 job with its row, 3 sessions on 2 servers, restarts | `NeverMovesHosts`, and `TransferLife` is implemented across restarts: what comes back is paused and held |
| `edit_sync` | 2 saves, 1 write by others, 1 failing call, 1 watcher task, the rescan, 1 call of the user, fair | `BaselineIsHonest`, `NothingUnseenIsReplaced`, `SilentRetriesWereReported`, and `SavesLand`: no save is forgotten |
| `mcp_sessions` | eight small scenarios of up to two requests among saves, removals, locks and changes of a tool; 3 sessions, 1 that expires, room for 1 teardown; fair | every session left open is one the code lets go; none is sent elsewhere or kept past a lock; calls run once and only as gated; `SessionLife` is implemented; everything settles |
| `bw_sync` | 2 servers, 3 items, 2 categories; 3 events among 2 saves or deletions, 2 changes in Bitwarden, 1 category change, 1 lost answer or crash; any number of runs | `OneItemEach`, `EditsSurvive` (but in the rows `late`), `AsApproved`, `InSyncIsEqual`, `CategoryGoesUpAlone` |
| `lock_escape`, `stale_create`, `queue_drop`, `edit_undo`, `bw_category` | the smallest instance | a counterexample each, section 5 |

Why the bounds are enough. Every property of the vault relates at most a change,
an overtaking lock, a second opener and one record: the instances hold each of
these at once, and the theorems of section 4 remove the bound. In the queue one
slot and two jobs give a job that waits behind another; two tasks give a worker
that is still writing its rows beside its successor, or beside a timer; one
retry separates "may retry" from "gave up"; commands and restarts are not
counted, so sequences of any length are explored. An edit needs two saves to go
back to a content, one write of somebody else to make a conflict, and one
failure to make a retry; with the rescan and a call there are always two that
want the lock. Of the eight scenarios of `mcp_sessions`, four put a connect and
a call beside one kind of event each (a save, a lock, a removal, changes of mind
about the tool), one has two calls share a session, two let one call meet
several kinds together, and one is saves to four settings, a removal and a lock
alone; 510,000 states. In `bw_sync` each property takes at most three events
besides the syncs to break in any of the ways its mutants and the hazards name
(an edit on each side and a lost answer; an edit there, a category here, a
crash); Bitwarden's second item is enough for ambiguity, the third for a clone
of an ambiguous one; 1.7 million states. Section 4 removes the bounds of all of
these from the safety properties. Sets of alike requests and tasks are permuted
(`SYMMETRY`) only in runs without liveness. Deadlock is checked in the queue;
the other systems may stop: a vault whose requests have returned, an edit that
has ended, an MCP server or a sync nobody uses. Their configurations say so.

Fairness. The vault's commands are weakly fair together: a disjunction, no more
than any scheduler gives; network calls have deadlines (`ssh_client/mod.rs`) and
the wait for the exclusive guard ends after `ROTATION_LOCK_WAIT`. Nobody is
forced to begin a command. In `queue_slots` a thread that left the mutex goes
on, backoffs pass and timers wake; a copy may hang for ever, and nothing is
assumed of users or sessions. In `edit_sync` the periodic rescan ticks and
elapses, the holder of the lock goes on (its calls have deadlines), and the
rescan gets its turn (tokio's mutex is first come, first served: strong
fairness, because the lock is free again and again); the watcher's own tasks
are given no fairness, so its events may all be lost. In `mcp_sessions` what has
begun goes on (`WF_vars(Progress)`), requests and DELETEs having deadlines.
`BitwardenSync` has safety properties only: nobody has to sync.

## 4. Proofs

`VaultLifecycle_proofs` proves, for any number of requests, records and
passwords, from `RequestsDistinct` and `PasswordsAssumption`:

* `Invariance`: `Spec => []IInv`, with `IInv == TypeOK /\ HoldsPassword /\
  RotationLock /\ OneGuess /\ LockOrder /\ Doom`. Type correctness alone is not
  inductive: that a commit writes a password needs `HoldsPassword` (a call past
  its checks holds one). `RotationLock` says who is among readers or writer at
  which step; `OneGuess` that whoever is between the throttle's check and its
  verdict holds the attempt lock; `LockOrder` that a call that put a password
  into the store is the one that opened it, unless somebody else did since;
  `Doom` that a doomed call either has an older generation than the current one,
  or is past its end, or will still be removed by the lock that doomed it.
* `TypeCorrect`, `LocksWin`, `LocksEndSessions`, `ThrottleHolds`,
  `DeletionsHold`: the checked properties that follow from it.
* `SecretsHoldUnlessOvertaken`, `StoreMatchesUnlessOvertaken` and
  `VaultSealUnlessOvertaken` rest on a second invariant, `Secrets` (the password
  each working call holds is the verifier's). It is kept by every step but one,
  the commit of a change while a creation stands between its verifier and its
  write of the store; `CommitsAfterCreates`, an action, excludes just that step,
  and run `stale_create` shows what it does.
* `SecretsHold`, `RecordsSealedTogether`, `StoreMatchesVault`, `UnsealsWork` and
  `VaultSealRefined` say the same without a hypothesis on the steps for a vault
  that existed at start, or whose password nobody changes
  (`CreatedBeforeChanged`): no creation, or no change, is ever in between
  (`NoneCreating`). The runs check these instances.
* `NoSessionOutlivesSpacedLocks` delimits `lock_escape` likewise: if no lock
  bumps the generation while a connect stands between its recheck and its
  registration (`BumpsBetweenConnects`), every session is of the current
  generation once no lock is at work. Its invariant `SessionsCurrent` says that
  a session, and a connect about to register one, has the current generation,
  unless a lock that has bumped it is yet to end the sessions.
* `LockedVaultHasNoSession`: a session registered in an unlocked vault is gone
  when the vault is locked and at rest, if no overtaken unlock or change clears
  the store (`NoLateClear`). The invariant, `SettledSessions`, says that no such
  session is open in a locked vault or behind a lock that has ended the
  sessions.

The proof of each invariant has one step per action, and each property is cited
from the invariant with `PTL`.

`TransferQueue_proofs` proves every safety property of the queue, for any number
of jobs (even infinitely many ids), threads, sessions and retries and any limit
of the setting, from `NumbersAssumption` and `ThreadsDistinct`:

* `QueueInvariant`: `Spec => []QueueInv`. Beyond the properties themselves it
  takes four parts. `Shape`: a thread has a job exactly while it works on it,
  and jobs to start only between a dispatch and its spawns, also while it still
  writes rows - without it `OneWorkerPerActiveJob` is not inductive, since
  nothing would keep a thread that becomes idle from holding a job. `FreshIds`:
  ids from `nextId` on belong to no job, so that an enqueue overwrites none and
  the active jobs are finitely many. `StoppedNotQueued`: a stopped job is not
  queued, and while it is active one of its flags is up, which is what
  `handle_job_failure` looks at before it retries. `OwnTimer`: each waiting job
  has a timer of its own that sleeps, so that when the backoff has passed
  somebody will call dispatch.
* `OneWorker`, `StoppedStays`, `HostsKept`, `Limited`, `WakeupKept` and
  `TypeCorrect` follow. `Limited` and `WakeupKept` count: `FirstAtMost` (by the
  pigeonhole principle: distinct jobs have distinct numbers of jobs before them)
  and `FirstTakesAll` (by the least job left) say that `First(js, k)` has at
  most `k` members and, if it leaves one, exactly `k`.

Each lemma about a step splits on what the steps do to the jobs (`JobSteps`)
or to the threads (`LeftAlone`, `CarriersStep`) and treats the actions one by
one.

`QueueKeepsItsPromise` shows that the queue implements `TransferLife`. The map
takes the states of the jobs as they are and the stopped jobs for the held ones;
what it needs beyond `QueueInv` is `HeldAreMarked`, a second invariant about the
flags. Pause and cancel are flags on a job that runs, read by its worker outside
the mutex and by `finish_job` and `handle_job_failure` in it; the invariant says
that a flag is up only on a running job that was stopped, that a paused job was
stopped, and that what a worker has seen of the flags stands until its end is
written. So no job that nobody stopped ends paused or cancelled, and a failure
that is retried was nobody's stop. The limit of `Start` comes from `Limited`.

`EditSync_proofs` proves the safety of an edit for any contents, stamps, number
of tasks, calls and bounds, from `NamesApart`, `StartIsThere` and
`BoundsAreNat`. `EditInvariant` adds to the checked properties: `Typed` (the
lock's holder is the one in its turn, and each phase remembers what the next
needs), `AnswersPending` (a call that answers a conflict holds the lock only
while that conflict is the pending one), `ReloadIsHonest` (between the STAT and
the adoption of a reload, the stamp that was read still stands for the content
that was downloaded unless others wrote) and `QuietIsRepeat` (an attempt is
silent only for the content whose failure was reported).

`SyncedWhenAtRest` and `CloseKeepsWhenAtRest` delimit the finding `edit_undo`:
if nobody saves between the hash of the copy and the upload that reads it again
(`CopyRests`, an action), then what the session takes for synced is always what
the server was given or gave, and a close discards nothing the server has not.
All else may interleave: other writers, answers, failing calls, saves at any
other time.

`McpSessions_proofs` proves all its safety properties, for any number of
commands, saves, removals, sessions and locks, from `BindingsAreRecords`,
`NamesApart` and `BoundsAreNat`. `SessionsInvariant` is `Typed /\ SessionInv /\
ConfirmedAsAllowed /\ CallInv`; `SessionInv` says that what a frame, the
registry, a request that displaced a session (`HandsTyped`) or a job holds was
issued for the binding it is sent with (`HeldAsIssued`, `JobsAsIssued`), that a
session not yet registered is known to its own request alone (`NewIsMine`), that
only a removal fills `taken` (`TakenByRemoval`), and `CallInv` that a call that
ran is past the step that may run it. A session stays accounted for because the
server learns of none but in an initialize, and what it forgets or loses it does
not get back (`ServerGoesOn`).

`McpSessions_life` proves that the sessions implement `SessionLife`, where a
session is set up, perhaps registered, perhaps replaced while requests still use
it, and ended once. The stage of a session is not stored in the code; it is
where its id is: in the frame of the request that set it up, in the registry,
in the hands of the request that took it out of there, among the deferred ones,
in a teardown job or with a removal. `SessionsInOnePlace` is the invariant that
makes this a function: these places are disjoint (`OnePlace`, `TakenApart`), no
two requests took out the same session (`HandsApart`), and at most one is
registered. `SessionsLiveOnce` is the
refinement: first the effects the code has on these places (issue, register,
make way, end, retire, drain), each shown to be a step of the abstract
specification, then one lemma per action. A second teardown of a session, or a
request that takes up one that was never registered, would have no step to map
to.

Three modules prove every property of `bw_sync`, for any rows, items, categories
and bounds, from `NamesApart` and `Bounds`. `BitwardenSync_typing` has type
correctness; `BitwardenSync_steps` says field by field what each step does to
the rows, the items and the run, and reduces `Next` to 17 kinds of step
(`NextIs`), so that the lemmas about a conjunct of the invariant speak of kinds
and not of every action. `BitwardenSync_proofs` has `Invariant`, the inductive
`TypeOK /\ Stamps /\ Kept /\ Bases /\ Categories /\ Owned`:

* `Stamps`: no stamp is from the future, and an item that still has the stamp it
  was served with is the item that was served - a run may rely on equal stamps.
* `Kept`: rows still to do, listed changes and answers that have not been
  recorded belong to rows and items as they were listed.
* `Bases`: what row and item last agreed on, and that a save under way is older
  than its row's stamp or newer than every stamp a run has seen.
* `Categories`: a row and an item that count as equal agree on the category, or
  will when an answer under way is recorded; a row whose category has moved
  since it was listed has a newer mark or stamp - which is why clearing the mark
  that was listed loses no later move.
* `Owned`: an item the sync created is linked only by the server it names; a run
  knows every such item of a server before that server's turn; and an item that
  names another server than when it was served is the link of that server. This
  is what keeps a lost answer from creating a second item.

`Ownership`, `Agreement`, `Approval`, `Survival` and `Solitude` are the
properties that follow. `FiledWhenUnremembered` delimits the finding
`bw_category`: every server points at a category that exists, if categories are
deleted only while no save that is sealing, no run that has listed the rows and
no pull holds them (`GoesUnremembered`). The state predicate `FiledAll` is
inductive under that hypothesis: each of these three holds categories that
exist.

The five hypotheses on steps (`CommitsAfterCreates`, `BumpsBetweenConnects`,
`NoLateClear`, `CopyRests`, `GoesUnremembered`) are not assumed of the code,
which does not ensure them: each excludes the step, or the window, that a
finding or an entry of section 5 exhibits, and the theorem says that the
property has no other way to fail. For `queue_drop` there is no such theorem: it
shows a check that is missing, not a window.

Model-checked only: the liveness properties `RequestsFinish`, `SlotsFill`,
`SavesLand` and `Settles`, since liveness under fairness is out of the prover's
reach.

## 5. Where code and documentation disagree

* `lock_escape`: the generation is rechecked and the session is then inserted
  with nothing held in between; a lock fits in, and the session is registered in
  a locked vault, against the comments at `lock_vault_with` and
  `terminal_connect`.
* `stale_create`: `vault_create` stores its password after its transaction
  without the shared guard that `vault_unlock` is documented to need.
* `queue_drop`: a dropped connection is documented to fail the attempts in
  flight and to leave the rest resumable; every worker that fails starts the
  next job on the dead session, until all have failed.
* `edit_undo`: a save between the hash of the copy and its upload is uploaded
  but not remembered as synced; if the user goes back to the older content,
  nothing is uploaded and a close discards it as if the server had it.
* `bw_category`: a pull writes back the category the row was listed in; deleted
  meanwhile, the server points at an id that is gone until the next start, the
  state `delete_category` is documented to prevent.

Seen in the models, stated by no run:

* An overtaken unlock clears the store at its end; sessions opened while its
  password was there stay, in a vault that is locked. `LockedVaultHasNoSession`
  says that no other session does.
* A cancel of an active job writes its row "active" after it let go of the
  mutex, possibly after the worker wrote "cancelled", and a restart then brings
  the job back, even after `clear_finished`; a cancel that arrives between the
  worker's notice of a pause and `finish_job` is lost (the job ends Paused).
* `vault_create` captures no generation: a lock during the creation does not
  keep it from storing its password afterwards, and the vault is open.
* A capture of the generation while a lock is tearing down takes the new
  generation; two overlapping locks may write two audit rows; `SftpRegistry` can
  keep the channel of a session that has ended by itself.
* A new secret saved for an address whose question is still open counts as
  confirmed by an earlier Allow, and the later No leaves it so, though
  `decline_binding` says such settings wait for a question of their own
  (`mcp.rs` 3188-3200, 3417).
* `establish_session` is documented to leave nothing open on a server
  (`mcp.rs` 1746). When the server has issued a session with its initialize and
  the exchange then fails, the `?` at 1769 drops the id: no DELETE, no warning.
  `OpenIsAccountedFor` counts these sessions as `lost`.
* `MAX_PENDING_TEARDOWNS` is documented as the most teardowns pending at once
  (`mcp.rs` 733). They are counted (993-1008) and entered (896-900) under two
  locks of the mutex, so callers side by side may pass it.
* A "no" that meets a password change is not written (`decline_binding`), and
  an earlier "yes" to the same settings stands.
* `remove_server` takes the session before it deletes the record: a call that
  registers one in between leaves it registered until the next lock.
* `store_server` takes its stamp before it seals. A pull that lands in between
  leaves the row with a stamp older than its sync marker, and the save is never
  uploaded (the rows in `late`).
* `store_server` checks the category before it seals: deleted in between, the
  server is filed under an id that is gone, as in `bw_category`.
* A pull that made or found its category by path, and seals while that category
  is renamed, leaves a row whose new path is not marked (the rows in `astray`).
* A category deleted between the listing of the rows and the reading of the
  marks: the upload carries no category and clears the mark.
* An upload is sent without a precondition: an item changed after the run's
  fetch is overwritten unseen (the exception in `CategoryGoesUpAlone`).

## 6. What is not modelled

`PROJECT.json` names every component and its status. Not modelled are the parts
without a protocol between threads, messages or restarts: cryptography and key
formats (pure functions over bytes), the updater, backup, settings, schema and
migrations, PuTTY import and key deployment (sequential), network clients and
address filters, and the renderer, which keeps nothing the backend relies on.
Half of `commands/sftp.rs`, 45 % of `bitwarden/sync.rs` and a quarter of
`sftp/queue.rs` are tests; the views, forms and single SQL statements make up
most of the rest of the repository, so the share of its lines that the modules
map stays small.

With a protocol of their own, and not modelled: the staging of one transfer in
its `.part` file (the queue takes an attempt as one step), the question and the
pin of a host key, the tree of categories beyond rename and delete, the key half
of the sync (it plans as the server half does, but finds a lost item by
fingerprint and then stores the row's own stamp as its marker, so that an edit
made after the lost upload is not uploaded), and the chat of the assistant.
