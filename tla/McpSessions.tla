---------------------------- MODULE McpSessions ----------------------------
(***************************************************************************)
(* The sessions the program holds on one MCP server (assistant/mcp.rs): how *)
(* a connect and a tool call set them up, use, renew and end them, while    *)
(* the user saves or removes the server, revokes a tool, answers the        *)
(* question about a credential, and the vault is locked and unlocked.       *)
(*                                                                          *)
(* A binding is the URL and the credential a session was set up with. What  *)
(* a tool does and says is left out; that it may be called as the record is *)
(* stored (enabled, definition as approved, access level) is one flag.      *)
(* Every HTTP exchange is a step of its own, with the program's state as it *)
(* is when the answer is there.                                             *)
(***************************************************************************)
EXTENDS Naturals, FiniteSets

CONSTANTS
  Connects,    \* mcp_test_connection commands
  Calls,       \* mcp_call_tool commands
  Bindings,    \* settings a save may store: [url, key]
  Start,       \* the settings stored at first, confirmed by the user
  NoKey,       \* the key of settings that send no credential
  Variables,   \* the keys that are the value of an environment variable
  Sids,        \* session ids the server may hand out
  MaxTeardowns,\* MAX_PENDING_TEARDOWNS
  None,
  Budgets      \* bounds: the requests that may begin, the settings a save may
               \* store, the sessions the server may forget on its own, how
               \* many saves, removals, tool toggles and locks there are; each
               \* behaviour has one of them

ASSUME BindingsAreRecords ==
  /\ Start \in Bindings
  /\ \A b \in Bindings : b = [url |-> b.url, key |-> b.key]

ASSUME NamesApart ==
  /\ Connects \cap Calls = {}
  /\ None \notin Bindings \cup Sids \cup [sid : Sids, binding : Bindings]

Requests == Connects \cup Calls

ASSUME BoundsAreNat ==
  /\ MaxTeardowns \in Nat
  /\ Budgets \subseteq [requests : SUBSET Requests, settings : SUBSET Bindings,
                        expiring : SUBSET Sids, saves : Nat, removals : Nat,
                        toggles : Nat, locks : Nat]

VARIABLES
  \* the vault
  unlocked, generation,
  lockStep,    \* "none", or how far lock_vault_with has come
  \* the database row
  stored,      \* None, or [binding, confirmed, callable]
  \* McpState
  registry,    \* sessions: None or [sid, binding]
  deferred,    \* deferred_ends: ends of replaced sessions still in use
  old,         \* the session a request took out of the registry, not yet ended
  ends,        \* teardowns: DELETEs under way
  taken,       \* the session remove_server ends itself
  \* the server
  alive,       \* sessions it knows
  issued,      \* for each id the binding its set-up sent, or None
  \* the commands
  pc, frame,   \* where a request is, and its ServerContext
  saving,      \* a save between its commit and the end of its old session
  question,    \* the credential question that is open
  removing,    \* "none", "ending" or "done"
  budget,
  \* history
  left,        \* sessions given up with a warning: no room, or the DELETE failed
  lost,        \* sessions left without one: the set-up failed after the server
               \* issued the id, or the server takes no DELETE (405)
  since,       \* the generation each session was set up in
  allowed,     \* settings that need no question: the last answer was Allow, or
               \* only the secret of settings that were confirmed is new
  refused,     \* calls whose tool was revoked at their last answer and still is
  ran          \* how often the server ran each call

vault == <<unlocked, generation, lockStep>>
state == <<registry, deferred, old, ends, taken, left>>
server == <<alive, issued, since, lost>>
user == <<saving, question, removing, allowed>>
calls == <<refused, ran>>
vars == <<vault, stored, state, server, pc, frame, user, calls, budget>>

NoFrame == [binding |-> Start, gen |-> 0, sid |-> None, setUp |-> FALSE,
            renewed |-> FALSE, list |-> FALSE, announced |-> FALSE]

Init ==
  /\ unlocked = TRUE /\ generation = 0 /\ lockStep = "none"
  /\ stored = [binding |-> Start, confirmed |-> TRUE, callable |-> TRUE]
  /\ registry = None /\ deferred = {} /\ ends = {}
  /\ old = [r \in Requests |-> None]
  /\ taken = {} /\ left = {} /\ lost = {}
  /\ alive = {}
  /\ issued = [s \in Sids |-> None] /\ since = [s \in Sids |-> 0]
  /\ pc = [r \in Requests |-> "idle"]
  /\ frame = [r \in Requests |-> NoFrame]
  /\ saving = None /\ question = None /\ removing = "none"
  /\ budget \in Budgets
  /\ allowed = {Start}
  /\ refused = {} /\ ran = [k \in Calls |-> 0]

-----------------------------------------------------------------------------
(* What the steps are made of.                                              *)

\* require_generation_current.
Guard(r) == unlocked /\ frame[r].gen = generation

\* same_connection with the record as stored.
SameSettings(r) == stored # None /\ stored.binding = frame[r].binding

\* not_contactable, negated.
Contactable(r) == SameSettings(r) /\ stored.confirmed

\* gate_as_stored_now.
Gate(r) == Contactable(r) /\ stored.callable

Spend(what) == budget[what] > 0 /\ budget' = [budget EXCEPT ![what] = @ - 1]

\* Requests a session is counted as used by.
Uses(r, s) == pc[r] \in {"listing", "calling"} /\ frame[r].sid = s
InUse(s) == \E r \in Requests : Uses(r, s)

Job(s, b) == [sid |-> s, binding |-> b]
Mine(r) == Job(frame[r].sid, frame[r].binding)

\* start_teardowns: as many as there is room for; the rest are given up. The
\* count and the entry of what is started are two steps: teardowns whose
\* callers have yet to enter them are not counted, so MaxTeardowns may be passed.
StartTeardowns(jobs) ==
  \E counted \in SUBSET ends, fit \in SUBSET jobs :
    /\ Cardinality(fit) + Cardinality(counted) <= MaxTeardowns \/ fit = {}
    /\ fit # jobs => Cardinality(fit) + Cardinality(counted) >= MaxTeardowns
    /\ ends' = ends \cup fit
    /\ left' = left \cup {j.sid : j \in jobs \ fit}

\* The request ends and forgets what it held.
Finish(r) ==
  /\ pc' = [pc EXCEPT ![r] = "done"]
  /\ frame' = [frame EXCEPT ![r] = NoFrame]

Go(r, step) == pc' = [pc EXCEPT ![r] = step]

\* Fault: it is not asked whether the session is still the one registered.
EndMineAnyway(r) ==
  IF frame[r].sid # None
  THEN /\ registry' = IF registry # None /\ registry.sid = frame[r].sid
                      THEN None ELSE registry
       /\ StartTeardowns({Mine(r)})
  ELSE UNCHANGED <<registry, ends, left>>

\* end_ctx_session: only if the session is still the one registered.
EndMine(r) ==
  IF frame[r].sid # None /\ registry # None /\ registry.sid = frame[r].sid
  THEN registry' = None /\ StartTeardowns({Mine(r)})
  ELSE UNCHANGED <<registry, ends, left>>

\* An answer reaches the request.
Answered(r) ==
  refused' = IF r \in Calls /\ (stored = None \/ ~stored.callable)
             THEN refused \cup {r} ELSE refused \ {r}

\* Fault: the refresh takes it that the call still holds a session.
RefusedHolding(r, sid) ==
  IF frame[r].announced /\ Contactable(r)
  THEN /\ frame' = [frame EXCEPT ![r].sid = sid, ![r].list = TRUE,
                                 ![r].renewed = FALSE, ![r].announced = FALSE]
       /\ Go(r, "check")
  ELSE Finish(r)

\* after_refused_call: a change announced while the call's sessions were set up
\* is fetched all the same, while the server has the settings and is on - on
\* the session the call still holds, or on one of its own.
Refused(r, sid) ==
  IF frame[r].announced /\ Contactable(r)
  THEN /\ frame' = [frame EXCEPT ![r].sid = sid, ![r].list = TRUE,
                                 ![r].renewed = FALSE, ![r].announced = FALSE]
       /\ Go(r, IF sid = None THEN "setup" ELSE "check")
  ELSE Finish(r)

\* Fault: a call whose answer was lost is sent again.
RetryLost(r) == frame' = frame /\ Go(r, "gate")

\* The call comes to nothing: only a change announced before goes on.
NoAnswer(r) == IF frame[r].announced
               THEN Go(r, "refresh") /\ UNCHANGED frame
               ELSE Finish(r)

\* A set-up that failed is a refusal when the gate now refuses. A call that
\* still got a session fetches the change an earlier set-up announced.
SetUpFails(r, sid) ==
  CASE ~frame[r].list /\ ~Gate(r) -> Refused(r, sid)
    [] ~frame[r].list /\ Gate(r) /\ sid # None -> NoAnswer(r)
    [] OTHER -> Finish(r)

-----------------------------------------------------------------------------
(* The vault.                                                               *)

LockBump ==
  /\ lockStep = "none" /\ Spend("locks")
  /\ generation' = generation + 1
  /\ lockStep' = "drain"
  /\ UNCHANGED <<unlocked, stored, state, server, pc, frame, user, calls>>

\* teardown_all.
Registered == {Job(x.sid, x.binding) : x \in {registry} \ {None}}

LockDrain ==
  /\ lockStep = "drain"
  /\ lockStep' = "clear"
  /\ registry' = None /\ deferred' = {}
  /\ StartTeardowns(Registered \cup deferred)
  /\ UNCHANGED <<old, taken, unlocked, generation, stored, server, pc, frame, user,
                 calls, budget>>

LockClear ==
  /\ lockStep = "clear"
  /\ lockStep' = "none"
  /\ unlocked' = FALSE
  /\ UNCHANGED <<generation, stored, state, server, pc, frame, user, calls,
                 budget>>

Unlock ==
  /\ ~unlocked
  /\ unlocked' = TRUE
  /\ UNCHANGED <<generation, lockStep, stored, state, server, pc, frame, user,
                 calls, budget>>

-----------------------------------------------------------------------------
(* The server.                                                              *)

Expire(s) ==
  /\ s \in alive \cap budget.expiring
  /\ alive' = alive \ {s}
  /\ UNCHANGED <<vault, stored, state, issued, since, lost, pc, frame, user, calls,
                 budget>>

\* The DELETE ends the sessions, fails and is audited, or is answered 405:
\* then they stay, and nothing is said (delete_session). That the DELETE can be
\* made at all (session_end, origin_client) is assumed.
Deleted(jobs) ==
  \/ alive' = alive \ {j.sid : j \in jobs} /\ UNCHANGED <<left, lost>>
  \/ left' = left \cup {j.sid : j \in jobs} /\ UNCHANGED <<alive, lost>>
  \/ lost' = lost \cup {j.sid : j \in jobs} /\ UNCHANGED <<alive, left>>

\* run_teardown.
TeardownEnds(j) ==
  /\ j \in ends
  /\ ends' = ends \ {j}
  /\ Deleted({j})
  /\ UNCHANGED <<vault, stored, registry, deferred, old, taken, issued, since,
                 pc, frame, user, calls, budget>>

-----------------------------------------------------------------------------
(* Setting up a session: server_context, establish_session.                 *)

\* The record is read, the generation captured; the call's gate is checked.
Begin(r) ==
  /\ pc[r] = "idle" /\ unlocked /\ r \in budget.requests
  /\ stored # None /\ stored.confirmed
  /\ r \in Calls => stored.callable
  /\ Go(r, "load")
  /\ frame' = [frame EXCEPT ![r].binding = stored.binding,
                            ![r].gen = generation,
                            ![r].list = r \in Connects]
  /\ UNCHANGED <<vault, stored, state, server, user, calls, budget>>

\* Fault: the replaced session is dropped.
ForgetReplaced(j) == UNCHANGED <<deferred, ends, left>>

\* Fault: the replaced session is ended at once.
EndReplacedAtOnce(j) == StartTeardowns({j}) /\ UNCHANGED deferred

\* end_replaced: at once, or when the last request on it is done.
EndReplaced(j) ==
  \/ InUse(j.sid) /\ deferred' = deferred \cup {j} /\ UNCHANGED <<ends, left>>
  \/ ~InUse(j.sid) /\ StartTeardowns({j}) /\ UNCHANGED deferred

\* The session the request took out of the registry is ended; a lock, or other
\* requests on that session, may have come in between.
EndOld(r) ==
  /\ pc[r] \in {"retiring", "replacing"}
  /\ EndReplaced(old[r])
  /\ old' = [old EXCEPT ![r] = None]
  /\ Go(r, IF pc[r] = "retiring" THEN "setup" ELSE "registered")
  /\ UNCHANGED <<vault, stored, registry, taken, server, frame, user, calls,
                 budget>>

\* Fault: sessions are looked up by server id alone.
UsableWhatever(r) == registry # None

\* usable_session. A session of settings the record no longer has is stale
\* and ended; one of settings only the snapshot no longer has is left alone.
Usable(r) == registry # None /\ registry.binding = frame[r].binding

\* The record as stored does not have the registered session's settings.
Stale == registry # None /\ (stored # None => stored.binding # registry.binding)

\* The session is looked up and the record read again in one step.
Load(r) ==
  /\ pc[r] = "load"
  /\ \/ /\ Usable(r)
        /\ frame' = [frame EXCEPT ![r].sid = registry.sid]
        /\ Go(r, IF r \in Calls THEN "gate" ELSE "setup")
        /\ UNCHANGED <<registry, old>>
     \/ /\ ~Usable(r) /\ Stale
        /\ registry' = None /\ old' = [old EXCEPT ![r] = registry]
        /\ Go(r, "retiring") /\ UNCHANGED frame
     \/ /\ ~Usable(r) /\ ~Stale
        /\ Go(r, "setup") /\ UNCHANGED <<registry, old, frame>>
  /\ UNCHANGED <<vault, stored, deferred, ends, taken, left, server, user, calls,
                 budget>>

\* The checks before an initialize: for a call the gate (set_up_for_call).
MaySetUp(r) == Guard(r) /\ Contactable(r) /\ (frame[r].list \/ Gate(r))

SetUp(r) ==
  /\ pc[r] = "setup"
  /\ \/ MaySetUp(r) /\ Go(r, "init") /\ UNCHANGED frame
     \/ ~MaySetUp(r) /\ SetUpFails(r, None)
  /\ UNCHANGED <<vault, stored, state, server, user, calls, budget>>

NewSid == CHOOSE x \in Sids : issued[x] = None

\* The server issues a session.
Issue(r) ==
  /\ \E s \in Sids : issued[s] = None
  /\ issued' = [issued EXCEPT ![NewSid] = frame[r].binding]
  /\ since' = [since EXCEPT ![NewSid] = frame[r].gen]
  /\ alive' = alive \cup {NewSid}

\* The exchange succeeds, fails after the session was issued (no whole answer
\* in time, an error, a protocol version not supported) - then its id is
\* dropped - or fails without one.
Initialize(r) ==
  /\ pc[r] = "init"
  /\ \/ /\ Issue(r) /\ lost' = lost
        /\ frame' = [frame EXCEPT ![r].sid = NewSid, ![r].setUp = TRUE]
        /\ Go(r, "answered")
     \/ /\ Issue(r) /\ lost' = lost \cup {NewSid}
        /\ SetUpFails(r, None)
     \/ SetUpFails(r, None) /\ UNCHANGED server
  /\ Answered(r)
  /\ UNCHANGED <<vault, stored, state, user, ran, budget>>

\* The record again, now that the initialize is answered.
CheckAnswered(r) ==
  /\ pc[r] = "answered"
  /\ \/ Contactable(r) /\ Go(r, "register") /\ UNCHANGED <<frame, ends, left>>
     \/ ~Contactable(r) /\ Finish(r) /\ StartTeardowns({Mine(r)})
  /\ UNCHANGED <<vault, stored, registry, deferred, old, taken, server, user,
                 calls, budget>>

\* Fault: the generation was checked before the lock was taken.
MayRegisterUnchecked(r) == TRUE

\* McpState::register checks the generation under the sessions lock.
MayRegister(r) == Guard(r)

Register(r) ==
  /\ pc[r] = "register"
  /\ \/ /\ MayRegister(r)
        /\ registry' = Mine(r) /\ old' = [old EXCEPT ![r] = registry]
        /\ Go(r, IF registry = None THEN "registered" ELSE "replacing")
        /\ UNCHANGED <<frame, ends, left>>
     \/ /\ ~MayRegister(r)
        /\ StartTeardowns({Mine(r)})
        /\ Finish(r) /\ UNCHANGED <<registry, old>>
  /\ UNCHANGED <<vault, stored, deferred, taken, server, user, calls,
                 budget>>

\* notifications/initialized; when it fails the session stays registered. The
\* initialize may have announced that the tools changed: a call remembers it.
Initialized(r) ==
  /\ pc[r] = "registered"
  /\ \/ /\ Guard(r)
        /\ \E changed \in BOOLEAN :
             /\ changed => ~frame[r].list
             /\ frame' = [frame EXCEPT ![r].announced = @ \/ changed]
        /\ Go(r, IF frame[r].list THEN "check" ELSE "gate")
     \/ SetUpFails(r, frame[r].sid)
  /\ Answered(r)
  /\ UNCHANGED <<vault, stored, state, server, user, ran, budget>>

-----------------------------------------------------------------------------
(* Listing the tools: request_with_session, store_fetched_tools.            *)

CheckList(r) ==
  /\ pc[r] = "check"
  /\ \/ Guard(r) /\ Contactable(r) /\ Go(r, "listing")
        /\ UNCHANGED <<frame, registry, ends, left>>
     \/ ~Guard(r) /\ Finish(r) /\ UNCHANGED <<registry, ends, left>>
     \/ Guard(r) /\ ~Contactable(r) /\ Finish(r) /\ EndMine(r)
  /\ UNCHANGED <<vault, stored, deferred, old, taken, server, user, calls,
                 budget>>

\* Fault: the last use starts nothing.
ReleaseNothing(r) == UNCHANGED <<deferred, ends, left>>

\* SessionUse::drop: the last use of a replaced session starts its end.
OthersUse(r, s) == \E q \in Requests \ {r} : Uses(q, s)

Release(r) ==
  LET due == {j \in deferred : j.sid = frame[r].sid /\ ~OthersUse(r, j.sid)}
  IN deferred' = deferred \ due /\ StartTeardowns(due)

\* 404: forget_lost_session, then the set-up once more.
Forget(r) ==
  /\ registry' = IF registry # None /\ registry.sid = frame[r].sid
                 THEN None ELSE registry
  /\ frame' = [frame EXCEPT ![r].sid = None, ![r].renewed = TRUE]
  /\ Go(r, "setup")

\* One page of tools/list.
List(r) ==
  /\ pc[r] = "listing"
  /\ \/ /\ frame[r].sid \in alive
        /\ Go(r, "store") /\ UNCHANGED <<frame, registry>>
     \/ /\ frame[r].sid \notin alive /\ ~frame[r].renewed
        /\ Forget(r)
     \/ Finish(r) /\ UNCHANGED registry
  /\ Release(r)
  /\ UNCHANGED <<vault, stored, old, taken, server, user, calls, budget>>

\* merge_into_stored: a changed definition takes the tool's approval away. A
\* connect whose settings are gone ends its session; a call's refresh does not.
Store(r) ==
  /\ pc[r] = "store"
  /\ \/ /\ Guard(r) /\ SameSettings(r)
        /\ \E same \in BOOLEAN :
             stored' = [stored EXCEPT !.callable = @ /\ same]
        /\ UNCHANGED <<registry, ends, left>>
     \/ /\ Guard(r) /\ ~SameSettings(r)
        /\ \/ r \in Connects /\ EndMine(r)
           \/ r \notin Connects /\ UNCHANGED <<registry, ends, left>>
        /\ UNCHANGED stored
     \/ ~Guard(r) /\ UNCHANGED <<stored, registry, ends, left>>
  /\ Finish(r)
  /\ UNCHANGED <<vault, deferred, old, taken, server, user, calls, budget>>

-----------------------------------------------------------------------------
(* A tool call: run_tool_call, finish_tool_call.                            *)

\* Fault: the gate was checked before the session was set up.
GateAtBegin(r) == TRUE

\* regate_call.
GateNow(r) == Gate(r)

\* gate_before_call, and the guard before the request.
GateBeforeCall(r) ==
  /\ pc[r] = "gate"
  /\ \/ /\ GateNow(r) /\ Guard(r)
        /\ Go(r, "calling") /\ UNCHANGED <<frame, registry, ends, left>>
     \/ /\ GateNow(r) /\ ~Guard(r)
        /\ NoAnswer(r) /\ UNCHANGED <<registry, ends, left>>
     \/ /\ ~GateNow(r)
        /\ \/ frame[r].setUp /\ EndMine(r)
           \/ ~frame[r].setUp /\ UNCHANGED <<registry, ends, left>>
        /\ Refused(r, IF frame[r].setUp THEN None ELSE frame[r].sid)
  /\ UNCHANGED <<vault, stored, deferred, old, taken, server, user, calls,
                 budget>>

\* The server runs the call if it knows the session.
Call(r) ==
  /\ pc[r] = "calling"
  /\ \/ /\ frame[r].sid \in alive
        /\ ran' = [ran EXCEPT ![r] = @ + 1]
        /\ UNCHANGED registry
        /\ \/ NoAnswer(r)
           \/ \E changed \in BOOLEAN :
                IF changed \/ frame[r].announced
                THEN Go(r, "refresh") /\ UNCHANGED frame
                ELSE Finish(r)
     \/ /\ frame[r].sid \notin alive /\ ~frame[r].renewed
        /\ ran' = ran
        /\ Forget(r)
     \/ ran' = ran /\ NoAnswer(r) /\ UNCHANGED registry
  /\ Release(r)
  /\ Answered(r)
  /\ UNCHANGED <<vault, stored, old, taken, server, user, budget>>

\* refresh_after_sent_call.
Refresh(r) ==
  /\ pc[r] = "refresh"
  /\ \/ /\ Contactable(r)
        /\ frame' = [frame EXCEPT ![r].list = TRUE, ![r].renewed = FALSE,
                                 ![r].announced = FALSE]
        /\ Go(r, "check") /\ UNCHANGED <<registry, ends, left>>
     \/ ~Contactable(r) /\ Finish(r) /\ EndMine(r)
  /\ UNCHANGED <<vault, stored, deferred, old, taken, server, user, calls,
                 budget>>

-----------------------------------------------------------------------------
(* The user: save, answer, remove, approve.                                 *)

\* binding_needs_confirmation: a credential for another address, or where none
\* was sent or confirmed before, or an environment variable not sent before.
NeedsConfirmation(b) ==
  /\ b.key # NoKey
  /\ \/ ~stored.confirmed \/ stored.binding.key = NoKey
     \/ stored.binding.url # b.url
     \/ b.key \in Variables /\ stored.binding.key # b.key

\* save_server's transaction, for a command that began in generation g.
SaveFrom(b, g) ==
  /\ unlocked /\ stored # None /\ saving = None
  /\ b \in budget.settings /\ Spend("saves")
  /\ stored' = [stored EXCEPT !.binding = b,
                              !.confirmed = ~NeedsConfirmation(b)]
  /\ saving' = [binding |-> b, gen |-> g, moved |-> b # stored.binding,
                asks |-> NeedsConfirmation(b)]
  /\ allowed' = IF NeedsConfirmation(b) THEN allowed \ {b} ELSE allowed \cup {b}
  /\ UNCHANGED <<vault, state, server, pc, frame, question, removing, calls>>

Save(b) == \E g \in 0 .. generation : SaveFrom(b, g)

\* The session of the old settings is ended, then the question is asked - if
\* no other is open and none was declined a moment ago.
SaveDrops ==
  /\ saving # None
  /\ saving' = None
  /\ IF saving.moved /\ registry # None /\ registry.binding # saving.binding
     THEN registry' = None /\ StartTeardowns(Registered)
     ELSE UNCHANGED <<registry, ends, left>>
  /\ \/ /\ saving.asks /\ question = None
        /\ question' = [binding |-> saving.binding, gen |-> saving.gen]
     \/ UNCHANGED question
  /\ UNCHANGED <<vault, stored, deferred, old, taken, server, pc, frame, removing,
                 allowed, calls, budget>>

\* Fault: the answer is about whatever is stored now.
StillAsked == stored # None

\* The settings the question was about are the ones stored.
AboutStored == stored # None /\ stored.binding = question.binding

\* settle_binding, confirm_binding; a password change that runs, or an error,
\* leaves the record switched off.
Allow ==
  /\ question # None
  /\ question' = None
  /\ allowed' = allowed \cup {question.binding}
  /\ \/ stored' = IF AboutStored /\ unlocked /\ question.gen = generation
                  THEN [stored EXCEPT !.confirmed = TRUE] ELSE stored
     \/ stored' = stored
  /\ UNCHANGED <<vault, state, server, pc, frame, saving, removing, calls,
                 budget>>

\* decline_binding; while a password change runs, or on an error, the "no" is
\* not written, and an earlier "yes" to the same settings stands.
Decline ==
  /\ question # None
  /\ question' = None
  /\ \/ /\ allowed' = allowed \ {question.binding}
        /\ stored' = IF AboutStored THEN [stored EXCEPT !.confirmed = FALSE]
                                    ELSE stored
     \/ UNCHANGED <<allowed, stored>>
  /\ UNCHANGED <<vault, state, server, pc, frame, saving, removing, calls,
                 budget>>

\* set_tool_state, or another access level for the tab.
Toggle ==
  /\ unlocked /\ stored # None
  /\ Spend("toggles")
  /\ stored' = [stored EXCEPT !.callable = ~@]
  /\ refused' = IF stored.callable THEN refused ELSE {}
  /\ UNCHANGED <<vault, state, server, pc, frame, user, ran>>

\* remove_server: the session first, then its DELETE, then the record.
RemoveTakes ==
  /\ removing = "none" /\ unlocked /\ stored # None
  /\ Spend("removals")
  /\ removing' = "ending"
  /\ taken' = Registered
  /\ registry' = None
  /\ UNCHANGED <<vault, stored, deferred, old, ends, left, server, pc, frame,
                 saving, question, allowed, calls>>

RemoveDeletes ==
  /\ removing = "ending"
  /\ removing' = "done"
  /\ Deleted(taken)
  /\ taken' = {}
  /\ stored' = None
  /\ UNCHANGED <<vault, registry, deferred, old, ends, issued, since, pc, frame,
                 saving, question, allowed, calls, budget>>

-----------------------------------------------------------------------------
(* The specification.                                                       *)

RequestStep(r) ==
  \/ Load(r) \/ SetUp(r) \/ Initialize(r) \/ CheckAnswered(r) \/ Register(r)
  \/ EndOld(r) \/ Initialized(r) \/ CheckList(r) \/ List(r) \/ Store(r)

CallStep(k) == GateBeforeCall(k) \/ Call(k) \/ Refresh(k)

\* What goes on by itself: commands that have begun, teardown tasks, a lock.
Progress ==
  \/ \E r \in Requests : RequestStep(r)
  \/ \E k \in Calls : CallStep(k)
  \/ \E j \in ends : TeardownEnds(j)
  \/ LockDrain \/ LockClear
  \/ SaveDrops \/ RemoveDeletes

Next ==
  \/ Progress
  \/ \E r \in Requests : Begin(r)
  \/ \E s \in Sids : Expire(s)
  \/ \E b \in Bindings : Save(b)
  \/ Allow \/ Decline \/ Toggle \/ RemoveTakes
  \/ LockBump \/ Unlock

Spec == Init /\ [][Next]_vars

\* Commands and tasks that have begun go on: requests and DELETEs have
\* deadlines.  The user, the server's expiry and a new lock owe nothing.
FairSpec == Spec /\ WF_vars(Progress)

-----------------------------------------------------------------------------
(* Properties.                                                              *)

Steps == {"idle", "load", "retiring", "setup", "init", "answered", "register",
          "replacing", "registered", "check", "listing", "store", "gate", "calling",
          "refresh", "done"}

Jobs == [sid : Sids, binding : Bindings]
Frames == [binding : Bindings, gen : Nat, sid : Sids \cup {None},
           setUp : BOOLEAN, renewed : BOOLEAN, list : BOOLEAN,
           announced : BOOLEAN]

\* The steps in which a request holds a session.
Holding == {"answered", "register", "replacing", "registered", "check",
            "listing", "store", "gate", "calling", "refresh"}

\* The shape of the state: a request that goes on past its set-up holds a
\* session, and one it took out of the registry only until it is ended.
TypeOK ==
  /\ unlocked \in BOOLEAN /\ generation \in Nat
  /\ lockStep \in {"none", "drain", "clear"}
  /\ stored \in [binding : Bindings, confirmed : BOOLEAN, callable : BOOLEAN]
               \cup {None}
  /\ registry \in Jobs \cup {None}
  /\ deferred \subseteq Jobs /\ ends \subseteq Jobs /\ taken \subseteq Jobs
  /\ old \in [Requests -> Jobs \cup {None}]
  /\ alive \subseteq Sids /\ left \subseteq Sids /\ lost \subseteq Sids
  /\ issued \in [Sids -> Bindings \cup {None}] /\ since \in [Sids -> Nat]
  /\ pc \in [Requests -> Steps] /\ frame \in [Requests -> Frames]
  /\ \A r \in Requests : /\ pc[r] \in Holding => frame[r].sid # None
                         /\ old[r] # None <=> pc[r] \in {"retiring", "replacing"}
  /\ saving \in [binding : Bindings, gen : Nat, moved : BOOLEAN, asks : BOOLEAN]
               \cup {None}
  /\ question \in [binding : Bindings, gen : Nat] \cup {None}
  /\ removing \in {"none", "ending", "done"}
  /\ budget \in [requests : SUBSET Requests, settings : SUBSET Bindings,
                 expiring : SUBSET Sids, saves : Nat, removals : Nat,
                 toggles : Nat, locks : Nat]
  /\ allowed \subseteq Bindings
  /\ refused \subseteq Calls /\ ran \in [Calls -> Nat]

SidsOf(jobs) == {j.sid : j \in jobs}

\* What requests took out of the registry and have yet to end.
InHand == {old[r] : r \in Requests} \ {None}

\* No session is left open on the server but those the code lets go: a session
\* it still knows is registered, about to be ended, held by the set-up it comes
\* from or by the request that took it out of the registry, was given up with a
\* warning, or - without a word - was issued by a set-up that then failed or
\* kept by a server that takes no DELETE (establish_session, end_replaced,
\* end_ctx_session, delete_session).
OpenIsAccountedFor ==
  alive \subseteq SidsOf(Registered \cup deferred \cup InHand \cup ends \cup taken)
          \cup left \cup lost
          \cup {frame[r].sid : r \in {q \in Requests :
                                      pc[q] \in {"answered", "register"}}}

\* A session id and the credential it came with go only to the endpoint that
\* issued it, whatever a save puts into the record meanwhile
\* (ConnectionBinding, usable_session, session_end).
SentWhereItBelongs ==
  /\ \A r \in Requests :
       pc[r] \in {"registered", "check", "listing", "gate", "calling", "refresh"}
         => issued[frame[r].sid] = frame[r].binding
  /\ \A j \in Registered \cup deferred \cup InHand \cup ends \cup taken :
       issued[j.sid] = j.binding

\* Once a lock has drained the registry, no session of a command that began
\* before the lock is registered (McpState::register, teardown_all).
LockEndsSessions ==
  registry # None => since[registry.sid] = generation \/ lockStep = "drain"

\* A server is switched on only with settings the user allowed since they were
\* last saved as new, in a question about exactly these, and a later "no" to
\* them that is written stands (settle_binding, confirm_binding,
\* decline_binding).
ConfirmedAsAllowed ==
  stored # None /\ stored.confirmed => stored.binding \in allowed

\* The server runs a call at most once, however its session was lost, renewed
\* or replaced (run_tool_call).
RunsOnce == \A k \in Calls : ran[k] <= 1

\* A call does not go out when its tool had been revoked by the time of the
\* last answer the call waited for (gate_before_call).
RevokedIsNotSent ==
  [][\A k \in Calls : pc[k] # "calling" /\ pc'[k] = "calling"
       => k \notin refused]_vars

\* No session is ended under a request that uses it because another took its
\* place: only a lock does that, or who ends the very session registered
\* (end_replaced, SessionUse).
ReplacedServesItsRequests ==
  [][\A j \in ends' \ ends : InUse(j.sid) /\ InUse(j.sid)'
       => lockStep = "drain" \/ j \in Registered]_vars

\* Where a session is in its life, and the requests that are on it.
InSetUp(s) ==
  \E r \in Requests : pc[r] \in {"answered", "register"} /\ frame[r].sid = s

Stage(s) ==
  CASE issued[s] = None -> "unused"
    [] issued[s] # None /\ InSetUp(s) -> "new"
    [] registry # None /\ registry.sid = s -> "registered"
    [] \E j \in InHand : j.sid = s -> "displaced"
    [] \E j \in deferred : j.sid = s -> "replaced"
    [] \E j \in ends \cup taken : j.sid = s -> "ending"
    [] OTHER -> "over"

lives == [s \in Sids |-> Stage(s)]
serving == [r \in Requests |-> IF pc[r] \in {"listing", "calling"}
                              THEN frame[r].sid ELSE None]

Life == INSTANCE SessionLife WITH life <- lives, on <- serving

\* A session goes one way through its life, in one place at a time: no request,
\* save, removal or lock brings back one that was replaced or ended, and a
\* replaced session is ended by its last request and by nobody before but a
\* lock (establish_session, end_replaced, SessionUse, teardown_all).
ImplementsSessionLife == Life!Spec

\* Again and again all that has begun is done, and no replaced session waits
\* for its end (SessionUse::drop, start_deferred_ends).
Settles ==
  []<>(/\ \A r \in Requests : pc[r] \in {"idle", "done"}
       /\ InHand = {} /\ deferred = {} /\ ends = {} /\ taken = {}
       /\ saving = None /\ lockStep = "none")

=============================================================================
