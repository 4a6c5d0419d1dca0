----------------------------- MODULE SessionLife -----------------------------
(***************************************************************************)
(* The life of a session on an MCP server, as assistant/mcp.rs promises it, *)
(* without settings, locks held, tasks or answers.  A session goes one way: *)
(* it is set up, perhaps registered, perhaps replaced while requests still  *)
(* use it, and ended once.  At most one is registered, and a replaced one   *)
(* is ended by the last request that uses it, or by a lock of the vault.    *)
(***************************************************************************)
CONSTANTS Sids, Requests, None

VARIABLES
  life,   \* the stage each session is in
  on      \* the session each request uses, or None

vars == <<life, on>>

Stages == {"unused", "new", "registered", "displaced", "replaced", "ending",
           "over"}

\* A session's end is under way, or there is none to come: it was ended, it
\* was given up, or the server had forgotten it.
Ended == {"ending", "over"}

Init ==
  /\ life = [s \in Sids |-> "unused"]
  /\ on = [r \in Requests |-> None]

\* Whoever set it up may never learn of it.
Issue(s) ==
  /\ life[s] = "unused"
  /\ \E stage \in {"new", "over"} : life' = [life EXCEPT ![s] = stage]

\* A new session is registered; the one registered so far is displaced.
Register(s) ==
  /\ life[s] = "new"
  /\ life' = [t \in Sids |-> CASE t = s -> "registered"
                              [] life[t] = "registered" -> "displaced"
                              [] OTHER -> life[t]]

\* The settings it was set up with are gone.
Retire(s) ==
  /\ life[s] = "registered"
  /\ life' = [life EXCEPT ![s] = "displaced"]

\* A displaced session is ended when nobody uses it any more.
InUse(s) == \E r \in Requests : on[r] = s

MakeWay(s) ==
  /\ life[s] = "displaced"
  /\ \E stage \in IF InUse(s) THEN {"replaced"} ELSE Ended :
       life' = [life EXCEPT ![s] = stage]

\* A set-up that may not be finished, or the end of the session registered.
End(s) ==
  /\ life[s] \in {"new", "registered"}
  /\ \E stage \in Ended : life' = [life EXCEPT ![s] = stage]

\* A lock ends all that is registered or replaced; what is displaced, it misses.
Lock ==
  /\ life' \in [Sids -> Stages]
  /\ \A s \in Sids : IF life[s] \in {"registered", "replaced"}
                     THEN life'[s] \in Ended
                     ELSE life'[s] = life[s]

Over(s) ==
  /\ life[s] = "ending"
  /\ life' = [life EXCEPT ![s] = "over"]

\* A request may find that the session it holds has ended meanwhile.
Enter(r) ==
  /\ on[r] = None /\ on'[r] \in Sids
  /\ life[on'[r]] \notin {"unused", "new"}
  /\ on' = [on EXCEPT ![r] = on'[r]]
  /\ UNCHANGED life

\* The request may learn that the server forgot the session registered; if it
\* is the last one on a session that was replaced, that one is ended.
Leaving(r, s) ==
  CASE life[s] = "registered" -> {"registered", "over"}
    [] life[s] = "replaced" /\ \A q \in Requests \ {r} : on[q] # s -> Ended
    [] OTHER -> {life[s]}

Leave(r) ==
  /\ on[r] # None
  /\ on' = [on EXCEPT ![r] = None]
  /\ \E stage \in Leaving(r, on[r]) : life' = [life EXCEPT ![on[r]] = stage]

\* Either sessions change their stage, or a request comes or goes.
Next ==
  \/ /\ life' # life /\ on' = on
     /\ \/ \E s \in Sids :
             Issue(s) \/ Register(s) \/ Retire(s) \/ MakeWay(s) \/ End(s)
             \/ Over(s)
        \/ Lock
  \/ \E r \in Requests : Enter(r) \/ Leave(r)

Spec == Init /\ [][Next]_vars

=============================================================================
