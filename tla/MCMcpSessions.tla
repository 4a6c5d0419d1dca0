--------------------------- MODULE MCMcpSessions ---------------------------
(* Small instances of McpSessions for TLC.                                   *)
EXTENDS McpSessions

CONSTANTS t1, k1, k2, s1

\* Two addresses; for the second one a secret, an environment variable, and no
\* credential at all.
FirstSettings == [url |-> "a", key |-> "secret"]
OtherAddress == [url |-> "b", key |-> "secret"]
Settings == {FirstSettings, OtherAddress,
             [url |-> "b", key |-> "variable"], [url |-> "b", key |-> "none"]}

Of(requests, settings, expiring, saves, removals, toggles, locks) ==
  [requests |-> requests, settings |-> settings, expiring |-> expiring,
   saves |-> saves, removals |-> removals, toggles |-> toggles, locks |-> locks]

\* A connect and a call meet a save, a lock, a removal or changes of mind about
\* the tool; two calls share a session; a call meets all that the user can do;
\* saves and their questions meet each other, a lock and a removal.
Everyday ==
  {Of({t1, k1}, {OtherAddress}, {}, 1, 0, 0, 0),
   Of({t1, k1}, {}, {}, 0, 0, 0, 1),
   Of({t1, k1}, {}, {}, 0, 1, 0, 0),
   Of({t1, k1}, {}, {}, 0, 0, 2, 0),
   Of({k1, k2}, {}, {s1}, 0, 0, 0, 0),
   Of({k1}, {OtherAddress}, {}, 1, 1, 0, 1),
   Of({k1}, {FirstSettings, OtherAddress}, {s1}, 2, 0, 1, 0),
   Of({}, Settings, {}, 3, 1, 0, 1)}

=============================================================================
