SPECIFICATION Spec
CONSTANTS
  Unlocks = {u1}
  Creates = {}
  Changes = {}
  Locks = {l1}
  Seals = {}
  Deletes = {}
  Connects = {t1}
  Opens = {}
  Records = {}
  Passwords = {p}
  NoPassword = NoPassword
  NoRequest = NoRequest
  StartPassword = p
  StartLegacy = FALSE
  FailureLimit = 2
INVARIANTS NoSessionOutlivesLock
\* Every request is answered in the end and none is left: the system may stop.
CHECK_DEADLOCK FALSE
