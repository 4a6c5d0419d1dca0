SPECIFICATION Spec
CONSTANTS
  Unlocks = {u1}
  Creates = {n1}
  Changes = {c1}
  Locks = {}
  Seals = {}
  Deletes = {}
  Connects = {}
  Opens = {}
  Records = {k1}
  Passwords = {p, q}
  NoPassword = NoPassword
  NoRequest = NoRequest
  StartPassword = NoPassword
  StartLegacy = FALSE
  FailureLimit = 2
INVARIANTS StoreOpensVault
\* Every request is answered in the end and none is left: the system may stop.
CHECK_DEADLOCK FALSE
