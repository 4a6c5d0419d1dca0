SPECIFICATION Spec
CONSTANTS
  Unlocks = {u1, u2}
  Creates = {n1, n2}
  Changes = {}
  Locks = {l1}
  Seals = {}
  Deletes = {}
  Connects = {t1}
  Opens = {o1}
  Records = {}
  Passwords = {p, q}
  NoPassword = NoPassword
  NoRequest = NoRequest
  StartPassword = NoPassword
  StartLegacy = FALSE
  FailureLimit = 1
SYMMETRY Symmetry
INVARIANTS StoreOpensVault DoomedNeverSurvives
PROPERTIES NoGuessWhileCooling
\* Every request is answered in the end and none is left: the system may stop.
CHECK_DEADLOCK FALSE
