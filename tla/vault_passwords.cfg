SPECIFICATION FairSpec
CONSTANTS
  Unlocks = {u1}
  Creates = {}
  Changes = {c1}
  Locks = {l1}
  Seals = {s1}
  Deletes = {d1}
  Connects = {t1}
  Opens = {}
  Records = {k1}
  Passwords = {p, q}
  NoPassword = NoPassword
  NoRequest = NoRequest
  StartPassword = p
  StartLegacy = TRUE
  FailureLimit = 1
INVARIANTS TypeOK StoreOpensVault SealedTogether LockWins UnsealWorks
PROPERTIES DeletedStaysDeleted ImplementsVaultSeal RequestsFinish
\* Every request is answered in the end and none is left: the system may stop.
CHECK_DEADLOCK FALSE
