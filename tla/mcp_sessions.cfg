SPECIFICATION FairSpec
CONSTANTS
  Connects = {t1}
  Calls = {k1, k2}
  t1 = t1
  k1 = k1
  k2 = k2
  s1 = s1
  Bindings <- Settings
  Start <- FirstSettings
  NoKey = "none"
  Variables = {"variable"}
  Sids = {s1, s2, s3}
  MaxTeardowns = 1
  None = None
  Budgets <- Everyday
INVARIANTS TypeOK OpenIsAccountedFor SentWhereItBelongs LockEndsSessions ConfirmedAsAllowed RunsOnce
PROPERTIES RevokedIsNotSent ReplacedServesItsRequests ImplementsSessionLife Settles
\* Nobody has to begin anything.
CHECK_DEADLOCK FALSE
