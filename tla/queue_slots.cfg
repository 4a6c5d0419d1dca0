SPECIFICATION FairSpec
CONSTANTS
  Jobs <- TwoJobs
  Shadowed = {}
  Limit = 1
  MaxRetries = 1
  Sessions <- OneSession
  ServerOf <- SameHost
  HostA = HostA
  HostB = HostB
  Main = main
  Adders = {a1}
  Lockers = {l1}
  Runs = {r1, r2}
  None = None
INVARIANTS TypeOK OneWorkerPerActiveJob NoLostWakeup
PROPERTIES StoppedStaysStopped ImplementsTransferLife SlotsFill
