SPECIFICATION Spec
CONSTANTS
  Jobs <- TwoJobs
  Shadowed = {}
  Limit = 1
  MaxRetries = 0
  Sessions <- OneSession
  ServerOf <- SameHost
  HostA = HostA
  HostB = HostB
  Main = main
  Adders = {a1}
  Lockers = {}
  Runs = {r1, r2}
  None = None
PROPERTIES DropLeavesTheRest
SYMMETRY Tasks
