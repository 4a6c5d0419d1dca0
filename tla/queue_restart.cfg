SPECIFICATION Spec
CONSTANTS
  Jobs <- OneJob
  Shadowed <- OneJob
  Limit = 1
  MaxRetries = 1
  Sessions <- Reconnect
  ServerOf <- Hosts
  HostA = HostA
  HostB = HostB
  Main = main
  Adders = {a1}
  Lockers = {}
  Runs = {r1, r2}
  None = None
INVARIANTS NeverMovesHosts
PROPERTIES ImplementsTransferLife
SYMMETRY Tasks
