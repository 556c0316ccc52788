SPECIFICATION FairSpec
CONSTANTS
  a = a
  b = b
  p = p
  in = in
  out = out
  data = data
  control = control
  Units <- MCUnits
  EdgeTypes <- MCEdgeTypes
  Ports <- MCPorts
  AnyType = AnyType
  NoPort = NoPort
  SoundUnits <- MCUnits
  PortsOf <- MCPortsOf
  Permitted <- MCPermitted
  Admissible <- MCAdmissible
  InitialGraphs <- MCGraphs
  Clients = {c1, c2}
  Batches <- MCBatches
  NoBase = NoBase
  NoClient = NoClient
  NoCause = NoCause
  NoOp = NoOp
  MaxTransactions = 2
INVARIANTS
  CommittedGraphValid
  PlannedOnCurrent
  LogSound
PROPERTIES
  ImplementsVersions
  LockReleased
CHECK_DEADLOCK FALSE
