SPECIFICATION Spec
CONSTANTS
  Types <- MCTypes
  Caps <- MCCaps
  Weight <- MCWeight
  Tasks <- MCTasks
  ReplanTask <- MCReplanTask
  Budget = 7
  NoType = NoType
  MaxReplans = 2
  MaxStep = 3
  MaxExecutions = 2
  a = a
  b = b
  Peers <- MCPeers
  Handoffs <- MCHandoffs
  Sender <- MCSender
  Receiver <- MCReceiver
  WindowSize = 2
  Calls = {"c1", "c2", "c3"}
  Bounded = {"c1"}
  Featured = {"c1", "c2"}
  Supported = {"c1", "c2", "c3"}
  MaxRetries = 1
  Threshold = 2
  Recovery = 1
  PerMinute = 2
  Minute = 2
  Never = Never
  MaxCallTime = 2
  Writers = {w1, w2}
  EventIds = {"e1", "e2"}
  Aggregate <- MCAggregate
  NoVersion = NoVersion
  MaxDeliveries = 2
  MaxRestores = 1
  Bindings <- MCBindings
  ModuleNames = {"r", "s", "e"}
  Needs <- MCNeeds
  Input <- MCInput
  Texts = {"one", "other"}
  NoText = "none"
  NoOutputYet = NoOutputYet
  MaxRuns = 2
  PlanNodes <- MCPlanNodes
  PlanEdges <- MCPlanEdges
  ModuleType <- MCModuleType
  ModuleOutputs = {x, y}
  NoOutput = NoOutput
  MaxRecords = 4
  StepLimits = {0, 2, 9}
  Tenants = {"t", "u"}
  Documents = {"d1", "d2"}
  Graphs = {"g", "h", "k"}
  DocumentOf <- MCDocumentOf
  ValidDocuments = {"d1", "d2"}
  Governed = {"d2"}
  Owner <- MCOwner
  MediaTypes = {"x"}
  Plugins = {"p", "q"}
  Editions = {"e1", "e2", "e3"}
  Trusted <- MCManifests
  Compatible <- MCManifests
  Permitted <- MCManifests
  Appenders = {s, t}
  NoCause = NoCause
  MaxAppended = 3
  UnitCount = 3
  EdgeTypes = {"DATA", "CONTROL", "STATE"}
  DemandChoices <- MCDemands
  ContextChoices <- MCContexts
  Undeployed = Undeployed
  MaxEdges = 3
INVARIANTS
  DeliveryInvariant
  CompletedByServer
  AlterationFound
  HandoffInvariant
  HandedOutIntact
  LoadedAsAdmitted
  ChainTells
  OrderRespectsEdges
PROPERTIES
  LoopSafety
  Terminates
  CallsSafety
  BoundedCallsReturn
  MessagesAreDelivered
CHECK_DEADLOCK FALSE
