SPECIFICATION Spec
CONSTANTS
  a = a
  b = b
  c = c
  Items <- MCItems
  Views = {v}
  Actions = {x}
  Notes = {n}
  DependencyChoices <- MCDependencyChoices
  ViewChoices <- MCViewChoices
  Requests = {"PREPARED"}
  RelationChoices <- MCRelationChoices
  Origins <- MCOrigins
  MaxEvents = 2
  MaxDuring = 1
  NoView = NoView
  NoRepair = NoRepair
  Offers <- MCOffers
  Budgets = {0, 3}
  Grants = {{"tool"}}
  Permitted <- MCPermitted
  MaxActions = 1
  InitialStructures <- MCStructures
  Objective <- MCObjective
  SignalSets <- MCSignals
  Precision = 1
  Utilities <- MCUtilities
  EnableMutation = TRUE
  EnableLearning = TRUE
  ChurnAfter = 2
  LearningWindow = 3
  NoAssessment = NoAssessment
  MaxCycles = 5
  Conclusions = {"p", "q", "x"}
  Similar <- MCSimilar
  Groups = {"g", "h"}
  AttemptTokens = {1, 3}
  MaxAttempts = 4
  MaxTokens = 6
  TailTokens = 2
  FixedCount = 3
  MinimumGroups = 2
  Exposures <- MCExposures
  Estimates <- MCEstimates
  InitialFacts <- MCFacts
  Clusters = 2
  TaskClasses = {"a", "b"}
  Metrics = {3, 7}
  Timestamps = {1, 2}
  MaxSamples = 2
  MaxExecutions = 5
  RecordIds = {r1, r2, r3}
  Tenants = {t1, t2}
  Labels = {"pii"}
  Trusts = {0, 1}
  Horizons = {1}
  Holds = {FALSE}
  Never = 2
  Fingerprints = {}
  NoRecord = NoRecord
  MaxClock = 1
INVARIANTS
  HaltingInvariant
  ChoiceInvariant
  AdaptationInvariant
  DriftSampleNewest
  SummariesTellNoMore
PROPERTIES
  CognitiveSafety
CHECK_DEADLOCK FALSE
