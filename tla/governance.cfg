SPECIFICATION Spec
CONSTANTS
  Observations <- MCObservations
  Kinds = {"incident", "disaster_recovery"}
  Packages = {p1}
  Roles = {"product", "security"}
  People = {alice, bob}
  MinObservations = 2
  MinDays = 2
  MaxFailurePercent = 50
  MinValue = 4
  MaxLatency = 50
  MaxCost = 2
  NoApproval = NoApproval
  NoPackage = NoPackage
  Versions <- MCVersions
  Skill <- MCSkill
  Tenant <- MCTenant
  Parent <- MCOwnParent
  Dependencies <- MCDependencies
  Fingerprints = {"m1", "m2"}
  NoParent = NoParent
  Capabilities = {1, 2}
  Models = {"m1", "m2"}
  Competence <- MCCompetence
  Expiries = {1}
  Prints = {"p"}
  Artifacts = {"x"}
  About <- MCAbout
  Edition <- MCEdition
  HeldOut = {"x"}
  NoCard = NoCard
  NoArtifact = NoArtifact
  MaxNow = 1
  Verifiers = {1, 2, 3, 4}
  Cost <- MCCost
  Group <- MCGroup
  Human <- MCHuman
  CascadePolicies <- MCCascadePolicies
  LabelIds = {"l1", "l2", "l3"}
  LabelTexts <- MCLabelTexts
  NoLabel = NoLabel
  Scale = 4
  Bins = 2
  MaxObservations = 5
  Policies = {"p", "q"}
  Actions = {1, 2}
  Fallback = 2
  PropensityParts = 20
  ExplorationParts = 2
  ExplorationPeriod = 10
  WeightUnit = 380
  MeanUnit = 2
  MinimumSample = 1
  FirstLog <- MCFirstLog
  MaxLog = 2
  Indices = {0, 1}
INVARIANTS
  CascadeSound
  SupersededNotCurrent
  FitsInvariant
PROPERTIES
  PilotSafety
  SkillSafety
  AssuranceSafety
  LearnedSafety
CHECK_DEADLOCK FALSE
