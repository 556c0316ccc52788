SPECIFICATION RecoverySpec
CONSTANTS
  w1 = w1
  w2 = w2
  w3 = w3
  k1 = k1
  k2 = k2
  k3 = k3
  small = small
  big = big
  Keys = {k1, k2, k3}
  Workers = {small, big}
  Capacity <- MCCapacity
  NoItem = NoItem
  NoLease = NoLease
  NoResult = NoResult
  NoBackup = NoBackup
  WorkIds = {w1, w2}
  Items <- RestoredItems
  Outcomes = {o1}
  Durations = {1}
  MaxTime = 2
  MaxGrants = 2
  Stores = {"object_store"}
  Tenants = {"t"}
  DefaultTenant = "tenant-default"
  Caps = {"c"}
  Skills = {}
  CapModel <- MCCapModel
  Neural = {"c"}
  RecordNames = {"r"}
  UnderHold = {}
  NoSystemState = NoSystemState
  NoCandidate = NoCandidate
  NoRepairOpen = NoRepairOpen
  MaxPart = 1
  MaxCounted = 1
  MaxSwitched = 1
  SwitchScopes <- MCSwitchScopes
  MaxCaptured = 1
  ReplayModes = {"RECORD", "REPLAY"}
  Requests = {q1}
  Outputs = {o1, o2}
  Effects = {e1}
  EffectKind <- MCEffectKind
  Reversible <- MCReversible
  Allowed = {"FILE_WRITE"}
  Payloads = {p1}
  Nothing = Nothing
  RuntimeKept = {TRUE}
  MaxGraph = 1
  MaxCaptures = 2
  Slots = {"plan"}
  Values = {"good", "bad"}
  Unset = Unset
  Updates <- MCUpdates
  Violating <- MCViolating
  MaxRollbacks = 2
  Window = 2
  MaxVersions = 4
  MaxKBTime = 2
INVARIANTS
  DictionariesAgree
  TokensDistinct
  KBInvariant
PROPERTIES
  SystemSafety
  RecordSafety
CHECK_DEADLOCK FALSE
