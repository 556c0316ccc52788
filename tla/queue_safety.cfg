SPECIFICATION Spec
CONSTANTS
  w1 = w1
  w2 = w2
  w3 = w3
  k1 = k1
  k2 = k2
  k3 = k3
  small = small
  big = big
  Keys = {k1, k2, k3}
  Workers = {small, big}
  Capacity <- MCCapacity
  NoItem = NoItem
  NoLease = NoLease
  NoResult = NoResult
  NoBackup = NoBackup
  WorkIds = {w1, w2, w3}
  Items <- DistinctItems
  Outcomes = {o1, o2}
  Durations = {1, 2}
  MaxTime = 4
  MaxGrants = 3
INVARIANTS
  MutualExclusion
  ResultFromNewestLease
  IrreversibleLeasedOnce
PROPERTY
  ResultsFinal
CHECK_DEADLOCK FALSE
