SPECIFICATION RestoreSpec
CONSTANTS
  w1 = w1
  w2 = w2
  w3 = w3
  k1 = k1
  k2 = k2
  k3 = k3
  small = small
  big = big
  Keys = {k1, k2, k3}
  Workers = {small, big}
  Capacity <- MCCapacity
  NoItem = NoItem
  NoLease = NoLease
  NoResult = NoResult
  NoBackup = NoBackup
  WorkIds = {w1, w2}
  Items <- RestoredItems
  Outcomes = {o1}
  Durations = {1}
  MaxTime = 3
  MaxGrants = 3
INVARIANTS
  IrreversibleLeasedOnce
CHECK_DEADLOCK FALSE
