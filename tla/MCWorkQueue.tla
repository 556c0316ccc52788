---------------------------- MODULE MCWorkQueue ----------------------------
(***************************************************************************)
(* Small instances of WorkQueue.  DistinctItems holds irreversible and     *)
(* requeueable work, and two items that compete for one idempotency key,   *)
(* and another item under the first one's work_id.                         *)
(***************************************************************************)
EXTENDS WorkQueue

CONSTANTS w1, w2, w3, k1, k2, k3, small, big

MCCapacity == [w \in {small, big} |-> IF w = small THEN 1 ELSE 2]

Item(w, key, demand, irreversible) ==
  [work_id |-> w, key |-> key, deadline |-> 3, demand |-> demand,
   irreversible |-> irreversible]

DistinctItems ==
  { Item(w1, k1, 1, TRUE), Item(w2, k2, 1, FALSE), Item(w3, k1, 2, FALSE),
    Item(w1, k3, 2, FALSE) }

\* For the restored queue: one item that must not be repeated, one that may,
\* and another item under the work_id of that.
RestoredItems ==
  { Item(w1, k1, 1, TRUE), Item(w2, k2, 1, FALSE), Item(w2, k3, 1, TRUE) }
============================================================================
