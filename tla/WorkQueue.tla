----------------------------- MODULE WorkQueue -----------------------------
(***************************************************************************)
(* The durable work queue of dnc.persistence.workers: items are submitted  *)
(* under a tenant-scoped idempotency key, leased to workers under a        *)
(* growing fencing token, kept alive by heartbeats, completed by a result  *)
(* that names the token, and reconciled when a lease has expired.  The     *)
(* queue is captured in and restored from the integrated DNC snapshot.     *)
(*                                                                         *)
(* The four dictionaries _items, _status, _leases and _results are total   *)
(* functions on WorkIds with a "no entry" value.  A call that raises, or   *)
(* returns without changing anything, is a stuttering step.                *)
(***************************************************************************)
EXTENDS Naturals, FiniteSets

CONSTANTS
  WorkIds,     \* work_id values
  Items,       \* the work items clients may submit
  Keys,        \* (tenant_id, idempotency_key) pairs
  Workers,     \* worker_id values
  Capacity,    \* Capacity[w]: the resources worker w offers with a lease call
  Outcomes,    \* what distinguishes two results of one lease (output, effects)
  Durations,   \* duration_ns arguments of lease and heartbeat
  NoItem, NoLease, NoResult, NoBackup,
  MaxTime,     \* bound: the last clock value
  MaxGrants    \* bound: the leases handed out over one behaviour

ItemType ==
  [work_id : WorkIds, key : Keys, deadline : Nat, demand : Nat,
   irreversible : BOOLEAN]

LeaseType ==
  [work_id : WorkIds, worker_id : Workers, token : Nat, expires : Nat]

ResultType ==
  [work_id : WorkIds, worker_id : Workers, token : Nat, outcome : Outcomes]

Status == {"READY", "LEASED", "COMPLETED", "RECONCILIATION_REQUIRED"}

ASSUME ItemsAssumption == Items \subseteq ItemType
ASSUME CapacityAssumption == Capacity \in [Workers -> Nat]
ASSUME DurationsAssumption == Durations \subseteq Nat
ASSUME BoundsAssumption == MaxTime \in Nat /\ MaxGrants \in Nat
ASSUME NoEntryAssumption ==
  /\ NoItem \notin ItemType
  /\ NoLease \notin LeaseType
  /\ NoResult \notin ResultType

BackupType ==
  [items : [WorkIds -> Items \cup {NoItem}],
   status : [WorkIds -> Status \cup {"ABSENT"}],
   leases : [WorkIds -> LeaseType \cup {NoLease}],
   results : [WorkIds -> ResultType \cup {NoResult}],
   fencing : Nat]

VARIABLES
  items,     \* _items
  status,    \* _status ("ABSENT" stands for no entry)
  leases,    \* _leases
  results,   \* _results
  fencing,   \* _fencing
  now,       \* the clock the callers' now_ns is read from
  grants,    \* history: the leases handed to workers, as each worker last saw it
  backup,    \* the queue part of the latest integrated snapshot
  reused     \* history: the work ids submitted again while the queue knew them

vars == <<items, status, leases, results, fencing, now, grants, backup, reused>>

\* What the variables hold; a lease never runs out before the clock's zero.
TypeOK ==
  /\ items   \in [WorkIds -> Items \cup {NoItem}]
  /\ status  \in [WorkIds -> Status \cup {"ABSENT"}]
  /\ leases  \in [WorkIds -> LeaseType \cup {NoLease}]
  /\ results \in [WorkIds -> ResultType \cup {NoResult}]
  /\ fencing \in Nat
  /\ now     \in Nat
  /\ grants  \in SUBSET LeaseType
  /\ backup  \in BackupType \cup {NoBackup}
  /\ reused  \in SUBSET WorkIds

Init ==
  /\ items   = [w \in WorkIds |-> NoItem]
  /\ status  = [w \in WorkIds |-> "ABSENT"]
  /\ leases  = [w \in WorkIds |-> NoLease]
  /\ results = [w \in WorkIds |-> NoResult]
  /\ fencing = 0
  /\ now     = 0
  /\ grants  = {}
  /\ backup  = NoBackup
  /\ reused  = {}

----------------------------------------------------------------------------
(* The operations of the queue. *)

\* The item already submitted under a key, if any, makes submit a no-op
\* (equal item) or an error (different item).
KeyTaken(key) ==
  \E w \in WorkIds : items[w] # NoItem /\ items[w].key = key

\* Nothing looks at the work_id: a known one is overwritten and READY again,
\* its earlier lease and result staying on file.
ReusedWith(w) == IF items[w] # NoItem THEN reused \cup {w} ELSE reused

SubmitWithoutKeyCheck(item) ==
  /\ items'  = [items  EXCEPT ![item.work_id] = item]
  /\ status' = [status EXCEPT ![item.work_id] = "READY"]
  /\ reused' = ReusedWith(item.work_id)
  /\ UNCHANGED <<leases, results, fencing, now, grants, backup>>

Submit(item) ==
  /\ ~KeyTaken(item.key)
  /\ items'  = [items  EXCEPT ![item.work_id] = item]
  /\ status' = [status EXCEPT ![item.work_id] = "READY"]
  /\ reused' = ReusedWith(item.work_id)
  /\ UNCHANGED <<leases, results, fencing, now, grants, backup>>

GrantWithoutIncrement(w, worker, duration) ==
  LET lease == [work_id |-> w, worker_id |-> worker, token |-> fencing + 1,
                expires |-> now + duration]
  IN  /\ leases'  = [leases EXCEPT ![w] = lease]
      /\ status'  = [status EXCEPT ![w] = "LEASED"]
      /\ grants'  = grants \cup {lease}
      /\ UNCHANGED <<items, results, fencing, now, backup, reused>>

Grant(w, worker, duration) ==
  LET lease == [work_id |-> w, worker_id |-> worker, token |-> fencing + 1,
                expires |-> now + duration]
  IN  /\ fencing' = fencing + 1
      /\ leases'  = [leases EXCEPT ![w] = lease]
      /\ status'  = [status EXCEPT ![w] = "LEASED"]
      /\ grants'  = grants \cup {lease}
      /\ UNCHANGED <<items, results, now, backup, reused>>

Lease(w, worker, duration) ==
  /\ Cardinality(grants) < MaxGrants
  /\ duration > 0
  /\ status[w] = "READY"
  /\ now < items[w].deadline
  /\ items[w].demand <= Capacity[worker]
  /\ Grant(w, worker, duration)

\* _require_lease: the entry exists and carries the caller's token.
HoldsAnyLease(w, token) == leases[w] # NoLease

HoldsLease(w, token) == leases[w] # NoLease /\ leases[w].token = token

\* A worker renews the lease it was granted; the reply replaces its copy.
\* The stored owner is kept: heartbeat does not look at who is calling.
Heartbeat(g, duration) ==
  /\ HoldsLease(g.work_id, g.token)
  /\ duration > 0
  /\ now < leases[g.work_id].expires
  /\ leases' = [leases EXCEPT ![g.work_id].expires = now + duration]
  /\ grants' = (grants \ {g}) \cup {[g EXCEPT !.expires = now + duration]}
  /\ UNCHANGED <<items, status, results, fencing, now, backup, reused>>

CompleteKeepingLease(g, outcome) ==
  LET w == g.work_id
  IN  /\ results[w] = NoResult
      /\ HoldsLease(w, g.token)
      /\ leases[w].worker_id = g.worker_id
      /\ results' = [results EXCEPT ![w] =
                       [work_id |-> w, worker_id |-> g.worker_id,
                        token |-> g.token, outcome |-> outcome]]
      /\ status'  = [status EXCEPT ![w] = "COMPLETED"]
      /\ UNCHANGED <<items, leases, fencing, now, grants, backup, reused>>

\* A worker reports the outcome of a lease it was granted, at any later time
\* and as often as it likes.  There is no clock check: a lease that expired
\* but was not reconciled yet still completes.
Complete(g, outcome) ==
  LET w == g.work_id
  IN  /\ results[w] = NoResult
      /\ HoldsLease(w, g.token)
      /\ leases[w].worker_id = g.worker_id
      /\ results' = [results EXCEPT ![w] =
                       [work_id |-> w, worker_id |-> g.worker_id,
                        token |-> g.token, outcome |-> outcome]]
      /\ status'  = [status EXCEPT ![w] = "COMPLETED"]
      /\ leases'  = [leases EXCEPT ![w] = NoLease]
      /\ UNCHANGED <<items, fencing, now, grants, backup, reused>>

ExpiredOneTickEarly(w) == leases[w] # NoLease /\ now + 1 >= leases[w].expires

Expired(w) == leases[w] # NoLease /\ now >= leases[w].expires

ReconcileRequeuingAll ==
  /\ \E w \in WorkIds : Expired(w)
  /\ status' = [w \in WorkIds |-> IF Expired(w) THEN "READY" ELSE status[w]]
  /\ leases' = [w \in WorkIds |-> IF Expired(w) THEN NoLease ELSE leases[w]]
  /\ UNCHANGED <<items, results, fencing, now, grants, backup, reused>>

\* One call handles every expired lease.
Reconcile ==
  /\ \E w \in WorkIds : Expired(w)
  /\ status' = [w \in WorkIds |->
                  IF Expired(w)
                  THEN IF items[w].irreversible THEN "RECONCILIATION_REQUIRED"
                                                ELSE "READY"
                  ELSE status[w]]
  /\ leases' = [w \in WorkIds |-> IF Expired(w) THEN NoLease ELSE leases[w]]
  /\ UNCHANGED <<items, results, fencing, now, grants, backup, reused>>

Tick ==
  /\ now < MaxTime
  /\ now' = now + 1
  /\ UNCHANGED <<items, status, leases, results, fencing, grants, backup, reused>>

----------------------------------------------------------------------------
(* Capture into and restore from the integrated snapshot. *)

Snapshot ==
  /\ backup' = [items |-> items, status |-> status, leases |-> leases,
                results |-> results, fencing |-> fencing]
  /\ UNCHANGED <<items, status, leases, results, fencing, now, grants, reused>>

\* restore() refuses a backup whose dictionaries name unknown work items.
WellFormedBackup(b) ==
  \A w \in WorkIds :
    /\ b.status[w] = "ABSENT" <=> b.items[w] = NoItem
    /\ b.leases[w] # NoLease => b.items[w] # NoItem
    /\ b.results[w] # NoResult => b.items[w] # NoItem

\* The queue goes back in time; the workers, and the leases they hold, do not.
Restore ==
  /\ backup # NoBackup
  /\ WellFormedBackup(backup)
  /\ items'   = backup.items
  /\ status'  = backup.status
  /\ leases'  = backup.leases
  /\ results' = backup.results
  /\ fencing' = backup.fencing
  /\ UNCHANGED <<now, grants, backup, reused>>

----------------------------------------------------------------------------
WorkerStep(g) ==
  \/ \E d \in Durations : Heartbeat(g, d)
  \/ \E o \in Outcomes : Complete(g, o)

Next ==
  \/ \E item \in Items : Submit(item)
  \/ \E w \in WorkIds, worker \in Workers, d \in Durations : Lease(w, worker, d)
  \/ \E g \in grants : WorkerStep(g)
  \/ Reconcile
  \/ Tick

RestoreNext ==
  \/ Next
  \/ Snapshot
  \/ Restore

\* One uninterrupted life of the queue.
Spec == Init /\ [][Next]_vars

\* The queue inside a DNCSystem whose snapshots are restored.
RestoreSpec == Init /\ [][RestoreNext]_vars

----------------------------------------------------------------------------
(* Properties. *)

\* The four dictionaries agree: an item has a status exactly when it is known,
\* only known items have a lease or a result (so that what is captured can be
\* restored), a LEASED item has a lease, a COMPLETED one a result and no lease; and unless
\* the work_id was submitted again, a lease means LEASED and a result COMPLETED.
\* Submit, lease, complete and reconcile each write two or three of the
\* dictionaries, and a restore replaces all.
DictionariesAgree ==
  \A w \in WorkIds :
    /\ items[w] = NoItem <=> status[w] = "ABSENT"
    /\ items[w] = NoItem => leases[w] = NoLease /\ results[w] = NoResult
    /\ status[w] = "LEASED" => leases[w] # NoLease
    /\ status[w] = "COMPLETED" => results[w] # NoResult /\ leases[w] = NoLease
    /\ w \notin reused =>
         /\ leases[w] # NoLease => status[w] = "LEASED"
         /\ results[w] # NoResult => status[w] = "COMPLETED"

\* No two workers ever hold a lease on one item that both believe unexpired:
\* a lease is handed out again only when the copy the earlier worker was last
\* given has run out, however heartbeats shortened or extended it.  (A work_id
\* submitted again while it is leased is leased again at once.)
MutualExclusion ==
  \A g, h \in grants :
    /\ g.work_id = h.work_id
    /\ g.work_id \notin reused
    /\ now < g.expires
    /\ now < h.expires
    => g = h

\* The result on record comes from the newest lease of the item: a worker
\* whose lease was reconciled and handed to another cannot complete any more.
ResultFromNewestLease ==
  \A w \in WorkIds \ reused :
    results[w] # NoResult =>
      \A g \in grants : g.work_id = w => g.token <= results[w].token

\* Irreversible work is handed out at most once: after an ambiguous expiry it
\* waits in RECONCILIATION_REQUIRED and is never leased again, unless other
\* work is submitted under its work_id.
IrreversibleLeasedOnce ==
  \A g, h \in grants :
    /\ g.work_id = h.work_id
    /\ g.work_id \notin reused
    /\ items[g.work_id] # NoItem
    /\ items[g.work_id].irreversible
    => g = h

\* A lease token is current for at most one item, and never above the counter.
TokensDistinct ==
  \A v, w \in WorkIds :
    leases[v] # NoLease =>
      /\ leases[v].token <= fencing
      /\ leases[w] # NoLease /\ leases[v].token = leases[w].token => v = w

\* Once a result is recorded no later call replaces it.  Its item leaves
\* COMPLETED only when another item is submitted under its work_id, and what is
\* submitted there, leased or not, is never COMPLETED: complete() still finds
\* the first result.
ResultsFinal ==
  [][\A w \in WorkIds :
       results[w] # NoResult =>
         /\ results'[w] = results[w]
         /\ status[w] = "COMPLETED" /\ items'[w] = items[w] =>
              status'[w] = "COMPLETED"
         /\ status'[w] = "COMPLETED" => status[w] = "COMPLETED"]_vars

----------------------------------------------------------------------------
(* The inductive strengthening of the properties above. *)

\* Every item is filed under its own work_id.
ItemsFiled ==
  \A w \in WorkIds : items[w] # NoItem => items[w].work_id = w

\* The lease on file is a grant, exactly as its worker last saw it.
LeaseIsGrant ==
  \A w \in WorkIds :
    leases[w] # NoLease => leases[w] \in grants /\ leases[w].work_id = w

\* Grants are told apart by their tokens, none above the counter.
GrantsFenced ==
  /\ \A g \in grants : g.token <= fencing /\ items[g.work_id] # NoItem
  /\ \A g, h \in grants : g.token = h.token => g = h

\* A worker that believes its lease unexpired still has it on file, or its
\* own result does.
LiveGrantsCurrent ==
  \A g \in grants :
    g.work_id \notin reused /\ now < g.expires =>
      \/ leases[g.work_id] = g
      \/ results[g.work_id] # NoResult /\ results[g.work_id].token = g.token

\* The lease on file is the newest one of its item.
NewestLeaseOnFile ==
  \A w \in WorkIds :
    leases[w] # NoLease =>
      \A g \in grants : g.work_id = w => g.token <= leases[w].token

\* Irreversible work that was ever handed out is not READY.
IrreversibleNotRequeued ==
  \A g \in grants :
    g.work_id \notin reused /\ items[g.work_id].irreversible =>
      status[g.work_id] # "READY"

QueueInv ==
  /\ TypeOK
  /\ ItemsFiled
  /\ DictionariesAgree
  /\ LeaseIsGrant
  /\ GrantsFenced
  /\ LiveGrantsCurrent
  /\ NewestLeaseOnFile
  /\ ResultFromNewestLease
  /\ IrreversibleNotRequeued
  /\ IrreversibleLeasedOnce
============================================================================
