-------------------------- MODULE RecoveryProofs ---------------------------
(***************************************************************************)
(* Proofs about what is written down and put back: the work queue, the     *)
(* parts of the integrated system, a recorded branch and the versions of   *)
(* the knowledge base, for every value of their constants and every bound. *)
(* Nothing keeps a work_id from being submitted again under another key;   *)
(* what is said of one item is said of the ids to which that did not       *)
(* happen.                                                                 *)
(***************************************************************************)
EXTENDS WorkQueue, SystemState, RecordedExecution, KnowledgeBase,
        SequenceTheorems, WellFoundedInduction, TLAPS

----------------------------------------------------------------------------
(* WorkQueue *)

USE DEF ItemType, LeaseType, ResultType, BackupType

\* The empty queue satisfies the invariant.
LEMMA QueueInit == Init => QueueInv
<1> SUFFICES ASSUME Init PROVE QueueInv
  OBVIOUS
<1>1. TypeOK
  BY NoEntryAssumption DEF Init, TypeOK, Status
<1>2. ItemsFiled /\ DictionariesAgree
  BY DEF Init, ItemsFiled, DictionariesAgree
<1>3. LeaseIsGrant /\ GrantsFenced /\ LiveGrantsCurrent
  BY DEF Init, LeaseIsGrant, GrantsFenced, LiveGrantsCurrent
<1>4. /\ NewestLeaseOnFile /\ ResultFromNewestLease
      /\ IrreversibleNotRequeued /\ IrreversibleLeasedOnce
  BY DEF Init, NewestLeaseOnFile, ResultFromNewestLease,
         IrreversibleNotRequeued, IrreversibleLeasedOnce
<1> QED
  BY <1>1, <1>2, <1>3, <1>4 DEF QueueInv

\* A submission touches no lease, result or grant; what is known of the id it
\* overwrites is not claimed any more.
LEMMA SubmitPreserves ==
  ASSUME QueueInv, NEW item \in Items, Submit(item)
  PROVE  QueueInv'
<1> DEFINE w == item.work_id
<1>1. w \in WorkIds /\ item # NoItem /\ item \in ItemType
  BY ItemsAssumption, NoEntryAssumption
<1>2. /\ items' = [items EXCEPT ![w] = item]
      /\ status' = [status EXCEPT ![w] = "READY"]
      /\ reused' = IF items[w] # NoItem THEN reused \cup {w} ELSE reused
      /\ UNCHANGED <<leases, results, fencing, now, grants, backup>>
  BY DEF Submit, ReusedWith
<1>3. w \notin reused' =>
        /\ leases[w] = NoLease /\ results[w] = NoResult
        /\ \A g \in grants : g.work_id # w
  BY <1>1, <1>2 DEF QueueInv, DictionariesAgree, GrantsFenced
<1>4. TypeOK'
  BY <1>1, <1>2 DEF QueueInv, TypeOK, Status
<1>5. ItemsFiled'
  BY <1>1, <1>2 DEF QueueInv, TypeOK, ItemsFiled
<1>6. DictionariesAgree'
  <2> SUFFICES ASSUME NEW v \in WorkIds
               PROVE  /\ items'[v] = NoItem <=> status'[v] = "ABSENT"
                      /\ items'[v] = NoItem =>
                           leases'[v] = NoLease /\ results'[v] = NoResult
                      /\ status'[v] = "LEASED" => leases'[v] # NoLease
                      /\ status'[v] = "COMPLETED" =>
                           results'[v] # NoResult /\ leases'[v] = NoLease
                      /\ v \notin reused' =>
                           /\ leases'[v] # NoLease => status'[v] = "LEASED"
                           /\ results'[v] # NoResult => status'[v] = "COMPLETED"
    BY DEF DictionariesAgree
  <2>1. CASE v = w
    BY <1>1, <1>2, <1>3, <2>1 DEF QueueInv, TypeOK
  <2>2. CASE v # w
    BY <1>1, <1>2, <2>2 DEF QueueInv, TypeOK, DictionariesAgree
  <2> QED BY <2>1, <2>2
<1>7. LeaseIsGrant' /\ GrantsFenced' /\ LiveGrantsCurrent' /\ NewestLeaseOnFile'
      /\ ResultFromNewestLease'
  BY <1>1, <1>2, <1>3 DEF QueueInv, TypeOK, LeaseIsGrant, GrantsFenced,
     LiveGrantsCurrent, NewestLeaseOnFile, ResultFromNewestLease
<1>8. IrreversibleNotRequeued' /\ IrreversibleLeasedOnce'
  BY <1>1, <1>2, <1>3 DEF QueueInv, TypeOK, IrreversibleNotRequeued,
     IrreversibleLeasedOnce
<1> QED
  BY <1>4, <1>5, <1>6, <1>7, <1>8 DEF QueueInv

\* A lease gets a token above every earlier one, on an item nobody holds
\* unless its id was submitted again.
LEMMA LeasePreserves ==
  ASSUME QueueInv, NEW w \in WorkIds, NEW worker \in Workers,
         NEW d \in Durations, Lease(w, worker, d)
  PROVE  QueueInv'
<1> DEFINE lease == [work_id |-> w, worker_id |-> worker, token |-> fencing + 1,
                     expires |-> now + d]
<1>1. /\ fencing' = fencing + 1
      /\ leases' = [leases EXCEPT ![w] = lease]
      /\ status' = [status EXCEPT ![w] = "LEASED"]
      /\ grants' = grants \cup {lease}
      /\ UNCHANGED <<items, results, now, backup, reused>>
      /\ status[w] = "READY"
  BY DEF Lease, Grant
<1>2. lease \in LeaseType /\ lease # NoLease
  BY DurationsAssumption, NoEntryAssumption DEF QueueInv, TypeOK
<1>3. /\ items[w] # NoItem
      /\ w \notin reused => leases[w] = NoLease /\ results[w] = NoResult
  BY <1>1 DEF QueueInv, DictionariesAgree
<1>4. \A g \in grants : g.token \in Nat /\ g.token < lease.token
  BY DEF QueueInv, TypeOK, GrantsFenced
<1>5. w \notin reused => \A g \in grants : g.work_id = w => ~(now < g.expires)
  BY <1>2, <1>3, NoEntryAssumption DEF QueueInv, TypeOK, LiveGrantsCurrent
<1>6. TypeOK'
  BY <1>1, <1>2 DEF QueueInv, TypeOK, Status
<1>7. ItemsFiled' /\ DictionariesAgree'
  BY <1>1, <1>2, <1>3 DEF QueueInv, TypeOK, ItemsFiled, DictionariesAgree
<1>8. LeaseIsGrant'
  BY <1>1, <1>2 DEF QueueInv, TypeOK, LeaseIsGrant
<1>9. GrantsFenced'
  BY <1>1, <1>2, <1>3, <1>4 DEF QueueInv, TypeOK, GrantsFenced
<1>10. LiveGrantsCurrent'
  BY <1>1, <1>2, <1>5 DEF QueueInv, TypeOK, LiveGrantsCurrent
<1>11. NewestLeaseOnFile'
  <2> SUFFICES ASSUME NEW v \in WorkIds, leases'[v] # NoLease,
                      NEW g \in grants', g.work_id = v
               PROVE  g.token <= leases'[v].token
    BY DEF NewestLeaseOnFile
  <2>1. CASE v = w
    BY <1>1, <1>2, <1>4, <2>1 DEF QueueInv, TypeOK
  <2>2. CASE v # w
    BY <1>1, <2>2 DEF QueueInv, TypeOK, NewestLeaseOnFile
  <2> QED
    BY <2>1, <2>2
<1>12. ResultFromNewestLease'
  BY <1>1, <1>3 DEF QueueInv, TypeOK, ResultFromNewestLease
<1>13. IrreversibleNotRequeued'
  BY <1>1 DEF QueueInv, TypeOK, IrreversibleNotRequeued
<1>14. IrreversibleLeasedOnce'
  BY <1>1 DEF QueueInv, TypeOK, IrreversibleLeasedOnce, IrreversibleNotRequeued
<1> QED
  BY <1>6, <1>7, <1>8, <1>9, <1>10, <1>11, <1>12, <1>13, <1>14 DEF QueueInv

\* Without a restore the caller of an accepted heartbeat or result is the
\* worker whose grant is on file.
LEMMA HolderIsOnFile ==
  ASSUME QueueInv, NEW g \in grants, HoldsLease(g.work_id, g.token)
  PROVE  g.work_id \in WorkIds /\ leases[g.work_id] = g /\ g # NoLease
BY NoEntryAssumption DEF QueueInv, TypeOK, LeaseIsGrant, GrantsFenced, HoldsLease

\* A renewal replaces the copy on file and the worker's copy together.
LEMMA HeartbeatPreserves ==
  ASSUME QueueInv, NEW g \in grants, NEW d \in Durations, Heartbeat(g, d)
  PROVE  QueueInv'
<1> DEFINE w == g.work_id
           r == [g EXCEPT !.expires = now + d]
<1>1. w \in WorkIds /\ leases[w] = g /\ g # NoLease /\ g \in LeaseType
  BY HolderIsOnFile DEF Heartbeat, QueueInv, TypeOK
<1>2. /\ leases' = [leases EXCEPT ![w] = r]
      /\ grants' = (grants \ {g}) \cup {r}
      /\ UNCHANGED <<items, status, results, fencing, now, backup, reused>>
  BY <1>1 DEF Heartbeat, QueueInv, TypeOK
<1>3. /\ r \in LeaseType /\ r # NoLease
      /\ r.work_id = w /\ r.token = g.token /\ r.worker_id = g.worker_id
  BY <1>1, DurationsAssumption, NoEntryAssumption DEF QueueInv, TypeOK
<1>4. \A h \in grants : h # g => h.token # g.token
  BY DEF QueueInv, GrantsFenced
<1>5. w \notin reused => results[w] = NoResult
  BY <1>1 DEF QueueInv, DictionariesAgree
<1>6. TypeOK'
  BY <1>1, <1>2, <1>3 DEF QueueInv, TypeOK
<1>7. ItemsFiled' /\ DictionariesAgree'
  BY <1>1, <1>2, <1>3 DEF QueueInv, TypeOK, ItemsFiled, DictionariesAgree
<1>8. LeaseIsGrant'
  BY <1>1, <1>2, <1>3 DEF QueueInv, TypeOK, LeaseIsGrant
<1>9. GrantsFenced'
  BY <1>2, <1>3, <1>4 DEF QueueInv, GrantsFenced
<1>10. LiveGrantsCurrent'
  <2> SUFFICES ASSUME NEW h \in grants', h.work_id \notin reused', now' < h.expires
               PROVE  \/ leases'[h.work_id] = h
                      \/ /\ results'[h.work_id] # NoResult
                         /\ results'[h.work_id].token = h.token
    BY DEF LiveGrantsCurrent
  <2>1. CASE h = r
    BY <1>1, <1>2, <1>3, <2>1 DEF QueueInv, TypeOK
  <2>2. CASE h # r
    <3>1. /\ h \in grants /\ h # g /\ now < h.expires /\ h.work_id \in WorkIds
          /\ h.work_id \notin reused
      BY <1>2, <2>2 DEF QueueInv, TypeOK
    <3>2. CASE h.work_id = w
      BY <1>1, <1>5, <3>1, <3>2 DEF QueueInv, LiveGrantsCurrent
    <3>3. CASE h.work_id # w
      BY <1>1, <1>2, <3>1, <3>3 DEF QueueInv, TypeOK, LiveGrantsCurrent
    <3> QED
      BY <3>2, <3>3
  <2> QED
    BY <2>1, <2>2
<1>11. NewestLeaseOnFile'
  BY <1>1, <1>2, <1>3 DEF QueueInv, TypeOK, NewestLeaseOnFile
<1>12. ResultFromNewestLease'
  BY <1>2, <1>3 DEF QueueInv, ResultFromNewestLease
<1>13. IrreversibleNotRequeued'
  BY <1>2, <1>3 DEF QueueInv, IrreversibleNotRequeued
<1>14. IrreversibleLeasedOnce'
  BY <1>2, <1>3 DEF QueueInv, IrreversibleLeasedOnce
<1> QED
  BY <1>6, <1>7, <1>8, <1>9, <1>10, <1>11, <1>12, <1>13, <1>14 DEF QueueInv

\* The token check makes the completing worker the newest holder.
LEMMA CompletePreserves ==
  ASSUME QueueInv, NEW g \in grants, NEW o \in Outcomes, Complete(g, o)
  PROVE  QueueInv'
<1> DEFINE w == g.work_id
           r == [work_id |-> w, worker_id |-> g.worker_id, token |-> g.token,
                 outcome |-> o]
<1>1. w \in WorkIds /\ leases[w] = g /\ g # NoLease /\ g \in LeaseType
  BY HolderIsOnFile DEF Complete, QueueInv, TypeOK
<1>2. /\ results' = [results EXCEPT ![w] = r]
      /\ status' = [status EXCEPT ![w] = "COMPLETED"]
      /\ leases' = [leases EXCEPT ![w] = NoLease]
      /\ UNCHANGED <<items, fencing, now, grants, backup, reused>>
  BY DEF Complete
<1>3. r \in ResultType /\ r # NoResult
  BY <1>1, NoEntryAssumption
<1>4. items[w] # NoItem
  BY <1>1 DEF QueueInv, GrantsFenced
<1>5. TypeOK'
  BY <1>1, <1>2, <1>3 DEF QueueInv, TypeOK, Status
<1>6. ItemsFiled' /\ DictionariesAgree'
  BY <1>1, <1>2, <1>3, <1>4 DEF QueueInv, TypeOK, ItemsFiled, DictionariesAgree
<1>7. LeaseIsGrant' /\ GrantsFenced' /\ NewestLeaseOnFile'
  BY <1>1, <1>2 DEF QueueInv, TypeOK, LeaseIsGrant, GrantsFenced, NewestLeaseOnFile
<1>8. LiveGrantsCurrent'
  <2> SUFFICES ASSUME NEW h \in grants, h.work_id \notin reused, now < h.expires
               PROVE  \/ leases'[h.work_id] = h
                      \/ /\ results'[h.work_id] # NoResult
                         /\ results'[h.work_id].token = h.token
    BY <1>2 DEF LiveGrantsCurrent
  <2>1. h.work_id \in WorkIds
    BY DEF QueueInv, TypeOK
  <2>2. CASE h.work_id = w
    <3>1. h = g
      BY <1>1, <2>2 DEF QueueInv, LiveGrantsCurrent, DictionariesAgree
    <3> QED
      BY <1>1, <1>2, <1>3, <3>1 DEF QueueInv, TypeOK
  <2>3. CASE h.work_id # w
    BY <1>1, <1>2, <2>1, <2>3 DEF QueueInv, TypeOK, LiveGrantsCurrent
  <2> QED
    BY <2>2, <2>3
<1>9. ResultFromNewestLease'
  BY <1>1, <1>2, <1>3 DEF QueueInv, TypeOK, ResultFromNewestLease, NewestLeaseOnFile
<1>10. IrreversibleNotRequeued' /\ IrreversibleLeasedOnce'
  BY <1>1, <1>2 DEF QueueInv, TypeOK, IrreversibleNotRequeued, IrreversibleLeasedOnce
<1> QED
  BY <1>5, <1>6, <1>7, <1>8, <1>9, <1>10 DEF QueueInv

\* Only leases whose holders know them expired are taken back.
LEMMA ReconcilePreserves ==
  ASSUME QueueInv, Reconcile
  PROVE  QueueInv'
<1>1. /\ \A w \in WorkIds : ~Expired(w) => status'[w] = status[w] /\ leases'[w] = leases[w]
      /\ \A w \in WorkIds : Expired(w) =>
            /\ leases[w] # NoLease /\ now >= leases[w].expires
            /\ leases'[w] = NoLease
            /\ status'[w] = IF items[w].irreversible
                            THEN "RECONCILIATION_REQUIRED" ELSE "READY"
      /\ UNCHANGED <<items, results, fencing, now, grants, backup, reused>>
  BY DEF Reconcile, Expired
<1>2. TypeOK'
  BY DEF QueueInv, TypeOK, Reconcile, Status
<1>3. ItemsFiled' /\ DictionariesAgree'
  BY <1>1 DEF QueueInv, ItemsFiled, DictionariesAgree
<1>4. LeaseIsGrant' /\ GrantsFenced' /\ NewestLeaseOnFile'
  BY <1>1 DEF QueueInv, LeaseIsGrant, GrantsFenced, NewestLeaseOnFile
<1>5. LiveGrantsCurrent'
  <2> SUFFICES ASSUME NEW h \in grants, h.work_id \notin reused, now < h.expires
               PROVE  \/ leases'[h.work_id] = h
                      \/ /\ results[h.work_id] # NoResult
                         /\ results[h.work_id].token = h.token
    BY <1>1 DEF LiveGrantsCurrent
  <2>1. h.work_id \in WorkIds /\ h \in LeaseType /\ now \in Nat
    BY DEF QueueInv, TypeOK
  <2>2. CASE leases[h.work_id] = h
    BY <1>1, <2>1, <2>2
  <2> QED
    BY <2>2 DEF QueueInv, LiveGrantsCurrent
<1>6. ResultFromNewestLease' /\ IrreversibleLeasedOnce'
  BY <1>1 DEF QueueInv, ResultFromNewestLease, IrreversibleLeasedOnce
<1>7. IrreversibleNotRequeued'
  BY <1>1 DEF QueueInv, TypeOK, IrreversibleNotRequeued
<1> QED
  BY <1>2, <1>3, <1>4, <1>5, <1>6, <1>7 DEF QueueInv

\* Time passing can only end leases.
LEMMA TickPreserves ==
  ASSUME QueueInv, Tick
  PROVE  QueueInv'
<1>1. TypeOK' /\ ItemsFiled' /\ DictionariesAgree'
  BY DEF QueueInv, Tick, TypeOK, ItemsFiled, DictionariesAgree
<1>2. LeaseIsGrant' /\ GrantsFenced' /\ NewestLeaseOnFile' /\ ResultFromNewestLease'
  BY DEF QueueInv, Tick, LeaseIsGrant, GrantsFenced, NewestLeaseOnFile,
         ResultFromNewestLease
<1>3. LiveGrantsCurrent'
  BY DEF QueueInv, TypeOK, Tick, LiveGrantsCurrent
<1>4. IrreversibleNotRequeued' /\ IrreversibleLeasedOnce'
  BY DEF QueueInv, Tick, IrreversibleNotRequeued, IrreversibleLeasedOnce
<1> QED
  BY <1>1, <1>2, <1>3, <1>4 DEF QueueInv

\* Every step of an uninterrupted queue keeps the invariant.
LEMMA QueueStep ==
  ASSUME QueueInv, [Next]_vars
  PROVE  QueueInv'
<1>1. CASE \E item \in Items : Submit(item)
  BY <1>1, SubmitPreserves
<1>2. CASE \E w \in WorkIds, worker \in Workers, d \in Durations : Lease(w, worker, d)
  BY <1>2, LeasePreserves
<1>3. CASE \E g \in grants : WorkerStep(g)
  BY <1>3, HeartbeatPreserves, CompletePreserves DEF WorkerStep
<1>4. CASE Reconcile
  BY <1>4, ReconcilePreserves
<1>5. CASE Tick
  BY <1>5, TickPreserves
<1>6. CASE UNCHANGED vars
  BY <1>6 DEF vars, QueueInv, TypeOK, ItemsFiled, DictionariesAgree,
     LeaseIsGrant, GrantsFenced, LiveGrantsCurrent, NewestLeaseOnFile,
     ResultFromNewestLease, IrreversibleNotRequeued, IrreversibleLeasedOnce
<1> QED
  BY <1>1, <1>2, <1>3, <1>4, <1>5, <1>6 DEF Next

\* The inductive invariant of one life of the queue.
THEOREM QueueInvariance == Spec => []QueueInv
<1>1. QueueInv /\ [Next]_vars => QueueInv'
  BY QueueStep
<1> QED
  BY QueueInit, <1>1, PTL DEF Spec

\* DurableWorkQueue keeps its types and its dictionaries in agreement.
THEOREM DictionariesStayInAgreement ==
  Spec => [](TypeOK /\ DictionariesAgree)
<1>1. QueueInv => TypeOK /\ DictionariesAgree
  BY DEF QueueInv
<1> QED
  BY QueueInvariance, <1>1, PTL

\* lease(), heartbeat() and reconcile() never let two workers believe at the
\* same time that they hold an unexpired lease on one item.
THEOREM LeasesExclude == Spec => []MutualExclusion
<1>1. ASSUME QueueInv PROVE MutualExclusion
  <2> SUFFICES ASSUME NEW g \in grants, NEW h \in grants, g.work_id = h.work_id,
                      g.work_id \notin reused, now < g.expires, now < h.expires
               PROVE  g = h
    BY DEF MutualExclusion
  <2> DEFINE w == g.work_id
  <2>1. w \in WorkIds /\ g # NoLease /\ h # NoLease
    BY <1>1, NoEntryAssumption DEF QueueInv, TypeOK
  <2>2. CASE leases[w] = g
    BY <1>1, <2>1, <2>2 DEF QueueInv, LiveGrantsCurrent, DictionariesAgree
  <2>3. CASE results[w] # NoResult /\ results[w].token = g.token
    <3>1. leases[w] = NoLease
      BY <1>1, <2>1, <2>3 DEF QueueInv, DictionariesAgree
    <3>2. results[w].token = h.token
      BY <1>1, <2>1, <3>1 DEF QueueInv, LiveGrantsCurrent
    <3> QED
      BY <1>1, <2>3, <3>2 DEF QueueInv, GrantsFenced
  <2> QED
    BY <1>1, <2>2, <2>3 DEF QueueInv, LiveGrantsCurrent
<1> QED
  BY QueueInvariance, <1>1, PTL

\* complete() accepts a result under the newest fencing token only, and
\* reconcile() never requeues work that cannot be undone.
THEOREM FencingHolds ==
  Spec => [](ResultFromNewestLease /\ IrreversibleLeasedOnce)
<1>1. QueueInv => ResultFromNewestLease /\ IrreversibleLeasedOnce
  BY DEF QueueInv
<1> QED
  BY QueueInvariance, <1>1, PTL

\* reconcile() never puts irreversible work back in the queue, so it is leased at
\* most once in the life of a queue that is not restored.
THEOREM IrreversibleWorkLeasedOnce ==
  Spec => []IrreversibleLeasedOnce
  BY FencingHolds, PTL

\* A recorded result is never replaced.  Its item leaves COMPLETED only for
\* another item under its work_id, and that one is never COMPLETED.
THEOREM ResultsAreFinal == Spec => ResultsFinal
<1> DEFINE Kept(w) ==
             results[w] # NoResult =>
               /\ results'[w] = results[w]
               /\ status[w] = "COMPLETED" /\ items'[w] = items[w] =>
                    status'[w] = "COMPLETED"
               /\ status'[w] = "COMPLETED" => status[w] = "COMPLETED"
<1>1. ASSUME QueueInv, Next, NEW w \in WorkIds PROVE Kept(w)
  <2> SUFFICES ASSUME results[w] # NoResult PROVE Kept(w)
    OBVIOUS
  <2>1. status[w] = "COMPLETED" => leases[w] = NoLease /\ items[w] # NoItem
    BY <1>1 DEF QueueInv, DictionariesAgree
  <2>2. ASSUME NEW item \in Items, Submit(item) PROVE Kept(w)
    <3>1. CASE item.work_id = w
      <4>1. items'[w] = item /\ status'[w] = "READY" /\ UNCHANGED results
        BY <1>1, <2>2, <3>1 DEF Submit, QueueInv, TypeOK
      <4>2. ~(status[w] = "COMPLETED" /\ items[w] = item)
        BY <2>1, <2>2 DEF Submit, KeyTaken
      <4> QED BY <4>1, <4>2
    <3>2. CASE item.work_id # w
      <4>1. UNCHANGED <<items[w], status[w], results>>
        BY <1>1, <2>2, <3>2 DEF Submit, QueueInv, TypeOK
      <4> QED BY <4>1
    <3> QED BY <3>1, <3>2
  <2>3. ASSUME NEW v \in WorkIds, NEW worker \in Workers, NEW d \in Durations,
               Lease(v, worker, d)
        PROVE  Kept(w)
    BY <1>1, <2>3 DEF Lease, Grant, QueueInv, TypeOK
  <2>4. ASSUME NEW g \in grants, NEW d \in Durations, Heartbeat(g, d) PROVE Kept(w)
    BY <2>4 DEF Heartbeat
  <2>5. ASSUME NEW g \in grants, NEW o \in Outcomes, Complete(g, o) PROVE Kept(w)
    <3>1. g.work_id # w
      BY <2>5 DEF Complete
    <3> QED BY <1>1, <2>5, <3>1 DEF Complete, QueueInv, TypeOK
  <2>6. ASSUME Reconcile PROVE Kept(w)
    BY <2>1, <2>6 DEF Reconcile, Expired
  <2>7. ASSUME Tick PROVE Kept(w)
    BY <2>7 DEF Tick
  <2> QED
    BY <1>1, <2>2, <2>3, <2>4, <2>5, <2>6, <2>7 DEF Next, WorkerStep
<1>2. QueueInv /\ [Next]_vars => [\A w \in WorkIds : Kept(w)]_vars
  BY <1>1
<1> QED
  BY QueueInvariance, <1>2, PTL DEF Spec, ResultsFinal

----------------------------------------------------------------------------
(* What survives a restore: the queue, in force or in the backup, is        *)
(* consistent in itself, although it knows nothing of the grants any more.  *)

QueueOK(its, sts, lss, rss, fence, again) ==
  \A w \in WorkIds :
    /\ its[w] # NoItem => its[w].work_id = w
    /\ its[w] = NoItem <=> sts[w] = "ABSENT"
    /\ its[w] = NoItem => lss[w] = NoLease /\ rss[w] = NoResult
    /\ sts[w] = "LEASED" => lss[w] # NoLease
    /\ sts[w] = "COMPLETED" => rss[w] # NoResult /\ lss[w] = NoLease
    /\ w \notin again =>
         /\ lss[w] # NoLease => sts[w] = "LEASED"
         /\ rss[w] # NoResult => sts[w] = "COMPLETED"
    /\ lss[w] # NoLease =>
         /\ lss[w].token <= fence
         /\ \A v \in WorkIds :
              lss[v] # NoLease /\ lss[w].token = lss[v].token => w = v

RestoreInv ==
  /\ TypeOK
  /\ QueueOK(items, status, leases, results, fencing, reused)
  /\ backup # NoBackup =>
       QueueOK(backup.items, backup.status, backup.leases, backup.results,
               backup.fencing, reused)

\* Every step of a queue that may be restored keeps the weaker invariant.
LEMMA RestoreInvStep ==
  ASSUME RestoreInv, [RestoreNext]_vars
  PROVE  RestoreInv'
<1>1. ASSUME NEW item \in Items, Submit(item) PROVE RestoreInv'
  <2> DEFINE w == item.work_id
  <2>1. w \in WorkIds /\ item # NoItem
    BY ItemsAssumption, NoEntryAssumption
  <2>2. /\ items' = [items EXCEPT ![w] = item]
        /\ status' = [status EXCEPT ![w] = "READY"]
        /\ reused' = IF items[w] # NoItem THEN reused \cup {w} ELSE reused
        /\ UNCHANGED <<leases, results, fencing, now, grants, backup>>
    BY <1>1 DEF Submit, ReusedWith
  <2>3. w \notin reused' => leases[w] = NoLease /\ results[w] = NoResult
    BY <2>1, <2>2 DEF RestoreInv, QueueOK
  <2>4. TypeOK'
    BY <2>1, <2>2 DEF RestoreInv, TypeOK, Status
  <2>5. QueueOK(items, status, leases, results, fencing, reused)'
    BY <2>1, <2>2, <2>3 DEF RestoreInv, TypeOK, QueueOK
  <2>6. reused \subseteq reused'
    BY <2>2
  <2>7. backup # NoBackup =>
          QueueOK(backup.items, backup.status, backup.leases, backup.results,
                  backup.fencing, reused')
    BY <2>6 DEF RestoreInv, QueueOK
  <2> QED
    BY <2>2, <2>4, <2>5, <2>7 DEF RestoreInv
<1>2. ASSUME NEW w \in WorkIds, NEW worker \in Workers, NEW d \in Durations,
             Lease(w, worker, d)
      PROVE  RestoreInv'
  <2> DEFINE lease == [work_id |-> w, worker_id |-> worker,
                       token |-> fencing + 1, expires |-> now + d]
  <2>1. lease \in LeaseType /\ lease # NoLease
    BY DurationsAssumption, NoEntryAssumption DEF RestoreInv, TypeOK
  <2>2. /\ leases' = [leases EXCEPT ![w] = lease] /\ fencing' = fencing + 1
        /\ status' = [status EXCEPT ![w] = "LEASED"] /\ status[w] = "READY"
        /\ grants' = grants \cup {lease}
        /\ UNCHANGED <<items, results, now, backup, reused>>
    BY <1>2 DEF Lease, Grant
  <2>3. TypeOK'
    BY <2>1, <2>2 DEF RestoreInv, TypeOK, Status
  <2>4. QueueOK(items, status, leases, results, fencing, reused)'
    BY <2>1, <2>2 DEF RestoreInv, TypeOK, QueueOK
  <2> QED
    BY <2>2, <2>3, <2>4 DEF RestoreInv
<1>3. ASSUME NEW g \in grants, NEW d \in Durations, Heartbeat(g, d)
      PROVE  RestoreInv'
  <2> DEFINE w == g.work_id
             r == [leases[w] EXCEPT !.expires = now + d]
  <2>1. w \in WorkIds /\ leases[w] \in LeaseType /\ g \in LeaseType
    BY <1>3 DEF RestoreInv, TypeOK, Heartbeat, HoldsLease
  <2>2. /\ r \in LeaseType /\ r # NoLease /\ r.token = leases[w].token
        /\ [g EXCEPT !.expires = now + d] \in LeaseType
    BY <2>1, DurationsAssumption, NoEntryAssumption DEF RestoreInv, TypeOK
  <2>3. /\ leases' = [leases EXCEPT ![w] = r] /\ leases[w] # NoLease
        /\ grants' = (grants \ {g}) \cup {[g EXCEPT !.expires = now + d]}
        /\ UNCHANGED <<items, status, results, fencing, now, backup, reused>>
    BY <1>3, <2>1 DEF Heartbeat, HoldsLease, RestoreInv, TypeOK
  <2>4. TypeOK'
    BY <2>1, <2>2, <2>3 DEF RestoreInv, TypeOK
  <2>5. QueueOK(items, status, leases, results, fencing, reused)'
    BY <2>1, <2>2, <2>3 DEF RestoreInv, TypeOK, QueueOK
  <2> QED
    BY <2>3, <2>4, <2>5 DEF RestoreInv
<1>4. ASSUME NEW g \in grants, NEW o \in Outcomes, Complete(g, o)
      PROVE  RestoreInv'
  <2> DEFINE w == g.work_id
             r == [work_id |-> w, worker_id |-> g.worker_id, token |-> g.token,
                   outcome |-> o]
  <2>1. w \in WorkIds /\ r \in ResultType /\ r # NoResult /\ leases[w] # NoLease
    BY <1>4, NoEntryAssumption DEF RestoreInv, TypeOK, Complete, HoldsLease
  <2>2. /\ results' = [results EXCEPT ![w] = r]
        /\ status' = [status EXCEPT ![w] = "COMPLETED"]
        /\ leases' = [leases EXCEPT ![w] = NoLease]
        /\ UNCHANGED <<items, fencing, now, grants, backup, reused>>
    BY <1>4 DEF Complete
  <2>3. TypeOK'
    BY <2>1, <2>2 DEF RestoreInv, TypeOK, Status
  <2>4. QueueOK(items, status, leases, results, fencing, reused)'
    BY <2>1, <2>2 DEF RestoreInv, TypeOK, QueueOK
  <2> QED
    BY <2>2, <2>3, <2>4 DEF RestoreInv
<1>5. ASSUME Reconcile PROVE RestoreInv'
  <2>1. TypeOK'
    BY <1>5 DEF RestoreInv, TypeOK, Reconcile, Status
  <2>2. QueueOK(items, status, leases, results, fencing, reused)'
    BY <1>5 DEF RestoreInv, QueueOK, Reconcile, Expired
  <2> QED
    BY <1>5, <2>1, <2>2 DEF RestoreInv, Reconcile
<1>6. ASSUME Tick \/ UNCHANGED vars PROVE RestoreInv'
  BY <1>6 DEF RestoreInv, TypeOK, QueueOK, Tick, vars
<1>7. ASSUME Snapshot PROVE RestoreInv'
  <2>1. TypeOK'
    BY <1>7 DEF RestoreInv, TypeOK, Snapshot
  <2> QED
    BY <1>7, <2>1 DEF RestoreInv, QueueOK, Snapshot
<1>8. ASSUME Restore PROVE RestoreInv'
  <2>1. backup \in BackupType
    BY <1>8 DEF RestoreInv, TypeOK, Restore
  <2>2. TypeOK'
    BY <1>8, <2>1 DEF RestoreInv, TypeOK, Restore
  <2> QED
    BY <1>8, <2>1, <2>2 DEF RestoreInv, QueueOK, Restore
<1> QED
  BY <1>1, <1>2, <1>3, <1>4, <1>5, <1>6, <1>7, <1>8 DEF RestoreNext, Next, WorkerStep

\* Restoring an integrated snapshot leaves a queue whose dictionaries agree
\* and whose current tokens are distinct and below the (rewound) counter.
THEOREM RestoredQueueConsistent ==
  RestoreSpec => [](DictionariesAgree /\ TokensDistinct)
<1>1. Init => RestoreInv
  BY NoEntryAssumption DEF Init, RestoreInv, QueueOK, TypeOK, Status
<1>2. RestoreInv /\ [RestoreNext]_vars => RestoreInv'
  BY RestoreInvStep
<1>3. RestoreInv => DictionariesAgree /\ TokensDistinct
  BY DEF RestoreInv, QueueOK, DictionariesAgree, TokensDistinct
<1> QED
  BY <1>1, <1>2, <1>3, PTL DEF RestoreSpec

HIDE DEF ItemType, LeaseType, ResultType, BackupType

----------------------------------------------------------------------------
(* SystemState *)

\* The scopes are told apart by their first part.
LEMMA ScopesDiffer ==
  /\ \A t, x : TenantScope(t) # Capability(x) /\ TenantScope(t) # Model(x) /\ TenantScope(t) # SkillScope(x)
  /\ \A t, u : TenantScope(t) = TenantScope(u) => t = u
  BY DEF TenantScope, Capability, Model, SkillScope

\* An operation permitted is of no scope that is switched off.
LEMMA PermittedScopes ==
  ASSUME NEW scopes, Permitted(scopes)
  PROVE  Global \notin switches /\ \A s \in scopes : s \notin switches
  BY DEF Permitted

\* The gates of DNCSystem look at the global switch and the tenant's.
LEMMA RequiredScopes ==
  ASSUME NEW scopes, RequirePermitted(scopes)
  PROVE  Global \notin switches /\ TenantScope(ActiveTenant) \notin switches
  BY PermittedScopes DEF RequirePermitted

\* Every piece of work is done for one tenant, whose switch and the global one
\* are on.
LEMMA WorkPermitted ==
  ASSUME NEW w \in Work
  PROVE  /\ Global \notin switches
         /\ \A t : TenantScope(t) \in w => TenantScope(t) \notin switches
<1> DEFINE Goal == /\ Global \notin switches
                   /\ \A t : TenantScope(t) \in w => TenantScope(t) \notin switches
<1>1. CASE w \in SelectCapability \cup ExecuteNeural \cup SelectLearned
  <2>1. PICK scopes, c : /\ RequirePermitted(scopes)
                         /\ w \subseteq {TenantScope(ActiveTenant), Capability(c), Model(c)}
    BY <1>1 DEF SelectCapability, ExecuteNeural, SelectLearned
  <2> QED BY <2>1, RequiredScopes, ScopesDiffer
<1>2. CASE w \in VerifyClaim \cup RetrieveMemory
  <2>1. PICK t, scopes : w = {TenantScope(t)} /\ TenantScope(t) \in scopes /\ Permitted(scopes)
    BY <1>2 DEF VerifyClaim, RetrieveMemory
  <2> QED BY <2>1, PermittedScopes, ScopesDiffer
<1>3. CASE w = {TenantScope(ActiveTenant)} /\ \E scopes : RequirePermitted(scopes)
  BY <1>3, RequiredScopes, ScopesDiffer
<1>4. ASSUME NEW c, NEW skills, NEW scopes, mind # NoSystemState, RequirePermitted(scopes),
             w = {TenantScope(mind.tenant), Capability(c)} \cup {SkillScope(s) : s \in skills}
      PROVE  Goal
  <2>1. ActiveTenant = mind.tenant
    BY <1>4 DEF ActiveTenant
  <2>2. \A t : TenantScope(t) \in w => TenantScope(t) = TenantScope(mind.tenant)
    BY <1>4, ScopesDiffer
  <2> QED BY <1>4, <2>1, <2>2, RequiredScopes
<1>5. CASE w \in {{TenantScope(mind.tenant), Capability(x[2])} \cup {SkillScope(s) : s \in x[1]} :
              x \in {x \in (SUBSET Skills) \X Caps : SynthesisOpen(x[1], x[2])}}
  <2>1. PICK x \in (SUBSET Skills) \X Caps :
          /\ SynthesisOpen(x[1], x[2])
          /\ w = {TenantScope(mind.tenant), Capability(x[2])} \cup {SkillScope(s) : s \in x[1]}
    BY <1>5
  <2> QED BY <2>1, <1>4 DEF SynthesisOpen
<1>6. CASE ApplyOpen /\ w = {TenantScope(mind.tenant), Capability(proposed.capability)}
                              \cup {SkillScope(s) : s \in proposed.skills}
  BY <1>4, <1>6 DEF ApplyOpen
<1>7. \/ w \in SelectCapability \cup ExecuteNeural \cup SelectLearned \cup VerifyClaim \cup RetrieveMemory
      \/ w \in DecideInference
      \/ w = {TenantScope(ActiveTenant)} /\ (ControlOpen \/ CycleOpen \/ RepairOpen)
      \/ w \in {{TenantScope(mind.tenant), Capability(x[2])} \cup {SkillScope(s) : s \in x[1]} :
                 x \in {x \in (SUBSET Skills) \X Caps : SynthesisOpen(x[1], x[2])}}
      \/ ApplyOpen /\ w = {TenantScope(mind.tenant), Capability(proposed.capability)}
                              \cup {SkillScope(s) : s \in proposed.skills}
  BY Zenon DEF Work
<1>8. CASE w \in DecideInference \/ (w = {TenantScope(ActiveTenant)} /\ (ControlOpen \/ CycleOpen \/ RepairOpen))
  BY <1>8, <1>3 DEF DecideInference, ControlOpen, CycleOpen, RepairOpen
<1> QED BY <1>1, <1>2, <1>5, <1>6, <1>7, <1>8

\* The switches stop every entry point in every state.
LEMMA SwitchesAlwaysStop == SwitchesStopAll
<1>1. Global \in switches => Work = {}
  BY WorkPermitted
<1> QED BY <1>1, WorkPermitted DEF SwitchesStopAll

\* The parts a system begins with.
LEMMA SystemInitial == SystemInit => SystemTypeOK
  BY DEF SystemInit, SystemTypeOK, Parts, PartsType

\* A snapshot's parts, taken over, are the parts of a system.
LEMMA Assigned ==
  ASSUME NEW parts \in PartsType, Assign(parts)
  PROVE  Parts' = parts
  BY DEF PartsType, Assign, Parts

\* What a restore leaves: every part of the snapshot, its graph alone, or nothing
\* changed.
LEMMA RestoredParts ==
  ASSUME SystemTypeOK, NEW s \in captured
  PROVE  /\ AfterRestore(s) \in PartsType
         /\ \/ AfterRestore(s) = Parts
            \/ AfterRestore(s) = s.parts /\ s.whole /\ s.damaged = {}
            \/ /\ ~s.whole /\ "graph" \notin s.damaged
               /\ AfterRestore(s) = [Parts EXCEPT !.graph = s.parts.graph, !.mind = NoSystemState]
<1>1. /\ s \in [parts : PartsType, whole : BOOLEAN, damaged : SUBSET Checked]
      /\ Parts \in PartsType
  BY DEF SystemTypeOK
<1>2. s.parts \in PartsType
  BY <1>1
<1>3. ASSUME NEW p \in PartsType, NEW g \in Nat
      PROVE  [p EXCEPT !.graph = g, !.mind = NoSystemState] \in PartsType
  BY DEF PartsType
<1>4. s.parts.graph \in Nat
  BY <1>2 DEF PartsType
<1> QED BY <1>1, <1>2, <1>3, <1>4 DEF AfterRestore, Restored

\* Every step keeps the types.
LEMMA SystemStep == SystemTypeOK /\ [SystemNext]_systemVars => SystemTypeOK'
<1> SUFFICES ASSUME SystemTypeOK, [SystemNext]_systemVars PROVE SystemTypeOK'
  OBVIOUS
<1> DEFINE SnapshotType == [parts : PartsType, whole : BOOLEAN, damaged : SUBSET Checked]
           RepairType == [parts : PartsType, original : [tenant : Tenants, version : Nat]]
<1>1. /\ Parts \in PartsType /\ captured \subseteq SnapshotType
      /\ repairing # NoRepairOpen => repairing \in RepairType
  BY DEF SystemTypeOK
<1> DEFINE Typed == /\ Parts' \in PartsType /\ captured' \subseteq SnapshotType
                    /\ repairing' # NoRepairOpen => repairing' \in RepairType
<1>2. SUFFICES Typed
  BY DEF SystemTypeOK
<1>3. /\ graphAt \in Nat /\ mind \in [tenant : Tenants, version : Nat] \cup {NoSystemState}
      /\ online \subseteq Caps /\ stores \in [Stores -> Nat]
      /\ counters \in [{"cycles", "commits", "rollbacks"} -> Nat]
      /\ auditLog \subseteq RecordNames /\ switches \subseteq SwitchScopes
  BY <1>1 DEF Parts, PartsType
<1>4. ASSUME UNCHANGED <<captured, repairing>>,
             graphAt' \in Nat, mind' \in [tenant : Tenants, version : Nat] \cup {NoSystemState},
             online' \subseteq Caps, stores' \in [Stores -> Nat],
             counters' \in [{"cycles", "commits", "rollbacks"} -> Nat],
             auditLog' \subseteq RecordNames, switches' \subseteq SwitchScopes
      PROVE  Typed
  BY <1>1, <1>4 DEF Parts, PartsType
<1>5. ASSUME UNCHANGED partVars PROVE Parts' = Parts
  BY <1>5 DEF partVars, Parts
<1> HIDE DEF SnapshotType, RepairType
<1>24. ASSUME NEW m \in [tenant : Tenants, version : Nat]
      PROVE  [m EXCEPT !.version = @ + 1] \in [tenant : Tenants, version : Nat]
  <2>1. m.version + 1 \in Nat
    OBVIOUS
  <2> QED BY <2>1
<1>6. ASSUME NEW scope \in SwitchScopes, Switch(scope) PROVE switches' \subseteq SwitchScopes
  BY <1>3, <1>6 DEF Switch
<1>7. CASE \E scope \in SwitchScopes : Switch(scope)
  BY <1>3, <1>4, <1>6, <1>7 DEF Switch
<1>8. CASE ChangeMind
  <2>1. mind' \in [tenant : Tenants, version : Nat] \cup {NoSystemState}
    BY <1>3, <1>8, <1>24 DEF ChangeMind
  <2> QED BY <1>3, <1>4, <1>8, <2>1 DEF ChangeMind
<1>9. CASE SelectAction
  <2>1. mind' \in [tenant : Tenants, version : Nat]
    BY <1>3, <1>9, <1>24 DEF SelectAction, ControlOpen
  <2> QED BY <1>3, <1>4, <1>9, <2>1 DEF SelectAction
<1>10. CASE ApplyCandidate
  <2>1. counters' \in [{"cycles", "commits", "rollbacks"} -> Nat] /\ graphAt' \in Nat
    <3>1. \A c \in {"commits", "rollbacks"} : Count(c) \in [{"cycles", "commits", "rollbacks"} -> Nat]
      BY <1>3 DEF Count
    <3> QED BY <1>3, <1>10, <3>1 DEF ApplyCandidate
  <2> QED BY <1>3, <1>4, <1>10, <2>1 DEF ApplyCandidate
<1>11. CASE RunCycle
  <2>1. counters' \in [{"cycles", "commits", "rollbacks"} -> Nat] /\ graphAt' \in Nat
    BY <1>3, <1>11 DEF RunCycle
  <2> QED BY <1>3, <1>4, <1>11, <2>1 DEF RunCycle
<1>12. CASE \E s \in Stores : ChangeStore(s)
  BY <1>3, <1>4, <1>12 DEF ChangeStore
<1>13. CASE \E c \in Caps : ChangeCapability(c)
  BY <1>3, <1>4, <1>13 DEF ChangeCapability
<1>14. CASE \E c \in Caps, skills \in SUBSET Skills : Synthesize(skills, c)
  BY <1>1, <1>5, <1>14 DEF Synthesize
<1>15. CASE \E r \in RecordNames : AppendAudit(r)
  BY <1>3, <1>4, <1>15 DEF AppendAudit
<1>16. CASE \E expired \in SUBSET RecordNames \ {{}} : PurgeAudit(expired)
  BY <1>3, <1>4, <1>16 DEF PurgeAudit
<1>17. ASSUME NEW whole \in BOOLEAN, CaptureSnapshot(whole)
       PROVE  Typed
  <2>1. [parts |-> Parts, whole |-> whole, damaged |-> {}] \in SnapshotType
    BY <1>1 DEF SnapshotType
  <2> QED BY <1>1, <1>5, <1>17, <2>1 DEF CaptureSnapshot
<1>18. ASSUME NEW s \in captured, RestoreSnapshot(s)
       PROVE  Typed
  BY <1>1, <1>18, RestoredParts, Assigned DEF RestoreSnapshot
<1>19. ASSUME NEW s \in captured, NEW part \in Checked, DamageSnapshot(s, part)
       PROVE  Typed
  <2>1. [s EXCEPT !.damaged = @ \cup {part}] \in SnapshotType
    BY <1>1 DEF SnapshotType
  <2> QED BY <1>1, <1>5, <1>19, <2>1 DEF DamageSnapshot
<1>20. CASE BeginRepair
  <2>1. [parts |-> Parts, original |-> mind] \in RepairType
    BY <1>1, <1>3, <1>20 DEF RepairType, BeginRepair, RepairOpen
  <2> QED BY <1>1, <1>5, <1>20, <2>1 DEF BeginRepair
<1>21. CASE FinishRepair
  <2>1. repairing.original \in [tenant : Tenants, version : Nat]
    BY <1>1, <1>21 DEF FinishRepair, RepairType
  <2>2. mind' \in [tenant : Tenants, version : Nat]
    BY <1>21, <1>24, <2>1 DEF FinishRepair
  <2>3. Parts' \in PartsType
    BY <1>3, <1>21, <2>2 DEF FinishRepair, Parts, PartsType
  <2> QED BY <1>1, <1>21, <2>3 DEF FinishRepair
<1>22. CASE FailRepair
  <2>1. repairing.parts \in PartsType
    BY <1>1, <1>22 DEF FailRepair, RepairType
  <2> QED BY <1>1, <1>22, <2>1, Assigned DEF FailRepair
<1>23. CASE UNCHANGED systemVars
  BY <1>1, <1>5, <1>23 DEF systemVars
<1> QED BY <1>7, <1>8, <1>9, <1>10, <1>11, <1>12, <1>13, <1>14, <1>15, <1>16, <1>17, <1>18,
           <1>19, <1>20, <1>21, <1>22, <1>23 DEF SystemNext

\* Nothing goes back in a step that takes no part back.
LEMMA NothingGoesBack ==
  ASSUME SystemTypeOK,
         graphAt' \in {graphAt, graphAt + 1},
         \/ stores' = stores
         \/ \E s \in Stores : stores' = [stores EXCEPT ![s] = @ + 1],
         \A c \in DOMAIN counters : counters'[c] \in {counters[c], counters[c] + 1},
         auditLog \subseteq auditLog' \/ Parts' = [Parts EXCEPT !.audit = auditLog']
  PROVE  ~GoesBack
<1>1. /\ graphAt \in Nat /\ stores \in [Stores -> Nat]
      /\ counters \in [{"cycles", "commits", "rollbacks"} -> Nat]
  BY DEF SystemTypeOK, Parts, PartsType
<1>2. ~(graphAt' < graphAt)
  BY <1>1
<1>3. ~\E s \in Stores : stores'[s] < stores[s]
  BY <1>1
<1>4. ~\E c \in DOMAIN counters : counters'[c] < counters[c]
  BY <1>1
<1> QED BY <1>2, <1>3, <1>4 DEF GoesBack

\* Whatever goes back, goes back as one snapshot, or the snapshot of the repair.
LEMMA BackWhole ==
  ASSUME SystemTypeOK, SystemNext, GoesBack
  PROVE  \/ \E s \in captured : /\ s.whole /\ s.damaged = {}
                                /\ Parts' = s.parts
         \/ repairing # NoRepairOpen /\ Parts' = repairing.parts
         \/ \E s \in captured : /\ ~s.whole /\ "graph" \notin s.damaged /\ graphAt' = s.parts.graph
                                /\ <<online, stores, counters, auditLog, switches>>' =
                                     <<online, stores, counters, auditLog, switches>>
<1> DEFINE Whole ==
         \/ \E s \in captured : /\ s.whole /\ s.damaged = {}
                                /\ Parts' = s.parts
         \/ repairing # NoRepairOpen /\ Parts' = repairing.parts
         \/ \E s \in captured : /\ ~s.whole /\ "graph" \notin s.damaged /\ graphAt' = s.parts.graph
                                /\ <<online, stores, counters, auditLog, switches>>' =
                                     <<online, stores, counters, auditLog, switches>>
<1>1. /\ graphAt \in Nat /\ stores \in [Stores -> Nat]
      /\ counters \in [{"cycles", "commits", "rollbacks"} -> Nat]
      /\ Parts \in PartsType
  BY DEF SystemTypeOK, Parts, PartsType
<1>2. CASE graphAt' = graphAt /\ stores' = stores /\ counters' = counters
            /\ (auditLog \subseteq auditLog' \/ Parts' = [Parts EXCEPT !.audit = auditLog'])
  BY <1>2, NothingGoesBack
<1>3. CASE \/ \E scope \in SwitchScopes : Switch(scope)
           \/ ChangeMind \/ SelectAction \/ BeginRepair \/ FinishRepair
           \/ \E c \in Caps : \/ ChangeCapability(c)
                              \/ \E skills \in SUBSET Skills : Synthesize(skills, c)
           \/ \E r \in RecordNames : AppendAudit(r)
           \/ \E whole \in BOOLEAN : CaptureSnapshot(whole)
           \/ \E s \in captured, part \in Checked : DamageSnapshot(s, part)
  BY <1>2, <1>3 DEF Switch, ChangeMind, SelectAction, BeginRepair, FinishRepair, ChangeCapability,
                    Synthesize, AppendAudit, CaptureSnapshot, DamageSnapshot, partVars
<1>4. CASE \E expired \in SUBSET RecordNames \ {{}} : PurgeAudit(expired)
  <2>1. Parts' = [Parts EXCEPT !.audit = auditLog']
    BY <1>4 DEF PurgeAudit, Parts
  <2> QED BY <1>2, <1>4, <2>1 DEF PurgeAudit
<1>5. CASE ApplyCandidate
  <2>1. \A c \in DOMAIN counters : counters'[c] \in {counters[c], counters[c] + 1}
    BY <1>1, <1>5 DEF ApplyCandidate, Count
  <2> QED BY <1>5, <2>1, NothingGoesBack DEF ApplyCandidate
<1>6. CASE RunCycle
  <2>1. \A c \in DOMAIN counters : counters'[c] \in {counters[c], counters[c] + 1}
    BY <1>1, <1>6 DEF RunCycle
  <2> QED BY <1>6, <2>1, NothingGoesBack DEF RunCycle
<1>7. CASE \E s \in Stores : ChangeStore(s)
  BY <1>7, NothingGoesBack DEF ChangeStore
<1>8. ASSUME NEW s \in captured, RestoreSnapshot(s)
      PROVE  Whole
  <2>1. Parts' = AfterRestore(s)
    BY <1>8, RestoredParts, Assigned DEF RestoreSnapshot
  <2>2. CASE AfterRestore(s) = Parts
    BY <1>2, <2>1, <2>2 DEF Parts
  <2>3. CASE AfterRestore(s) = s.parts /\ s.whole /\ s.damaged = {}
    BY <2>1, <2>3
  <2>4. CASE /\ ~s.whole /\ "graph" \notin s.damaged
             /\ AfterRestore(s) = [Parts EXCEPT !.graph = s.parts.graph, !.mind = NoSystemState]
    <3>1. /\ Parts'.graph = s.parts.graph
          /\ Parts'.online = Parts.online /\ Parts'.stores = Parts.stores
          /\ Parts'.counters = Parts.counters /\ Parts'.audit = Parts.audit
          /\ Parts'.switches = Parts.switches
      BY <1>1, <2>1, <2>4 DEF PartsType
    <3> QED BY <2>4, <3>1 DEF Parts
  <2> QED BY <2>2, <2>3, <2>4, RestoredParts
<1>9. CASE FailRepair
  <2>1. repairing.parts \in PartsType
    BY <1>9 DEF FailRepair, SystemTypeOK
  <2> QED BY <1>9, <2>1, Assigned DEF FailRepair
<1> QED BY <1>3, <1>4, <1>5, <1>6, <1>7, <1>8, <1>9 DEF SystemNext

\* Whatever is captured, damaged, restored or repaired in between: a part of
\* DNCSystem goes back only together with every other, to one whole snapshot or
\* to where the open repair began, and no entry point works while the global
\* switch or that of its tenant is off.
THEOREM SystemIsSafe == SystemSpec => SystemSafety
<1>1. SystemSpec => []SystemTypeOK
  BY SystemInitial, SystemStep, PTL DEF SystemSpec
<1>2. SystemTypeOK /\ [SystemNext]_systemVars =>
        [GoesBack =>
           \/ \E s \in captured : /\ s.whole /\ s.damaged = {}
                                  /\ Parts' = s.parts
           \/ repairing # NoRepairOpen /\ Parts' = repairing.parts
           \/ \E s \in captured : /\ ~s.whole /\ "graph" \notin s.damaged /\ graphAt' = s.parts.graph
                                  /\ <<online, stores, counters, auditLog, switches>>' =
                                       <<online, stores, counters, auditLog, switches>>]_systemVars
  BY BackWhole
<1> QED BY <1>1, <1>2, SwitchesAlwaysStop, PTL DEF SystemSpec, SystemSafety, RestoreWhole

----------------------------------------------------------------------------
(* RecordedExecution *)

\* The grades by number.
LEMMA Ranks ==
  Rank("R2") = 2 /\ Rank("R3") = 3 /\ Rank("R4") = 4
<1> DEFINE Name(n) == <<"R0", "R1", "R2", "R3", "R4">>[n + 1]
<1>1. \A n \in 0 .. 4 : /\ "R2" = Name(n) <=> n = 2
                        /\ "R3" = Name(n) <=> n = 3
                        /\ "R4" = Name(n) <=> n = 4
  OBVIOUS
<1> HIDE DEF Name
<1>2. /\ (CHOOSE n \in 0 .. 4 : "R2" = Name(n)) = 2
      /\ (CHOOSE n \in 0 .. 4 : "R3" = Name(n)) = 3
      /\ (CHOOSE n \in 0 .. 4 : "R4" = Name(n)) = 4
  BY <1>1
<1> QED BY <1>2 DEF Rank, Name

\* A ledger is a function from some of the ids to entries.
LEMMA LedgerFunctions ==
  \A f : f \in Ledgers <=> DOMAIN f \subseteq EntryIds /\ f \in [DOMAIN f -> Entry]
<1>1. ASSUME NEW f, f \in Ledgers PROVE DOMAIN f \subseteq EntryIds /\ f \in [DOMAIN f -> Entry]
  BY <1>1 DEF Ledgers
<1>2. ASSUME NEW f, DOMAIN f \subseteq EntryIds, f \in [DOMAIN f -> Entry] PROVE f \in Ledgers
  BY <1>2 DEF Ledgers
<1> QED BY <1>1, <1>2

\* A cleanup has an id of its own.
LEMMA CleanupIds ==
  /\ \A d, e \in Effects : Cleanup(d) = Cleanup(e) => d = e
  /\ \A e \in Effects : Cleanup(e) \notin Effects /\ Cleanup(e) # Nothing
  BY BranchConstants DEF Cleanup

\* Nothing recorded, nothing captured.
LEMMA RecordInitial == RecordInit => RecordInv
<1> SUFFICES ASSUME RecordInit PROVE RecordInv
  OBVIOUS
<1>1. ledger \in Ledgers /\ DOMAIN ledger = {}
  BY LedgerFunctions DEF RecordInit
<1>2. captures \in Seq(Capturing) /\ Len(captures) = 0
  BY DEF RecordInit
<1> QED BY <1>1, <1>2, BranchConstants
    DEF RecordInit, RecordInv, RecordTypeOK, AnswersOnRecord, ManifestOfCapture, CleanupsFinal

\* The ledger takes an entry for an id it does not have, and no other.
LEMMA EntryAdded ==
  ASSUME RecordInv, NEW e \in Effects,
         AddEntry(e, [by |-> Nothing, reversible |-> Reversible[e], committed |-> TRUE])
  PROVE  /\ ledger' \in Ledgers
         /\ DOMAIN ledger \subseteq DOMAIN ledger'
         /\ \A i \in DOMAIN ledger : ledger'[i] = ledger[i]
         /\ \A i \in DOMAIN ledger' : i \in DOMAIN ledger \/ i = e
<1> DEFINE entry == [by |-> Nothing, reversible |-> Reversible[e], committed |-> TRUE]
<1>1. entry \in Entry
  BY BranchConstants DEF Entry
<1>2. DOMAIN ledger \subseteq EntryIds /\ ledger \in [DOMAIN ledger -> Entry]
  BY LedgerFunctions DEF RecordInv
<1>3. CASE UNCHANGED ledger
  BY <1>3 DEF RecordInv
<1>4. CASE (Present(e) => ledger[e] = entry) /\ PutEntry(e, entry)
  <2> HIDE DEF entry
  <2>1. DOMAIN ledger' = DOMAIN ledger \cup {e}
    BY <1>4 DEF PutEntry
  <2>2. \A i \in DOMAIN ledger' : ledger'[i] = IF i = e THEN entry ELSE ledger[i]
    BY <1>4 DEF PutEntry
  <2>3. ledger' = [i \in DOMAIN ledger' |-> ledger'[i]]
    BY <1>4, <2>1 DEF PutEntry
  <2>4. ledger' \in [DOMAIN ledger' -> Entry]
    BY <1>1, <1>2, <2>1, <2>2, <2>3
  <2>5. DOMAIN ledger' \subseteq EntryIds
    BY <1>2, <2>1 DEF EntryIds
  <2> QED BY <1>4, <2>1, <2>2, <2>4, <2>5, LedgerFunctions DEF Present
<1> QED BY <1>3, <1>4 DEF AddEntry

\* Reconciling writes what was to be cleaned up, and its cleanups.
LEMMA Reconciled ==
  ASSUME RecordInv, ReconcileEffects
  PROVE  /\ ledger' \in Ledgers
         /\ CleanupsFinal'
         /\ \A i \in DOMAIN ledger : ledger[i].by # Nothing => ledger'[i] = ledger[i]
         /\ Uncompensated' = {}
<1> DEFINE done == Uncompensated
           cleanups == {Cleanup(e) : e \in done}
<1>1. DOMAIN ledger \subseteq EntryIds /\ ledger \in [DOMAIN ledger -> Entry]
  BY LedgerFunctions DEF RecordInv
<1>2. done \subseteq Effects /\ done \subseteq DOMAIN ledger
  BY <1>1 DEF Uncompensated, RecordInv, CleanupsFinal, EntryIds
<1>3. cleanups \cap Effects = {} /\ cleanups \subseteq EntryIds
  BY <1>2, CleanupIds DEF EntryIds
<1>4. /\ DOMAIN ledger' = DOMAIN ledger \cup cleanups
      /\ ledger' = [i \in DOMAIN ledger' |-> ledger'[i]]
      /\ \A i \in cleanups : ledger'[i] = [by |-> Nothing, reversible |-> FALSE, committed |-> TRUE]
      /\ \A i \in done : ledger'[i] = [ledger[i] EXCEPT !.by = Cleanup(i)]
      /\ \A i \in DOMAIN ledger : i \notin cleanups \cup done => ledger'[i] = ledger[i]
  <2>1. ledger' = [i \in DOMAIN ledger \cup cleanups |->
                     IF i \in cleanups
                     THEN [by |-> Nothing, reversible |-> FALSE, committed |-> TRUE]
                     ELSE IF i \in done THEN [ledger[i] EXCEPT !.by = Cleanup(i)] ELSE ledger[i]]
    BY DEF ReconcileEffects
  <2> HIDE DEF done, cleanups
  <2> QED BY <1>2, <1>3, <2>1
<1>5. \A i \in done : ledger'[i] \in Entry /\ ledger'[i].by # Nothing
  <2> SUFFICES ASSUME NEW i \in done PROVE ledger'[i] \in Entry /\ ledger'[i].by # Nothing
    OBVIOUS
  <2>1. ledger[i] \in Entry /\ i \in Effects /\ Cleanup(i) # Nothing
    BY <1>1, <1>2, CleanupIds
  <2>2. ledger'[i] = [ledger[i] EXCEPT !.by = Cleanup(i)]
    BY <1>4
  <2> HIDE DEF done, cleanups
  <2> QED BY <2>1, <2>2 DEF Entry
<1>6. \A i \in cleanups : ledger'[i] \in Entry /\ ~ledger'[i].reversible /\ ledger'[i].by = Nothing
  <2> DEFINE entry == [by |-> Nothing, reversible |-> FALSE, committed |-> TRUE]
  <2>1. entry \in Entry
    BY DEF Entry
  <2>2. entry.by = Nothing /\ ~entry.reversible
    OBVIOUS
  <2>3. \A i \in cleanups : ledger'[i] = entry
    BY <1>4
  <2> HIDE DEF done, cleanups, entry
  <2> QED BY <2>1, <2>2, <2>3
<1>7. \A i \in DOMAIN ledger : i \notin done =>
        ~(ledger[i].committed /\ ledger[i].reversible /\ ledger[i].by = Nothing)
  BY DEF Uncompensated
<1> HIDE DEF done, cleanups
<1>8. ledger' \in Ledgers
  <2>1. \A i \in DOMAIN ledger' : ledger'[i] \in Entry
    BY <1>1, <1>4, <1>5, <1>6
  <2> QED BY <1>1, <1>3, <1>4, <2>1, LedgerFunctions
<1>9. CleanupsFinal'
  <2> SUFFICES ASSUME NEW e \in Effects, Cleanup(e) \in DOMAIN ledger'
               PROVE  ~ledger'[Cleanup(e)].reversible /\ ledger'[Cleanup(e)].by = Nothing
    BY DEF CleanupsFinal
  <2>1. Cleanup(e) \notin done
    BY <1>2, CleanupIds
  <2> QED BY <1>4, <1>6, <2>1 DEF RecordInv, CleanupsFinal
<1>10. ASSUME NEW i \in DOMAIN ledger, ledger[i].by # Nothing PROVE ledger'[i] = ledger[i]
  <2>1. i \notin done
    BY <1>10 DEF done, Uncompensated
  <2>2. i \notin {Cleanup(e) : e \in Effects}
    BY <1>10 DEF RecordInv, CleanupsFinal
  <2> QED BY <1>2, <1>4, <2>1, <2>2 DEF cleanups
<1>11. Uncompensated' = {}
  BY <1>4, <1>5, <1>6, <1>7 DEF Uncompensated
<1> QED BY <1>8, <1>9, <1>10, <1>11

\* What a capture copies.
LEMMA ContentTyped ==
  ASSUME RecordInv, NEW grade, NEW withRuntime \in BOOLEAN
  PROVE  Content(grade, withRuntime) \in CapturedContent
<1>1. [q \in Requests |-> Nothing] \in Recordings
  BY DEF Recordings
<1>2. [e \in {} |-> Nothing] \in Ledgers
  BY LedgerFunctions
<1>3. recordings \in Recordings /\ ledger \in Ledgers /\ branchGraph \in 0 .. MaxGraph
  BY DEF RecordInv, RecordTypeOK, Recordings
<1> QED BY <1>1, <1>2, <1>3 DEF Content, CapturedContent

\* A snapshot put together from captures has the types of one.
LEMMA LoadTyped ==
  ASSUME RecordInv, NEW i \in DOMAIN captures, NEW j \in DOMAIN captures, NEW k \in DOMAIN captures,
         NEW out \in Outputs \cup {Nothing}, NEW legacy \in BOOLEAN, Load(i, j, k, out, legacy)
  PROVE  ManifestOfCapture'
<1>1. captures[i] \in Capturing /\ captures[j] \in Capturing /\ captures[k] \in Capturing
  BY DEF RecordInv
<1>2. captures[j].hashed \in CapturedContent /\ captures[k].hashed \in CapturedContent
  BY <1>1 DEF Capturing
<1>3. Changed(captures[k].hashed.recordings, out) \in Recordings
  BY <1>2 DEF CapturedContent, Changed, Recordings
<1>4. stored' \in [manifest : Capturing, legacy : BOOLEAN, content : CapturedContent]
  <2> DEFINE content == [graph |-> captures[j].hashed.graph,
                         runtime |-> captures[j].hashed.runtime,
                         recordings |-> Changed(captures[k].hashed.recordings, out),
                         effects |-> captures[k].hashed.effects]
  <2>1. content \in CapturedContent
    BY <1>2, <1>3 DEF CapturedContent
  <2>2. stored' = [manifest |-> captures[i], legacy |-> legacy, content |-> content]
    BY DEF Load
  <2> QED BY <1>1, <2>1, <2>2
<1>5. stored'.manifest = captures[i] /\ captures' = captures
  BY DEF Load
<1> QED BY <1>4, <1>5 DEF ManifestOfCapture

\* Every step keeps the invariant and the cleanups, and only reconciling returns
\* from a cancellation.
LEMMA RecordStep ==
  ASSUME RecordInv, [RecordNext]_recordVars
  PROVE  /\ RecordInv'
         /\ \A e \in DOMAIN ledger : ledger[e].by # Nothing => ledger'[e] = ledger[e]
         /\ branch = "CANCELLED" /\ branch' = "IDLE" => Uncompensated' = {}
<1> DEFINE Kept == /\ RecordInv'
                   /\ \A e \in DOMAIN ledger : ledger[e].by # Nothing => ledger'[e] = ledger[e]
                   /\ branch = "CANCELLED" /\ branch' = "IDLE" => Uncompensated' = {}
<1>1. /\ RecordTypeOK /\ ledger \in Ledgers /\ captures \in Seq(Capturing)
      /\ AnswersOnRecord /\ ManifestOfCapture /\ CleanupsFinal
  BY DEF RecordInv
<1>2. ASSUME UNCHANGED <<stored, captures>> PROVE ManifestOfCapture'
  BY <1>1, <1>2 DEF ManifestOfCapture
<1>3. ASSUME UNCHANGED <<recordings, answered>> PROVE AnswersOnRecord'
  BY <1>1, <1>3 DEF AnswersOnRecord
<1>4. ASSUME UNCHANGED ledger PROVE CleanupsFinal' /\ ledger' \in Ledgers
  BY <1>1, <1>4 DEF CleanupsFinal
<1>5. ASSUME UNCHANGED <<recordings, answered, captures, stored, ledger>>, RecordTypeOK',
             ~(branch = "CANCELLED" /\ branch' = "IDLE")
      PROVE  Kept
  BY <1>1, <1>2, <1>3, <1>4, <1>5 DEF RecordInv
<1> SUFFICES Kept
  OBVIOUS
<1> HIDE DEF Kept
<1>6. CASE \/ \E mode \in ReplayModes : SetMode(mode)
           \/ Enter(DefaultAudit) \/ \E cancelled \in BOOLEAN : Leave(cancelled)
           \/ Advance \/ UNCHANGED recordVars
  <2>1. RecordTypeOK'
    BY <1>1, <1>6, BranchConstants DEF RecordTypeOK, SetMode, Enter, Leave, Advance, recordVars, replayVars, effectVars, snapshotVars
  <2> QED BY <1>5, <1>6, <2>1 DEF SetMode, Enter, Leave, Advance, recordVars, replayVars, effectVars, snapshotVars
<1>7. CASE RestoreGraph
  <2>1. stored.content.graph \in 0 .. MaxGraph
    BY <1>1, <1>7 DEF RestoreGraph, ManifestOfCapture, CapturedContent
  <2>2. branchGraph' \in 0 .. MaxGraph
    BY <1>7, <2>1 DEF RestoreGraph, RestoredGraph
  <2>3. RecordTypeOK'
    BY <1>1, <1>7, <2>2 DEF RecordTypeOK, RestoreGraph, replayVars, effectVars
  <2> QED BY <1>5, <1>7, <2>3 DEF RestoreGraph, replayVars, effectVars
<1>8. ASSUME NEW q \in Requests, NEW out \in Outputs, Execute(q, out)
      PROVE  Kept
  <2>1. RecordTypeOK'
    BY <1>1, <1>8 DEF RecordTypeOK, Execute, AddRecording, effectVars, snapshotVars
  <2>2. AnswersOnRecord'
    <3>1. CASE UNCHANGED <<recordings, answered>>
      BY <1>3, <3>1
    <3>2. CASE /\ recordings[q] \in {Nothing, out}
               /\ recordings' = [recordings EXCEPT ![q] = out]
               /\ answered' = answered \cup {<<q, out>>}
      <4>1. \A p \in Requests : recordings[p] \in Outputs => recordings'[p] = recordings[p]
        BY <1>1, <3>2, BranchConstants DEF RecordTypeOK
      <4>2. recordings'[q] = out
        BY <1>1, <3>2 DEF RecordTypeOK
      <4>3. ASSUME NEW call \in answered'
            PROVE  call \in Requests \X Outputs /\ recordings'[call[1]] = call[2]
        <5>1. CASE call = <<q, out>>
          BY <4>2, <5>1
        <5>2. CASE call \in answered
          <6>1. call[1] \in Requests /\ call[2] \in Outputs /\ recordings[call[1]] = call[2]
                /\ call \in Requests \X Outputs
            BY <1>1, <5>2 DEF AnswersOnRecord
          <6> QED BY <4>1, <6>1
        <5> QED BY <3>2, <5>1, <5>2
      <4> QED BY <4>3 DEF AnswersOnRecord
    <3> QED BY <1>8, <3>1, <3>2 DEF Execute, AddRecording
  <2> QED BY <1>1, <1>2, <1>4, <1>8, <2>1, <2>2 DEF Kept, RecordInv, Execute, effectVars, snapshotVars
<1>9. ASSUME NEW e \in Effects,
             AddEntry(e, [by |-> Nothing, reversible |-> Reversible[e], committed |-> TRUE]),
             UNCHANGED <<branch, replayVars, snapshotVars>>, keys' \in [Effects -> Payloads \cup {Nothing}]
      PROVE  Kept
  <2>1. CleanupsFinal'
    <3> SUFFICES ASSUME NEW d \in Effects, Cleanup(d) \in DOMAIN ledger'
                 PROVE  ~ledger'[Cleanup(d)].reversible /\ ledger'[Cleanup(d)].by = Nothing
      BY DEF CleanupsFinal
    <3>1. Cleanup(d) \in DOMAIN ledger
      BY <1>9, EntryAdded, CleanupIds
    <3> QED BY <1>1, <1>9, <3>1, EntryAdded DEF CleanupsFinal
  <2>2. RecordTypeOK'
    BY <1>1, <1>9 DEF RecordTypeOK, replayVars, snapshotVars
  <2>3. ledger' \in Ledgers /\ \A i \in DOMAIN ledger : ledger'[i] = ledger[i]
    BY <1>9, EntryAdded
  <2>4. UNCHANGED <<stored, captures, recordings, answered, branch>>
    BY <1>9 DEF replayVars, snapshotVars
  <2> QED BY <1>1, <1>2, <1>3, <2>1, <2>2, <2>3, <2>4 DEF Kept, RecordInv
<1>10. ASSUME NEW e \in Effects, Report(e) PROVE Kept
  BY <1>1, <1>9, <1>10 DEF Report, RecordTypeOK
<1>11. ASSUME NEW e \in Effects, NEW payload \in Payloads, Perform(e, payload) PROVE Kept
  <2>1. CASE UNCHANGED <<keys, ledger>>
    <3>1. RecordTypeOK'
      BY <1>1, <1>11, <2>1 DEF RecordTypeOK, Perform, replayVars, snapshotVars
    <3> QED BY <1>5, <1>11, <2>1, <3>1 DEF Perform, replayVars, snapshotVars
  <2>2. CASE /\ keys' = [keys EXCEPT ![e] = payload]
             /\ AddEntry(e, [by |-> Nothing, reversible |-> Reversible[e], committed |-> TRUE])
    <3>1. keys' \in [Effects -> Payloads \cup {Nothing}]
      BY <1>1, <2>2 DEF RecordTypeOK
    <3> QED BY <1>9, <1>11, <2>2, <3>1 DEF Perform
  <2> QED BY <1>11, <2>1, <2>2 DEF Perform
<1>12. CASE ReconcileEffects
  <2>1. RecordTypeOK'
    BY <1>1, <1>12 DEF RecordTypeOK, ReconcileEffects, replayVars, snapshotVars
  <2>2. UNCHANGED <<stored, captures, recordings, answered>>
    BY <1>12 DEF ReconcileEffects, replayVars, snapshotVars
  <2> QED BY <1>1, <1>2, <1>3, <1>12, <2>1, <2>2, Reconciled DEF Kept, RecordInv
<1>13. ASSUME NEW grade \in {"R2", "R3"}, NEW withRuntime \in RuntimeKept, Capture(grade, withRuntime)
       PROVE  Kept
  <2> DEFINE new == [grade |-> grade, hashed |-> Content(grade, withRuntime)]
  <2>1. new \in Capturing
    BY ContentTyped, BranchConstants DEF Capturing
  <2>2. captures' = Append(captures, new) /\ Len(captures) < MaxCaptures
    BY <1>13 DEF Capture
  <2> HIDE DEF new
  <2>3. /\ captures' \in Seq(Capturing) /\ Len(captures') = Len(captures) + 1
        /\ \A i \in DOMAIN captures : i \in DOMAIN captures' /\ captures'[i] = captures[i]
    BY <1>1, <2>1, <2>2
  <2>4. UNCHANGED <<branchGraph, stored, replayVars, effectVars>>
    BY <1>13 DEF Capture
  <2>5. ManifestOfCapture'
    BY <1>1, <2>3, <2>4 DEF ManifestOfCapture
  <2>6. RecordTypeOK'
    BY <1>1, <2>2, <2>3, <2>4, BranchConstants DEF RecordTypeOK, replayVars, effectVars
  <2> QED BY <1>1, <1>3, <1>4, <2>3, <2>4, <2>5, <2>6 DEF Kept, RecordInv, replayVars, effectVars
<1>14. ASSUME NEW i \in DOMAIN captures, NEW j \in DOMAIN captures, NEW k \in DOMAIN captures,
              NEW out \in Outputs \cup {Nothing}, NEW legacy \in BOOLEAN, Load(i, j, k, out, legacy)
       PROVE  Kept
  <2>1. ManifestOfCapture'
    BY <1>14, LoadTyped
  <2>2. UNCHANGED <<branchGraph, captures, replayVars, effectVars>>
    BY <1>14 DEF Load
  <2>3. RecordTypeOK'
    BY <1>1, <2>2 DEF RecordTypeOK, replayVars, effectVars
  <2> QED BY <1>1, <1>3, <1>4, <2>1, <2>2, <2>3 DEF Kept, RecordInv, replayVars, effectVars
<1>15. RecordNext \/ UNCHANGED recordVars
  OBVIOUS
<1> QED BY <1>6, <1>7, <1>8, <1>10, <1>11, <1>12, <1>13, <1>14, <1>15 DEF RecordNext

\* A snapshot admitted for replay with recorded externals is the capture of its
\* manifest, field by field.
LEMMA AgreesByInvariant == RecordInv => ReplayAgrees
<1> SUFFICES ASSUME RecordInv PROVE ReplayAgrees
  OBVIOUS
<1>1. \A call \in answered : Replayed(call[1]) = call[2]
  BY DEF RecordInv, AnswersOnRecord, Replayed
<1>2. ASSUME stored # Nothing
      PROVE  /\ Admitted(stored, "R3") => \E i \in DOMAIN captures : stored.content = captures[i].hashed
             /\ Admitted(stored, "R2") => RestoredGraph(stored) # Nothing
             /\ ~Admitted(stored, "R4")
  <2>1. /\ stored.manifest \in Capturing /\ stored.content \in CapturedContent
        /\ \E i \in DOMAIN captures : stored.manifest = captures[i]
    BY <1>2 DEF RecordInv, ManifestOfCapture
  <2>2. stored.manifest.grade \in {"R2", "R3"} /\ stored.manifest.hashed \in CapturedContent
    BY <2>1 DEF Capturing
  <2>3. Rank(stored.manifest.grade) \in {2, 3}
    BY <2>2, Ranks
  <2>4. ASSUME Admitted(stored, "R3") PROVE stored.content = stored.manifest.hashed
    <3>1. CoreIntact(stored) /\ ExternalsIntact(stored)
      BY <2>4, Ranks DEF Admitted
    <3> QED BY <2>1, <2>2, <3>1 DEF CoreIntact, ExternalsIntact, CapturedContent
  <2>5. ASSUME Admitted(stored, "R2") PROVE RestoredGraph(stored) # Nothing
    <3>1. CoreIntact(stored)
      BY <2>5, Ranks DEF Admitted
    <3> QED BY <2>1, <3>1, BranchConstants DEF RestoredGraph, CapturedContent
  <2> QED BY <2>1, <2>3, <2>4, <2>5, Ranks DEF Admitted
<1> QED BY <1>1, <1>2 DEF ReplayAgrees

\* Of a recorded branch: replay returns what the branch was answered, a snapshot
\* is admitted with its externals only as the capture it says it is, and an
\* effect that was cleaned up keeps its one cleanup.
THEOREM RecordIsFaithful == RecordSpec => RecordSafety
<1>1. RecordInv /\ [RecordNext]_recordVars => RecordInv'
  BY RecordStep
<1>2. RecordInv => RecordTypeOK
  BY DEF RecordInv
<1>3. RecordInv /\ [RecordNext]_recordVars =>
        [/\ \A e \in DOMAIN ledger : ledger[e].by # Nothing => ledger'[e] = ledger[e]
         /\ branch = "CANCELLED" /\ branch' = "IDLE" => Uncompensated' = {}]_recordVars
  BY RecordStep
<1> QED BY RecordInitial, AgreesByInvariant, <1>1, <1>2, <1>3, PTL
    DEF RecordSpec, RecordSafety, CleanedUpOnce

----------------------------------------------------------------------------
(* KnowledgeBase *)

\* The natural numbers are well-ordered.
LEMMA NatLeast ==
  ASSUME NEW T \in SUBSET Nat, T # {}
  PROVE  \E x \in T : \A y \in T : x <= y
<1> DEFINE R == {ss \in Nat \X Nat : ss[1] < ss[2]}
<1>1. IsWellFoundedOn(R, Nat)
  BY NatLessThanWellFounded, Zenon DEF OpToRel
<1> HIDE DEF R
<1>2. PICK x \in T : \A y \in T : ~ (<<y, x>> \in R)
  BY <1>1, WFMin
<1>3. ASSUME NEW y \in T PROVE x <= y
  <2>1. <<y, x>> \notin R
    BY <1>2
  <2>2. x \in Nat /\ y \in Nat
    OBVIOUS
  <2>3. ~ (y < x)
    BY <2>1, <2>2 DEF R
  <2> QED BY <2>2, <2>3
<1> QED BY <1>3

(* The bisection. *)

\* The states of the loop, and its body.
Probes(versions) ==
  [lo : 1 .. Len(versions) + 1, hi : 0 .. Len(versions), found : 0 .. MaxVersions, at : 0 .. MaxVersions]

Probe(versions, f, r) ==
  IF r.lo > r.hi THEN r
  ELSE LET mid == Halved(r.lo, r.hi)
           v == versions[mid]
       IN  IF Breaks(v)
           THEN f[[r EXCEPT !.hi = mid - 1, !.found = v, !.at = v]]
           ELSE f[[r EXCEPT !.lo = mid + 1, !.at = v]]

Start(versions) == [lo |-> 1, hi |-> Len(versions), found |-> NoVersion, at |-> kb.version]

\* Bisection is the loop from its first state.
LEMMA BisectionIs ==
  ASSUME NEW versions
  PROVE  Bisection(versions) =
           (CHOOSE f : f = [r \in Probes(versions) |-> Probe(versions, f, r)])[Start(versions)]
  BY DEF Bisection, Probes, Probe, Start

\* The next state of the loop.
Probed(versions, r) ==
  LET mid == Halved(r.lo, r.hi)
      v == versions[mid]
  IN  IF Breaks(v) THEN [r EXCEPT !.hi = mid - 1, !.found = v, !.at = v]
      ELSE [r EXCEPT !.lo = mid + 1, !.at = v]

\* The body goes on from the next state, or ends.
LEMMA ProbeByProbed ==
  ASSUME NEW versions, NEW f, NEW r
  PROVE  Probe(versions, f, r) = IF r.lo > r.hi THEN r ELSE f[Probed(versions, r)]
  BY DEF Probe, Probed

\* The middle lies between the ends.
LEMMA HalfWay ==
  ASSUME NEW lo \in Nat, NEW hi \in Nat, lo <= hi
  PROVE  Halved(lo, hi) \in lo .. hi
  BY DEF Halved

\* A probe moves one end past the middle, within the list.
LEMMA ProbedTyped ==
  ASSUME NEW versions \in Seq(1 .. MaxVersions), NEW r \in Probes(versions), r.lo <= r.hi
  PROVE  LET mid == Halved(r.lo, r.hi)
             n == Probed(versions, r)
         IN  /\ mid \in r.lo .. r.hi /\ mid \in DOMAIN versions
             /\ n \in Probes(versions)
             /\ n.at = versions[mid]
             /\ IF Breaks(versions[mid]) THEN n.lo = r.lo /\ n.hi = mid - 1 /\ n.found = versions[mid]
                ELSE n.lo = mid + 1 /\ n.hi = r.hi /\ n.found = r.found
             /\ n.hi - n.lo < r.hi - r.lo
<1> DEFINE mid == Halved(r.lo, r.hi)
           n == Probed(versions, r)
<1>1. r.lo \in 1 .. Len(versions) + 1 /\ r.hi \in 0 .. Len(versions) /\ Len(versions) \in Nat
  BY DEF Probes
<1>2. mid \in r.lo .. r.hi /\ mid \in DOMAIN versions
  <2>1. r.lo \in Nat /\ r.hi \in Nat
    BY <1>1
  <2>2. mid \in r.lo .. r.hi
    BY <2>1, HalfWay
  <2> HIDE DEF mid
  <2>3. mid \in 1 .. Len(versions)
    BY <1>1, <2>2
  <2> QED BY <2>2, <2>3
<1>3. versions[mid] \in 0 .. MaxVersions
  BY <1>2, KBConstants
<1>4. CASE Breaks(versions[mid])
  <2>1. n = [r EXCEPT !.hi = mid - 1, !.found = versions[mid], !.at = versions[mid]]
    BY <1>4 DEF Probed
  <2>2. mid - 1 \in 0 .. Len(versions)
    BY <1>1, <1>2
  <2> HIDE DEF mid, n
  <2>3. /\ n \in Probes(versions) /\ n.lo = r.lo /\ n.hi = mid - 1
        /\ n.found = versions[mid] /\ n.at = versions[mid]
    BY <1>3, <2>1, <2>2 DEF Probes
  <2> QED BY <1>1, <1>2, <1>4, <2>3 DEF mid, n
<1>5. CASE ~Breaks(versions[mid])
  <2>1. n = [r EXCEPT !.lo = mid + 1, !.at = versions[mid]]
    BY <1>5 DEF Probed
  <2>2. mid + 1 \in 1 .. Len(versions) + 1
    BY <1>1, <1>2
  <2> HIDE DEF mid, n
  <2>3. /\ n \in Probes(versions) /\ n.lo = mid + 1 /\ n.hi = r.hi
        /\ n.found = r.found /\ n.at = versions[mid]
    BY <1>3, <2>1, <2>2 DEF Probes
  <2> QED BY <1>1, <1>2, <1>5, <2>3 DEF mid, n
<1> QED BY <1>4, <1>5

\* The loop ends for every state, so there is a function that gives its result.
LEMMA SearchExists ==
  ASSUME NEW versions \in Seq(1 .. MaxVersions)
  PROVE  \E f : f = [r \in Probes(versions) |-> Probe(versions, f, r)]
<1> DEFINE Good(f, n) == /\ f \in [Probes(versions) -> Probes(versions)]
                         /\ \A r \in Probes(versions) : r.hi - r.lo < n => f[r] = Probe(versions, f, r)
           Unknown == {n \in Nat : ~\E f : Good(f, n)}
<1>1. \A r \in Probes(versions) : r.lo \in Nat /\ r.hi \in Nat /\ r.hi - r.lo < Len(versions) + 1
  BY DEF Probes
<1>2. \E f : Good(f, 0)
  <2> DEFINE same == [r \in Probes(versions) |-> r]
  <2>1. \A r \in Probes(versions) : r.hi - r.lo < 0 => same[r] = Probe(versions, same, r)
    BY <1>1, ProbeByProbed
  <2>2. same \in [Probes(versions) -> Probes(versions)]
    OBVIOUS
  <2> QED BY <2>1, <2>2
<1>3. ASSUME NEW n \in Nat, NEW f, Good(f, n) PROVE \E g : Good(g, n + 1)
  <2> DEFINE g == [r \in Probes(versions) |-> Probe(versions, f, r)]
  <2>1. \A r \in Probes(versions) : Probe(versions, f, r) \in Probes(versions)
    BY <1>1, <1>3, ProbeByProbed, ProbedTyped
  <2>2. g \in [Probes(versions) -> Probes(versions)]
    BY <2>1
  <2>3. ASSUME NEW r \in Probes(versions), r.hi - r.lo < n + 1
        PROVE  g[r] = Probe(versions, g, r)
    <3>1. g[r] = Probe(versions, f, r)
      OBVIOUS
    <3> HIDE DEF g
    <3>2. CASE r.lo > r.hi
      BY <3>1, <3>2, ProbeByProbed
    <3>3. CASE r.lo <= r.hi
      <4> DEFINE m == Probed(versions, r)
      <4>1. m \in Probes(versions) /\ m.hi - m.lo < r.hi - r.lo
        BY <3>3, ProbedTyped
      <4>2. m.hi - m.lo < n
        BY <1>1, <2>3, <4>1
      <4>3. g[m] = Probe(versions, f, m)
        BY <4>1 DEF g
      <4>4. g[m] = f[m]
        BY <1>3, <4>1, <4>2, <4>3
      <4> QED BY <1>1, <3>1, <3>3, <4>4, ProbeByProbed
    <3> QED BY <1>1, <3>2, <3>3
  <2> HIDE DEF g
  <2> QED BY <2>2, <2>3
<1> HIDE DEF Good
<1>4. Unknown = {}
  <2> SUFFICES ASSUME Unknown # {} PROVE FALSE
    OBVIOUS
  <2>1. PICK n \in Unknown : \A m \in Unknown : n <= m
    BY NatLeast
  <2>2. n # 0
    BY <1>2
  <2>3. n - 1 \in Nat /\ n - 1 \notin Unknown
    <3>1. n \in Nat
      OBVIOUS
    <3>2. n - 1 \in Nat /\ n - 1 < n
      BY <2>2, <3>1
    <3> QED BY <2>1, <3>2
  <2>4. PICK f : Good(f, n - 1)
    BY <2>3
  <2>5. \E g : Good(g, (n - 1) + 1)
    BY <1>3, <2>3, <2>4
  <2> QED BY <2>1, <2>5
<1>5. PICK f : Good(f, Len(versions) + 1)
  <2>1. Len(versions) + 1 \in Nat
    OBVIOUS
  <2>2. \A n \in Nat : \E f : Good(f, n)
    BY <1>4
  <2> QED BY <2>1, <2>2
<1>6. f \in [Probes(versions) -> Probes(versions)] /\ \A r \in Probes(versions) : f[r] = Probe(versions, f, r)
  BY <1>1, <1>5 DEF Good
<1>7. f = [r \in Probes(versions) |-> Probe(versions, f, r)]
  BY <1>6
<1> QED BY <1>7

\* So the function the loop defines satisfies its own equation.
LEMMA SearchEnds ==
  ASSUME NEW versions \in Seq(1 .. MaxVersions), kb.version \in 0 .. MaxVersions
  PROVE  \E f : /\ Bisection(versions) = f[Start(versions)]
                /\ \A r \in Probes(versions) :
                     f[r] = IF r.lo > r.hi THEN r ELSE f[Probed(versions, r)]
<1> DEFINE f == CHOOSE f : f = [r \in Probes(versions) |-> Probe(versions, f, r)]
<1>1. f = [r \in Probes(versions) |-> Probe(versions, f, r)]
  BY SearchExists
<1>2. Bisection(versions) = f[Start(versions)]
  BY BisectionIs
<1> HIDE DEF f
<1>3. \A r \in Probes(versions) : f[r] = Probe(versions, f, r)
  BY <1>1
<1> QED BY <1>2, <1>3, ProbeByProbed

\* What the loop keeps: the version before lo, when there is one, was probed
\* and is sound; the one after hi, when there is one, is what was found, and
\* breaks an invariant; and while none was found, the last one probed is the
\* one before lo.
Narrowed(versions, r) ==
  /\ r.lo <= r.hi + 1
  /\ \/ r.lo = 1 /\ r.hi = Len(versions)
     \/ \E i \in DOMAIN versions : r.at = versions[i]
  /\ r.lo > 1 => /\ r.lo - 1 \in DOMAIN versions
                 /\ ~Breaks(versions[r.lo - 1])
                 /\ r.found = NoVersion => r.at = versions[r.lo - 1]
  /\ \/ r.found = NoVersion /\ r.hi = Len(versions)
     \/ /\ r.hi + 1 \in DOMAIN versions /\ r.found = versions[r.hi + 1]
        /\ Breaks(r.found)

\* A probe keeps what is known of the versions next to lo and hi.
LEMMA ProbedNarrows ==
  ASSUME NEW versions \in Seq(1 .. MaxVersions), NEW r \in Probes(versions), r.lo <= r.hi,
         Narrowed(versions, r)
  PROVE  Narrowed(versions, Probed(versions, r))
<1> DEFINE mid == Halved(r.lo, r.hi)
           n == Probed(versions, r)
<1>1. /\ mid \in r.lo .. r.hi /\ mid \in DOMAIN versions /\ n.at = versions[mid]
      /\ IF Breaks(versions[mid]) THEN n.lo = r.lo /\ n.hi = mid - 1 /\ n.found = versions[mid]
         ELSE n.lo = mid + 1 /\ n.hi = r.hi /\ n.found = r.found
      /\ r.lo \in 1 .. Len(versions) + 1 /\ r.hi \in 0 .. Len(versions)
  BY ProbedTyped DEF Probes
<1>2. versions[mid] # NoVersion
  <2>1. mid \in 1 .. Len(versions)
    BY <1>1
  <2> HIDE DEF mid, n
  <2>2. versions[mid] \in 1 .. MaxVersions
    BY <2>1, ElementOfSeq
  <2> QED BY <2>2 DEF NoVersion
<1>3. CASE Breaks(versions[mid])
  <2>1. n.lo = r.lo /\ n.hi = mid - 1 /\ n.found = versions[mid] /\ n.hi + 1 = mid
    BY <1>1, <1>3
  <2> HIDE DEF n, mid
  <2>2. n.lo <= n.hi + 1
    BY <1>1, <2>1
  <2>3. n.lo > 1 => n.lo - 1 \in DOMAIN versions /\ ~Breaks(versions[n.lo - 1])
    BY <2>1 DEF Narrowed
  <2>4. Narrowed(versions, n)
    BY <1>1, <1>2, <1>3, <2>1, <2>2, <2>3 DEF Narrowed
  <2> QED BY <2>4 DEF n
<1>4. CASE ~Breaks(versions[mid])
  <2>1. n.lo = mid + 1 /\ n.hi = r.hi /\ n.found = r.found
    BY <1>1, <1>4
  <2> HIDE DEF n, mid
  <2>2. n.lo <= n.hi + 1 /\ n.lo - 1 = mid
    BY <1>1, <2>1
  <2>3. \/ n.found = NoVersion /\ n.hi = Len(versions)
        \/ /\ n.hi + 1 \in DOMAIN versions /\ n.found = versions[n.hi + 1]
           /\ Breaks(n.found)
    BY <2>1 DEF Narrowed
  <2>4. Narrowed(versions, n)
    BY <1>1, <1>4, <2>2, <2>3 DEF Narrowed
  <2> QED BY <2>4 DEF n
<1> QED BY <1>3, <1>4

\* The result of the loop, from every state that is narrowed.
LEMMA SearchNarrows ==
  ASSUME NEW versions \in Seq(1 .. MaxVersions), NEW f,
         \A r \in Probes(versions) : f[r] = IF r.lo > r.hi THEN r ELSE f[Probed(versions, r)]
  PROVE  \A r \in Probes(versions) : Narrowed(versions, r) =>
           f[r] \in Probes(versions) /\ f[r].lo > f[r].hi /\ Narrowed(versions, f[r])
<1> DEFINE Ends(r) == f[r] \in Probes(versions) /\ f[r].lo > f[r].hi /\ Narrowed(versions, f[r])
           Width(r) == IF r.lo > r.hi THEN 0 ELSE r.hi - r.lo + 1
           Wrong == {r \in Probes(versions) : Narrowed(versions, r) /\ ~Ends(r)}
           Widths == {Width(r) : r \in Wrong}
<1>1. \A r \in Probes(versions) : r.lo \in Nat /\ r.hi \in Nat
  BY DEF Probes
<1>2. \A r \in Probes(versions) : Width(r) \in Nat
  BY <1>1
<1> HIDE DEF Ends
<1>3. ASSUME NEW r \in Wrong
      PROVE  \E s \in Wrong : Width(s) < Width(r)
  <2>1. r \in Probes(versions) /\ Narrowed(versions, r) /\ ~Ends(r)
    OBVIOUS
  <2>2. ~(r.lo > r.hi)
    BY <1>1, <2>1 DEF Ends
  <2> DEFINE n == Probed(versions, r)
  <2>3. n \in Probes(versions) /\ n.hi - n.lo < r.hi - r.lo /\ Narrowed(versions, n)
    BY <1>1, <2>1, <2>2, ProbedTyped, ProbedNarrows
  <2>4. f[n] = f[r]
    BY <2>1, <2>2
  <2>5. ~Ends(n)
    BY <2>1, <2>4 DEF Ends
  <2> HIDE DEF n
  <2>6. Width(n) < Width(r)
    BY <1>1, <2>1, <2>2, <2>3
  <2> QED BY <2>3, <2>5, <2>6
<1>4. Wrong = {}
  <2> SUFFICES ASSUME Wrong # {} PROVE FALSE
    OBVIOUS
  <2>1. Widths \in SUBSET Nat /\ Widths # {}
    BY <1>2
  <2> HIDE DEF Widths
  <2>2. PICK w \in Widths : \A x \in Widths : w <= x
    BY <2>1, NatLeast
  <2>3. PICK r \in Wrong : w = Width(r)
    BY DEF Widths
  <2>4. PICK s \in Wrong : Width(s) < Width(r)
    BY <1>3
  <2>5. Width(s) \in Widths /\ Width(s) \in Nat /\ Width(r) \in Nat
    BY <1>2 DEF Widths
  <2> HIDE DEF Width, Wrong
  <2> QED BY <2>2, <2>3, <2>4, <2>5
<1> QED BY <1>4 DEF Ends

\* identify_violating_version over a list of versions: it answers nothing at a
\* last version that is sound, or a version that breaks an invariant and is the
\* first of the list or comes after one that is sound.
LEMMA BisectionFinds ==
  ASSUME NEW versions \in Seq(1 .. MaxVersions), versions # <<>>, kb.version \in 0 .. MaxVersions
  PROVE  LET end == Bisection(versions)
             last == Len(versions)
         IN  \/ /\ end.found = NoVersion /\ end.at = versions[last] /\ ~Breaks(versions[last])
             \/ \E i \in DOMAIN versions :
                  /\ end.found = versions[i] /\ Breaks(versions[i])
                  /\ i > 1 => i - 1 \in DOMAIN versions /\ ~Breaks(versions[i - 1])
<1> DEFINE end == Bisection(versions)
<1>1. PICK f : /\ end = f[Start(versions)]
               /\ \A r \in Probes(versions) :
                    f[r] = IF r.lo > r.hi THEN r ELSE f[Probed(versions, r)]
  BY SearchEnds
<1>2. Start(versions) \in Probes(versions) /\ Narrowed(versions, Start(versions))
  BY KBConstants DEF Start, Probes, Narrowed, NoVersion
<1>3. end \in Probes(versions) /\ end.lo > end.hi /\ Narrowed(versions, end)
  BY <1>1, <1>2, SearchNarrows
<1> HIDE DEF end
<1>4. /\ end.lo \in 1 .. Len(versions) + 1 /\ end.hi \in 0 .. Len(versions)
      /\ Len(versions) \in Nat /\ Len(versions) > 0 /\ DOMAIN versions = 1 .. Len(versions)
  BY <1>3 DEF Probes
<1>5. end.lo = end.hi + 1
  BY <1>3, <1>4 DEF Narrowed
<1>6. CASE end.found = NoVersion /\ end.hi = Len(versions)
  <2>1. end.lo - 1 = Len(versions) /\ end.lo > 1
    BY <1>4, <1>5, <1>6
  <2> QED BY <1>3, <1>6, <2>1 DEF Narrowed, end
<1>7. CASE end.hi + 1 \in DOMAIN versions /\ end.found = versions[end.hi + 1] /\ Breaks(end.found)
  <2>1. end.lo > 1 => end.lo - 1 \in DOMAIN versions /\ ~Breaks(versions[end.lo - 1])
    BY <1>3 DEF Narrowed
  <2> QED BY <1>5, <1>7, <2>1 DEF end
<1> QED BY <1>3, <1>6, <1>7 DEF Narrowed

\* What a knowledge base begins with.
LEMMA KBInitial == KBInit => KBInv
<1> SUFFICES ASSUME KBInit PROVE KBInv
  OBVIOUS
<1>1. [s \in Slots |-> Unset] \in Contents /\ MaxVersions \in Nat
  BY KBConstants DEF Contents
<1> QED BY <1>1 DEF KBInit, KBInv, KBTypeOK, SearchSound

\* What a search left stays true of versions that are added.
LEMMA SearchKept ==
  ASSUME KBInv, UNCHANGED searched, kbVersions' \in Seq(Contents),
         Len(kbVersions') >= Len(kbVersions),
         \A v \in DOMAIN kbVersions : kbVersions'[v] = kbVersions[v]
  PROVE  SearchSound'
<1> SUFFICES ASSUME searched # NotSearched
             PROVE  \E from, to \in DOMAIN kbVersions' :
               /\ from <= to /\ searched.asked = [i \in 1 .. to - from + 1 |-> from + i - 1]
               /\ \/ searched.found = NoVersion /\ ~Breaks(to)' /\ searched.at = to
                  \/ /\ searched.found \in from .. to /\ Breaks(searched.found)'
                     /\ searched.found # from =>
                          ~Breaks(searched.found - 1)' /\ searched.at = searched.found - 1
  BY DEF SearchSound
<1>1. PICK from \in DOMAIN kbVersions, to \in DOMAIN kbVersions :
        /\ from <= to /\ searched.asked = [i \in 1 .. to - from + 1 |-> from + i - 1]
        /\ \/ searched.found = NoVersion /\ ~Breaks(to) /\ searched.at = to
           \/ /\ searched.found \in from .. to /\ Breaks(searched.found)
              /\ searched.found # from =>
                   ~Breaks(searched.found - 1) /\ searched.at = searched.found - 1
  BY DEF KBInv, SearchSound
<1>2. kbVersions \in Seq(Contents)
  BY DEF KBInv, KBTypeOK
<1>3. from \in DOMAIN kbVersions' /\ to \in DOMAIN kbVersions'
  BY <1>1, <1>2
<1>4. \A v \in DOMAIN kbVersions : Breaks(v)' <=> Breaks(v)
  BY DEF Breaks
<1>5. CASE searched.found = NoVersion /\ ~Breaks(to) /\ searched.at = to
  BY <1>1, <1>3, <1>4, <1>5
<1>6. CASE /\ searched.found \in from .. to /\ Breaks(searched.found)
           /\ searched.found # from =>
                ~Breaks(searched.found - 1) /\ searched.at = searched.found - 1
  <2>1. /\ searched.found \in DOMAIN kbVersions
        /\ searched.found # from => searched.found - 1 \in DOMAIN kbVersions
    BY <1>1, <1>2, <1>6
  <2> QED BY <1>1, <1>3, <1>4, <1>6, <2>1
<1> QED BY <1>1, <1>5, <1>6

\* A commit adds what is held now after the newest version, or replaces one.
LEMMA CommitKeeps ==
  ASSUME KBInv, Commit
  PROVE  KBInv'
<1>1. /\ kb \in [version : 0 .. MaxVersions, holds : Contents]
      /\ kbVersions \in Seq(Contents) /\ Len(kbVersions) <= MaxVersions
      /\ kb.version <= Len(kbVersions) /\ kb.version < MaxVersions /\ MaxVersions \in Nat
      /\ DOMAIN kbVersions = 1 .. Len(kbVersions) /\ Len(kbVersions) \in Nat
  BY KBConstants DEF KBInv, KBTypeOK, Commit
<1>2. kb.version \in Nat /\ kb.holds \in Contents
  BY <1>1
<1>3. kb' \in [version : 0 .. MaxVersions, holds : Contents]
      /\ kb'.version = kb.version + 1 /\ kb'.holds = kb.holds
  <2>1. kb.version + 1 \in 0 .. MaxVersions
    BY <1>1, <1>2
  <2>2. kb' = [kb EXCEPT !.version = @ + 1]
    BY DEF Commit
  <2> QED BY <1>1, <2>1, <2>2
<1>4. CASE kb.version + 1 \in DOMAIN kbVersions
  <2>1. /\ kbVersions' = [kbVersions EXCEPT ![kb.version + 1] = kb.holds]
        /\ searched' = NotSearched
    BY <1>4 DEF Commit
  <2>2. kbVersions' \in Seq(Contents) /\ Len(kbVersions') = Len(kbVersions)
    BY <1>1, <1>2, <1>4, <2>1
  <2> QED BY <1>1, <1>2, <1>3, <1>4, <2>1, <2>2 DEF KBInv, KBTypeOK, SearchSound
<1>5. CASE kb.version + 1 \notin DOMAIN kbVersions
  <2>1. Len(kbVersions) = kb.version
    BY <1>1, <1>2, <1>5
  <2>2. kbVersions' = Append(kbVersions, kb.holds) /\ UNCHANGED searched
    BY <1>5 DEF Commit
  <2>3. /\ kbVersions' \in Seq(Contents) /\ Len(kbVersions') = kb.version + 1
        /\ \A v \in DOMAIN kbVersions : kbVersions'[v] = kbVersions[v]
    BY <1>1, <1>2, <2>1, <2>2
  <2>4. SearchSound'
    BY <1>1, <1>2, <2>1, <2>2, <2>3, SearchKept
  <2> QED BY <1>1, <1>2, <1>3, <2>3, <2>4 DEF KBInv, KBTypeOK
<1> QED BY <1>4, <1>5

\* The knowledge base goes back to a version that is stored.
LEMMA AtVersion ==
  ASSUME KBInv, NEW v \in DOMAIN kbVersions, kb' = At(v), UNCHANGED kbVersions
  PROVE  KBTypeOK'
<1>1. /\ kbVersions \in Seq(Contents) /\ Len(kbVersions) <= MaxVersions /\ MaxVersions \in Nat
      /\ v \in 1 .. Len(kbVersions)
  BY KBConstants DEF KBInv, KBTypeOK
<1>2. /\ kb' \in [version : 0 .. MaxVersions, holds : Contents]
      /\ kb'.version = v
  BY <1>1 DEF At
<1> QED BY <1>1, <1>2 DEF KBInv, KBTypeOK

\* The versions from one on, searched.
LEMMA SearchSets ==
  ASSUME KBInv, NEW from \in DOMAIN kbVersions,
         IdentifyViolatingVersion([i \in 1 .. Len(kbVersions) - from + 1 |-> from + i - 1])
  PROVE  KBInv'
<1> DEFINE n == Len(kbVersions)
           asked == [i \in 1 .. n - from + 1 |-> from + i - 1]
           end == Bisection(asked)
           left == IF end.found # NoVersion THEN BeforeCause(end.found) ELSE end.at
<1>1. /\ kbVersions \in Seq(Contents) /\ n <= MaxVersions /\ MaxVersions \in Nat
      /\ kb.version \in 0 .. MaxVersions /\ n \in Nat /\ from \in 1 .. n
      /\ DOMAIN kbVersions = 1 .. n
  BY KBConstants DEF KBInv, KBTypeOK
<1> HIDE DEF n
<1>2. /\ Len(asked) = n - from + 1 /\ asked \in Seq(1 .. MaxVersions) /\ asked # <<>>
      /\ DOMAIN asked = 1 .. n - from + 1
      /\ \A i \in DOMAIN asked : asked[i] = from + i - 1
  <2>1. \A i \in 1 .. n - from + 1 : from + i - 1 \in 1 .. MaxVersions
    BY <1>1
  <2> DEFINE k == n - from + 1
  <2>2. k \in Nat /\ k >= 1
    BY <1>1
  <2> HIDE DEF k
  <2>3. asked = [i \in 1 .. k |-> from + i - 1]
    BY DEF k
  <2>4. \A i \in 1 .. k : from + i - 1 \in 1 .. MaxVersions
    BY <2>1 DEF k
  <2>5. Len(asked) = k /\ asked \in Seq(1 .. MaxVersions) /\ asked # <<>> /\ DOMAIN asked = 1 .. k
        /\ \A i \in DOMAIN asked : asked[i] = from + i - 1
    <3> HIDE DEF asked
    <3>1. DOMAIN asked = 1 .. k /\ \A i \in 1 .. k : asked[i] = from + i - 1
      BY <2>3
    <3>2. asked \in [1 .. k -> 1 .. MaxVersions]
      BY <2>3, <2>4
    <3>3. asked \in Seq(1 .. MaxVersions)
      BY <2>2, <3>2, SeqDef
    <3>4. Len(asked) = k
      BY <2>2, <3>1, <3>3
    <3> QED BY <2>2, <3>1, <3>3, <3>4
  <2> QED BY <2>5 DEF k
<1> HIDE DEF asked
<1>3. \/ /\ end.found = NoVersion /\ end.at = asked[Len(asked)] /\ ~Breaks(asked[Len(asked)])
      \/ \E i \in DOMAIN asked :
           /\ end.found = asked[i] /\ Breaks(asked[i])
           /\ i > 1 => i - 1 \in DOMAIN asked /\ ~Breaks(asked[i - 1])
  BY <1>1, <1>2, BisectionFinds
<1>4. /\ kb' = At(left) /\ searched' = [asked |-> asked, found |-> end.found, at |-> left]
      /\ UNCHANGED <<kbVersions, breakerVars, kbClock>>
  BY DEF IdentifyViolatingVersion, asked, n
<1> HIDE DEF end
<1>5. /\ left \in DOMAIN kbVersions
      /\ \/ end.found = NoVersion /\ ~Breaks(n) /\ left = n
         \/ /\ end.found \in from .. n /\ Breaks(end.found)
            /\ end.found # from => ~Breaks(end.found - 1) /\ left = end.found - 1
  <2>1. CASE end.found = NoVersion /\ end.at = asked[Len(asked)] /\ ~Breaks(asked[Len(asked)])
    <3>1. Len(asked) \in DOMAIN asked /\ asked[Len(asked)] = n
      BY <1>1, <1>2
    <3> QED BY <1>1, <2>1, <3>1
  <2>2. CASE \E i \in DOMAIN asked :
               /\ end.found = asked[i] /\ Breaks(asked[i])
               /\ i > 1 => i - 1 \in DOMAIN asked /\ ~Breaks(asked[i - 1])
    <3>1. PICK i \in DOMAIN asked :
            /\ end.found = asked[i] /\ Breaks(asked[i])
            /\ i > 1 => i - 1 \in DOMAIN asked /\ ~Breaks(asked[i - 1])
      BY <2>2
    <3>2. /\ end.found = from + i - 1 /\ end.found \in from .. n /\ i \in 1 .. n - from + 1
          /\ end.found # NoVersion
      BY <1>1, <1>2, <3>1 DEF NoVersion
    <3>3. i > 1 => asked[i - 1] = end.found - 1 /\ end.found > 1
      <4>1. i > 1 => asked[i - 1] = from + (i - 1) - 1
        BY <1>2, <3>1
      <4>2. from \in Nat /\ i \in Nat /\ from >= 1
        BY <1>1, <3>2
      <4> QED BY <3>2, <4>1, <4>2
    <3>4. end.found # from => i > 1
      BY <1>1, <3>2
    <3> QED BY <1>1, <3>1, <3>2, <3>3, <3>4 DEF BeforeCause
  <2> QED BY <1>3, <2>1, <2>2
<1>6. KBTypeOK'
  BY <1>4, <1>5, AtVersion
<1>7. SearchSound'
  <2>1. from \in DOMAIN kbVersions' /\ n \in DOMAIN kbVersions' /\ from <= n
    BY <1>1, <1>4
  <2>2. \A v : Breaks(v)' <=> Breaks(v)
    BY <1>4 DEF Breaks
  <2>3. searched'.asked = asked /\ searched'.found = end.found /\ searched'.at = left
    BY <1>4
  <2>4. asked = [i \in 1 .. n - from + 1 |-> from + i - 1]
    BY DEF asked
  <2> HIDE DEF left
  <2> QED BY <1>4, <1>5, <2>1, <2>2, <2>3, <2>4 DEF SearchSound
<1> QED BY <1>6, <1>7 DEF KBInv

\* An update leaves contents of the keys there are.
LEMMA AppliedTyped ==
  ASSUME NEW holds \in Contents, NEW u \in Updates
  PROVE  Applied(holds, u) \in Contents
<1>1. PICK written \in SUBSET Slots : u \in [written -> Values]
  BY KBConstants
<1>2. \A s \in Slots : (IF s \in DOMAIN u THEN u[s] ELSE holds[s]) \in Values \cup {Unset}
  BY <1>1 DEF Contents
<1> QED BY <1>2 DEF Applied, Contents

\* Every step of the knowledge base.
LEMMA KBStep == KBInv /\ [KBNext]_kbVars => KBInv'
<1> SUFFICES ASSUME KBInv, [KBNext]_kbVars PROVE KBInv'
  OBVIOUS
<1>1. CASE Commit
  BY <1>1, CommitKeeps
<1>2. ASSUME NEW v \in DOMAIN kbVersions, RollbackTo(v) PROVE KBInv'
  <2>1. SearchSound'
    BY <1>2 DEF RollbackTo, KBInv, SearchSound, Breaks
  <2> QED BY <1>2, <2>1, AtVersion DEF RollbackTo, KBInv
<1>3. ASSUME NEW u \in Updates, VerifyRaises(u) PROVE KBInv'
  <2>1. kb \in [version : 0 .. MaxVersions, holds : Contents]
        /\ kb' = [kb EXCEPT !.holds = Applied(kb.holds, u)]
    BY <1>3 DEF VerifyRaises, KBInv, KBTypeOK
  <2>2. Applied(kb.holds, u) \in Contents
    BY <2>1, AppliedTyped
  <2>3. /\ kb' \in [version : 0 .. MaxVersions, holds : Contents]
        /\ kb'.version = kb.version
    BY <2>1, <2>2
  <2>4. UNCHANGED <<kbVersions, searched>>
    BY <1>3 DEF VerifyRaises
  <2>5. SearchSound'
    BY <2>4 DEF KBInv, SearchSound, Breaks
  <2> QED BY <2>3, <2>4, <2>5 DEF KBInv, KBTypeOK
<1>4. CASE RecordRollback \/ KBTick \/ UNCHANGED kbVars
  <2>1. UNCHANGED <<kb, kbVersions, searched>>
    BY <1>4 DEF RecordRollback, KBTick, kbVars, kbStore
  <2> QED BY <2>1 DEF KBInv, KBTypeOK, SearchSound, Breaks
<1> QED BY <1>1, <1>2, <1>3, <1>4, SearchSets DEF KBNext

\* The length of a function on 1 .. n.
LEMMA LenIs ==
  ASSUME NEW n \in Nat, NEW s \in [1 .. n -> Nat]
  PROVE  Len(s) = n
<1>1. s \in Seq(Nat)
  BY SeqDef
<1> QED BY <1>1

\* The least number of a set is its Min.
LEMMA LeastNumber ==
  ASSUME NEW S \in SUBSET Nat, NEW x \in S, \A y \in S : x <= y
  PROVE  Min(S) = x
<1>1. \A z \in S : (\A y \in S : z <= y) => z = x
  <2> SUFFICES ASSUME NEW z \in S, \A y \in S : z <= y PROVE z = x
    OBVIOUS
  <2>1. z <= x /\ x <= z /\ z \in Nat /\ x \in Nat
    OBVIOUS
  <2> QED BY <2>1
<1> QED BY <1>1 DEF Min

\* Where the versions cross from sound to violating, in terms of the list asked.
LEMMA RootCauseByInvariant == KBInv => RootCauseFound
<1> SUFFICES ASSUME KBInv, searched # NotSearched PROVE RootCauseFound
  BY DEF RootCauseFound
<1> DEFINE asked == searched.asked
           bad == {i \in DOMAIN asked : Breaks(asked[i])}
<1>1. PICK from \in DOMAIN kbVersions, to \in DOMAIN kbVersions :
        /\ from <= to /\ asked = [i \in 1 .. to - from + 1 |-> from + i - 1]
        /\ \/ searched.found = NoVersion /\ ~Breaks(to) /\ searched.at = to
           \/ /\ searched.found \in from .. to /\ Breaks(searched.found)
              /\ searched.found # from =>
                   ~Breaks(searched.found - 1) /\ searched.at = searched.found - 1
  BY DEF KBInv, SearchSound
<1>2. from \in Nat /\ to \in Nat /\ from >= 1
  BY DEF KBInv, KBTypeOK
<1>3. /\ DOMAIN asked = 1 .. to - from + 1
      /\ \A i \in DOMAIN asked : asked[i] = from + i - 1
  BY <1>1, <1>2
<1>4. Len(asked) = to - from + 1 /\ Len(asked) \in DOMAIN asked /\ asked[Len(asked)] = to
  <2>1. to - from + 1 \in Nat /\ to - from + 1 \in DOMAIN asked
    BY <1>1, <1>2, <1>3
  <2>2. Len(asked) = to - from + 1
    <3> DEFINE k == to - from + 1
    <3>1. asked \in [1 .. k -> Nat]
      BY <1>1, <1>2
    <3> HIDE DEF asked, k
    <3> QED BY <2>1, <3>1, LenIs DEF k
  <2> QED BY <1>2, <1>3, <2>1, <2>2
<1> HIDE DEF asked
<1>5. CASE searched.found = NoVersion /\ ~Breaks(to) /\ searched.at = to
  <2>1. Len(asked) \notin bad
    BY <1>4, <1>5
  <2>2. (\A i \in bad : i .. Len(asked) \subseteq bad) => bad = {}
    <3> SUFFICES ASSUME NEW i \in bad, i .. Len(asked) \subseteq bad PROVE FALSE
      OBVIOUS
    <3>1. Len(asked) \in i .. Len(asked)
      BY <1>2, <1>3, <1>4
    <3> QED BY <2>1, <3>1
  <2> QED BY <1>4, <1>5, <2>1, <2>2 DEF RootCauseFound, asked
<1>6. CASE /\ searched.found \in from .. to /\ Breaks(searched.found)
           /\ searched.found # from =>
                ~Breaks(searched.found - 1) /\ searched.at = searched.found - 1
  <2> DEFINE first == searched.found - from + 1
  <2>1. first \in DOMAIN asked /\ asked[first] = searched.found /\ searched.found # NoVersion
    <3>1. searched.found \in Nat /\ from <= searched.found /\ searched.found <= to
      BY <1>2, <1>6
    <3>2. first \in 1 .. to - from + 1 /\ from + first - 1 = searched.found
      BY <1>2, <3>1
    <3> HIDE DEF first
    <3>3. first \in DOMAIN asked
      BY <1>3, <3>2
    <3>4. asked[first] = searched.found
      BY <1>3, <3>2, <3>3
    <3>5. searched.found # 0
      BY <1>2, <3>1
    <3> QED BY <3>3, <3>4, <3>5 DEF NoVersion
  <2>2. first \in bad
    BY <1>6, <2>1
  <2>3. first # 1 => first - 1 \notin bad /\ searched.at = asked[first - 1]
    <3> SUFFICES ASSUME first # 1 PROVE first - 1 \notin bad /\ searched.at = asked[first - 1]
      OBVIOUS
    <3>1. first - 1 \in DOMAIN asked /\ searched.found # from
      BY <1>2, <1>3, <1>6, <2>1
    <3>2. asked[first - 1] = searched.found - 1
      BY <1>2, <1>3, <1>6, <3>1
    <3> QED BY <1>6, <3>1, <3>2
  <2>4. bad \in SUBSET Nat
    BY <1>2, <1>3
  <2>5. ASSUME \A i \in bad : i .. Len(asked) \subseteq bad PROVE Min(bad) = first
    <3>1. ASSUME NEW i \in bad PROVE first <= i
      <4>1. i \in 1 .. Len(asked) /\ first \in 1 .. Len(asked) /\ Len(asked) \in Nat
        BY <1>2, <1>3, <1>4, <2>1
      <4> HIDE DEF first, bad
      <4>2. CASE i < first
        <5>1. first - 1 \in i .. Len(asked) /\ first # 1
          BY <4>1, <4>2
        <5> QED BY <2>3, <2>5, <5>1
      <4> QED BY <4>1, <4>2
    <3> HIDE DEF first, bad
    <3> QED BY <2>2, <2>4, <3>1, LeastNumber
  <2> HIDE DEF first, bad
  <2> QED BY <2>1, <2>2, <2>3, <2>5 DEF RootCauseFound, asked, bad
<1> QED BY <1>1, <1>5, <1>6

\* INV-CL-13 of identify_violating_version, for any contents, updates and number
\* of versions, replaced ones included: the version blamed violates and the one
\* before it in the list does not, nothing is blamed only when the last is
\* sound, and without a cure it is the earliest.
THEOREM RootCausesAreFound == KBSpec => []KBInvariant
<1>1. KBInv => KBInvariant
  BY RootCauseByInvariant DEF KBInv, KBInvariant
<1> QED BY KBInitial, KBStep, <1>1, PTL DEF KBSpec
============================================================================
