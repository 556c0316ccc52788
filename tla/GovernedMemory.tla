--------------------------- MODULE GovernedMemory --------------------------
(***************************************************************************)
(* MemoryStore, GovernedMemory and compress_records of dnc.memory: records *)
(* are stored, tombstoned, invalidated with what they depend on, and       *)
(* summarised; a query sees what its tenant, labels, trust and the time    *)
(* allow.                                                                  *)
(*                                                                         *)
(* The namespaces are one store here: a record id is used once.  Trust is  *)
(* a number, and contents are left out but for whether they are kept.      *)
(***************************************************************************)
EXTENDS Integers, FiniteSetsExt

CONSTANTS
  RecordIds,    \* record ids
  Tenants, Labels,
  Trusts,       \* trust values
  Horizons,     \* expiry times, with Never
  Never,        \* expires_at_ns = None
  Holds,        \* whether records are under legal hold: a set of booleans
  Fingerprints, \* what a record may depend on besides other records
  NoRecord,
  MaxClock      \* bound: time

\* What the store holds of a record.
Record == [tenant : Tenants, labels : SUBSET Labels, trust : Trusts,
           expires : Horizons \cup {Never}, hold : BOOLEAN, provenance : SUBSET RecordIds,
           dependencies : SUBSET (RecordIds \cup Fingerprints), deleted : BOOLEAN]

ASSUME MemoryConstants ==
  Trusts \subseteq Nat /\ MaxClock \in Nat /\ Holds \subseteq BOOLEAN /\ NoRecord \notin Record

VARIABLES
  memoryRecords,  \* _records
  memoryBackup,   \* a snapshot
  clock           \* the now_ns of a query

memoryVars == <<memoryRecords, memoryBackup, clock>>

Held(id) == memoryRecords[id] # NoRecord

MemoryInit ==
  /\ memoryRecords = [id \in RecordIds |-> NoRecord]
  /\ memoryBackup = memoryRecords
  /\ clock = 0

----------------------------------------------------------------------------
MemoryRecord(tenant, labels, trust, expires, hold, provenance, dependencies) ==
  [tenant |-> tenant, labels |-> labels, trust |-> trust, expires |-> expires, hold |-> hold,
   provenance |-> provenance, dependencies |-> dependencies, deleted |-> FALSE]

\* put: an id is never stored twice, deleted or not.
PutRecord(id, record) ==
  /\ ~Held(id)
  /\ memoryRecords' = [memoryRecords EXCEPT ![id] = record]
  /\ UNCHANGED <<memoryBackup, clock>>

\* get: what the tenant may name.
Owned(id, tenant) == Held(id) /\ memoryRecords[id].tenant = tenant /\ ~memoryRecords[id].deleted

\* delete leaves a tombstone without content, and refuses under legal hold.
DeleteRecord(id, tenant) ==
  /\ Owned(id, tenant) /\ ~memoryRecords[id].hold
  /\ memoryRecords' = [memoryRecords EXCEPT ![id].deleted = TRUE]
  /\ UNCHANGED <<memoryBackup, clock>>

\* invalidate_dependencies, which does not look at the legal hold.
InvalidateDependencies(changed) ==
  /\ memoryRecords' =
       [id \in RecordIds |->
          IF Held(id) /\ memoryRecords[id].dependencies \cap changed # {}
          THEN [memoryRecords[id] EXCEPT !.deleted = TRUE] ELSE memoryRecords[id]]
  /\ UNCHANGED <<memoryBackup, clock>>

SharedLabels(sources) ==
  {l \in Labels : \A s \in sources : l \in memoryRecords[s].labels}

\* The labels of all sources.
SummaryLabels(sources) == UNION {memoryRecords[s].labels : s \in sources}

\* compress_records: the sources are of one tenant, and the summary is no more
\* trusted than any of them.  It has no expiry and is under no hold, and is
\* stored like any other record.
Compress(sources, id) ==
  /\ sources # {} /\ \A s \in sources : Held(s)
  /\ \A s, t \in sources : memoryRecords[s].tenant = memoryRecords[t].tenant
  /\ PutRecord(id, MemoryRecord(memoryRecords[CHOOSE s \in sources : TRUE].tenant,
                                SummaryLabels(sources),
                                Min({memoryRecords[s].trust : s \in sources}),
                                Never, FALSE, sources, sources))

BackUpMemory ==
  /\ memoryBackup' = memoryRecords
  /\ UNCHANGED <<memoryRecords, clock>>

RestoreMemory ==
  /\ memoryRecords' = memoryBackup
  /\ UNCHANGED <<memoryBackup, clock>>

\* retrieve: what a query of this tenant, with these labels and this minimum of
\* trust, finds now.
Retrieve(tenant, allowed, minimum) ==
  {id \in RecordIds :
     /\ Owned(id, tenant)
     /\ memoryRecords[id].labels \subseteq allowed
     /\ memoryRecords[id].trust >= minimum
     /\ memoryRecords[id].expires = Never \/ memoryRecords[id].expires > clock}

MemoryTick == clock < MaxClock /\ clock' = clock + 1 /\ UNCHANGED <<memoryRecords, memoryBackup>>

MemoryNext ==
  \/ \E id \in RecordIds :
       \/ \E tenant \in Tenants, labels \in SUBSET Labels, trust \in Trusts, expires \in Horizons,
             hold \in Holds, dependencies \in SUBSET Fingerprints :
            PutRecord(id, MemoryRecord(tenant, labels, trust, expires, hold, {}, dependencies))
       \/ \E tenant \in Tenants : DeleteRecord(id, tenant)
       \/ \E sources \in SUBSET RecordIds : Compress(sources, id)
  \/ \E changed \in SUBSET (RecordIds \cup Fingerprints) \ {{}} : InvalidateDependencies(changed)
  \/ BackUpMemory \/ RestoreMemory \/ MemoryTick

MemorySpec == MemoryInit /\ [][MemoryNext]_memoryVars

----------------------------------------------------------------------------
(* Properties *)

\* What each record's sources are to it: still there, if only as tombstones,
\* of its tenant, with no other labels and no less trust.
SourcesCovered(records) ==
  \A id \in RecordIds : records[id] # NoRecord => \A s \in records[id].provenance :
    /\ records[s] # NoRecord /\ records[s].tenant = records[id].tenant
    /\ records[s].labels \subseteq records[id].labels
    /\ records[s].trust >= records[id].trust

MemoryInv ==
  \A records \in {memoryRecords, memoryBackup} :
    records \in [RecordIds -> Record \cup {NoRecord}] /\ SourcesCovered(records)

\* Everything a record was summarised from, however many times over: what every
\* set has that has its sources and their sources.
Sources(id) ==
  LET complete(S) == /\ memoryRecords[id].provenance \subseteq S
                     /\ \A s \in S : Held(s) => memoryRecords[s].provenance \subseteq S
  IN  {s \in RecordIds : \A S \in SUBSET RecordIds : complete(S) => s \in S}

\* A summary has the tenant of its sources, and is no wider in labels and no higher
\* in trust (it keeps neither their expiry nor a hold): whoever finds a summary
\* is of the tenant of every record it was made from, has all their labels, and
\* asked for no more trust than each of them has, however often summaries were
\* summarised, and also after sources were deleted or a backup was restored.
SummariesTellNoMore ==
  \A tenant \in Tenants, allowed \in SUBSET Labels, minimum \in Trusts :
    \A id \in Retrieve(tenant, allowed, minimum) : \A s \in Sources(id) :
      /\ Held(s) /\ memoryRecords[s].tenant = tenant
      /\ memoryRecords[s].labels \subseteq allowed
      /\ memoryRecords[s].trust >= minimum
============================================================================
