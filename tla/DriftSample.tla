---------------------------- MODULE DriftSample ----------------------------
(***************************************************************************)
(* DriftChecker of dnc.learning.continual: the sample of past executions   *)
(* that the drift of an update is measured against, recomputed only once   *)
(* in every Clusters executions.                                           *)
(*                                                                         *)
(* A metric vector has one component: dividing by its deviation does not   *)
(* change the order of distances.  The timestamp of an execution is its    *)
(* caller's and says nothing of its place in the history.                  *)
(***************************************************************************)
EXTENDS Integers, FiniteSets, FiniteSetsExt, Sequences, SequencesExt

CONSTANTS
  Clusters,        \* K_CLUSTERS, which is also the period of reclustering
  TaskClasses,     \* task_class values
  Metrics,         \* metric values
  Timestamps,      \* timestamps that callers give
  MaxSamples,      \* MAX_DRIFT_CHECK_SAMPLES
  MaxExecutions    \* bound: executions recorded

ASSUME DriftConstants ==
  /\ Clusters \in Nat \ {0, 1}
  /\ Metrics \subseteq Int /\ Timestamps \subseteq Int /\ MaxSamples \in Nat
  /\ MaxExecutions \in Nat

VARIABLES
  executions,  \* _history
  sample       \* _representative_sample

driftVars == <<executions, sample>>

DriftInit == executions = <<>> /\ sample = {}

Distance(a, b) == IF a >= b THEN a - b ELSE b - a

\* The first vectors are the centers; one equal to an earlier one leaves its
\* own center at zero.
Center(history, c) ==
  IF \E i \in 1 .. c - 1 : history[i].metric = history[c].metric THEN 0 ELSE history[c].metric

Nearest(history, i) ==
  Min({c \in 1 .. Clusters : \A d \in 1 .. Clusters :
         Distance(history[i].metric, Center(history, c)) <= Distance(history[i].metric, Center(history, d))})

\* max(indices, key=value) in every group: the first of those with the greatest
\* value.
Greatest(group, value) ==
  {i \in DOMAIN group : \A j \in DOMAIN group :
     group[j] = group[i] => value[j] < value[i] \/ (value[j] = value[i] /\ i <= j)}

\* Of every cluster the member farthest from its center.
Farthest(history) ==
  LET cluster == [i \in DOMAIN history |-> Nearest(history, i)]
  IN  Greatest(cluster,
               [i \in DOMAIN history |-> Distance(history[i].metric, Center(history, cluster[i]))])

\* Of every task class the most recent of its first n executions.
MostRecent(history, n) ==
  Greatest([i \in 1 .. n |-> history[i].class], [i \in 1 .. n |-> history[i].timestamp])

\* sorted(sample)[:MAX_DRIFT_CHECK_SAMPLES]
Lowest(chosen) == {i \in chosen : Cardinality({j \in chosen : j < i}) < MaxSamples}

EarliestRepresentatives(history) ==
  Lowest(Farthest(history) \cup
         {i \in DOMAIN history : \A j \in 1 .. i - 1 : history[j].class # history[i].class})

\* _update_representative_sample
Representatives(history) == Lowest(Farthest(history) \cup MostRecent(history, Len(history)))

RecordExecution(class, metric, timestamp) ==
  LET history == Append(executions, [class |-> class, metric |-> metric, timestamp |-> timestamp])
  IN  /\ Len(executions) < MaxExecutions
      /\ executions' = history
      /\ sample' = IF Len(history) > Clusters /\ Len(history) % Clusters = 1
                   THEN Representatives(history) ELSE sample

\* is_within_drift_bound: the executions of the sample a metric departs from.
DriftViolations(metric, bound) ==
  {i \in sample : Distance(executions[i].metric, metric) > bound}

----------------------------------------------------------------------------
DriftNext ==
  \E class \in TaskClasses, metric \in Metrics, timestamp \in Timestamps :
    RecordExecution(class, metric, timestamp)

DriftSpec == DriftInit /\ [][DriftNext]_driftVars

\* How long the history was at its last reclustering.
Reclustered(length) == ((length - 1) \div Clusters) * Clusters + 1

\* The cap drops what is last in the history, however recent: the sample is full
\* and everything in it is earlier.
CutOff(kept, i) == Cardinality(kept) = MaxSamples /\ \A j \in kept : j < i

\* What the sample holds of a history of which n executions were clustered.
SampleOf(kept, history, n) ==
  /\ kept \subseteq 1 .. n /\ Cardinality(kept) <= MaxSamples
  /\ \A i \in MostRecent(history, n) : i \in kept \/ CutOff(kept, i)

\* INV-CL-9: until the first reclustering there is no sample and nothing drifts.
\* Since then the sample is within its cap and holds, of every task class, the
\* most recent execution as of the last reclustering, unless the cap cut it off.
\* So an execution that is still the most recent of its class is missed only
\* while fewer than Clusters executions follow it, or when cut off; otherwise
\* every other metric counts as drift from it.
DriftSampleNewest ==
  LET length == Len(executions)
      n == Reclustered(length)
  IN  /\ IF n <= Clusters THEN sample = {} ELSE SampleOf(sample, executions, n)
      /\ \A i \in MostRecent(executions, length), m \in Metrics :
           i + Clusters <= length /\ m # executions[i].metric
             => i \in DriftViolations(m, 0) \/ CutOff(sample, i)

\* The inductive form: the sample itself, with what the history holds.
DriftInv ==
  /\ executions \in Seq([class : TaskClasses, metric : Metrics, timestamp : Timestamps])
  /\ LET n == Reclustered(Len(executions))
     IN  IF n <= Clusters THEN sample = {} ELSE SampleOf(sample, executions, n)
============================================================================
