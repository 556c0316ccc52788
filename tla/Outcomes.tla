------------------------------ MODULE Outcomes ------------------------------
(***************************************************************************)
(* What assurance learns from outcomes.  OutcomeLabelStore of              *)
(* dnc.assurance.outcomes: labels arrive late, twice and out of order; a   *)
(* correction names the label it supersedes.  fit_isotonic,                *)
(* evaluate_calibration and conformal_error_bound of                       *)
(* dnc.assurance.calibration, over the observations collected so far.      *)
(*                                                                         *)
(* Scores are the fractions 0, 1/Scale .. 1, kept as their numerators, and *)
(* a mean is kept as a sum and a count, so that the arithmetic is exact.   *)
(***************************************************************************)
EXTENDS Integers, FiniteSets, FiniteSetsExt, Sequences, SequencesExt

CONSTANTS
  LabelIds,    \* label_id values
  LabelTexts,  \* what a label may say: target, status, time and what it supersedes
  NoLabel      \* None

Targets == {text.target : text \in LabelTexts}

ASSUME LabelConstants ==
  NoLabel \notin LabelIds /\ \A text \in LabelTexts : text.at \in Nat

VARIABLES
  labels,   \* _labels: what each ingested label says
  arrived   \* _target_history: the ids of each target's labels in order of arrival

labelVars == <<labels, arrived>>

LabelsInit == labels = [i \in {} |-> NoLabel] /\ arrived = [t \in Targets |-> <<>>]

Stored == DOMAIN labels

\* The three conditions on a label that supersedes another.
MaySupersede(text) ==
  text.supersedes # NoLabel =>
    /\ text.supersedes \in Stored
    /\ labels[text.supersedes].target = text.target
    /\ text.status \in {"CORRECTED", "RETRACTED"}
    /\ text.at >= labels[text.supersedes].at

IngestAgain(id, text) ==
  /\ id \in Stored => labels[id] = text
  /\ MaySupersede(text)
  /\ labels' = [i \in Stored \cup {id} |-> IF i = id THEN text ELSE labels[i]]
  /\ arrived' = [arrived EXCEPT ![text.target] = SelectSeq(@, LAMBDA i : i # id) \o <<id>>]

\* ingest: a label met before is ignored if it says the same, and refused if it
\* does not.
Ingest(id, text) ==
  /\ id \notin Stored
  /\ MaySupersede(text)
  /\ labels' = [i \in Stored \cup {id} |-> IF i = id THEN text ELSE labels[i]]
  /\ arrived' = [arrived EXCEPT ![text.target] = Append(@, id)]

Current(target) == IF arrived[target] = <<>> THEN NoLabel ELSE Last(arrived[target])

LabelsNext == \E id \in LabelIds, text \in LabelTexts : Ingest(id, text)

LabelsSpec == LabelsInit /\ [][LabelsNext]_labelVars

----------------------------------------------------------------------------
LabelsTypeOK ==
  /\ Stored \subseteq LabelIds /\ labels \in [Stored -> LabelTexts]
  /\ arrived \in [Targets -> Seq(LabelIds)]

\* Every label is in the history of its target, once.
FiledOnce ==
  /\ \A t \in Targets : LET history == arrived[t] IN
       /\ \A n \in DOMAIN history : history[n] \in Stored /\ labels[history[n]].target = t
       /\ \A m, n \in DOMAIN history : history[m] = history[n] => m = n
  /\ \A i \in Stored : LET history == arrived[labels[i].target] IN
       \E n \in DOMAIN history : history[n] = i

\* What a label supersedes is an earlier label of the same target.
SupersedesEarlier ==
  \A i \in Stored : labels[i].supersedes # NoLabel =>
    /\ labels[i].supersedes \in Stored
    /\ labels[labels[i].supersedes].target = labels[i].target
    /\ labels[labels[i].supersedes].at <= labels[i].at
    /\ LET history == arrived[labels[i].target]
       IN  \E m, n \in DOMAIN history :
             m < n /\ history[m] = labels[i].supersedes /\ history[n] = i

LabelsInv == LabelsTypeOK /\ FiledOnce /\ SupersedesEarlier

\* Whatever is delivered late or twice, a label that has been corrected or
\* retracted is never again the current one of its target, and the corrections
\* of a label form a chain that goes back in time to a first observation.
SupersededNotCurrent ==
  /\ \A target \in {labels[i].target : i \in Stored} :
       ~\E j \in Stored : labels[j].supersedes = Current(target)
  /\ \A i \in Stored : labels[i].supersedes # NoLabel =>
       /\ labels[labels[i].supersedes].at <= labels[i].at
       /\ LET history == arrived[labels[i].target]
          IN  \E m, n \in DOMAIN history :
                m < n /\ history[m] = labels[i].supersedes /\ history[n] = i

----------------------------------------------------------------------------
(* Calibration *)

CONSTANTS
  Scale,             \* the score Scale stands for probability 1
  Bins,              \* bins of the reliability diagram
  MaxObservations    \* bound: observations collected

ASSUME CalibrationConstants == Scale \in Nat \ {0} /\ Bins \in Nat \ {0}

VARIABLE outcomes    \* the pairs of a score and a label, sorted

FitsInit == outcomes = <<>>

Before(x, y) == x.score < y.score \/ (x.score = y.score /\ x.label < y.label)

Ascending(pairs) == \A m, n \in DOMAIN pairs : m < n => ~Before(pairs[n], pairs[m])

ObserveOutcome(pair) ==
  /\ Len(outcomes) < MaxObservations
  /\ \E n \in 1 .. Len(outcomes) + 1 : outcomes' = InsertAt(outcomes, n, pair)
  /\ Ascending(outcomes')

FitsNext == \E score \in 0 .. Scale, label \in {0, 1} : ObserveOutcome([score |-> score, label |-> label])

FitsSpec == FitsInit /\ [][FitsNext]_outcomes

TotalOfAll(values) == FoldLeft(LAMBDA n, x : n + x, 0, values)

Labels(pairs) == [i \in DOMAIN pairs |-> pairs[i].label]

----------------------------------------------------------------------------
(* fit_isotonic: a block is the last of its observations, which gives it    *)
(* its score, the sum of their labels and how many they are.                *)

Above(x, y) == x.sum * y.count > y.sum * x.count

Merged(x, y) == [last |-> y.last, sum |-> x.sum + y.sum, count |-> x.count + y.count]

StayPut(i) == i

\* After a merge the block may be below the one before it.
StepBack(i) == IF i > 1 THEN i - 1 ELSE 1

\* A turn of the while loop: adjacent violators are pooled.
PoolTurn(r) ==
  IF r.at >= Len(r.blocks) THEN r
  ELSE IF Above(r.blocks[r.at], r.blocks[r.at + 1])
  THEN [at |-> StepBack(r.at),
        blocks |-> SubSeq(r.blocks, 1, r.at - 1) \o <<Merged(r.blocks[r.at], r.blocks[r.at + 1])>>
                   \o SubSeq(r.blocks, r.at + 2, Len(r.blocks))]
  ELSE [r EXCEPT !.at = @ + 1]

\* Each turn pools two blocks or moves on: twice as many turns as observations
\* end the loop.
Pooled(start) ==
  FoldLeft(LAMBDA r, turn : PoolTurn(r), [at |-> 1, blocks |-> start],
           [turn \in 1 .. 2 * Len(start) |-> turn]).blocks

Isotonic == Pooled([i \in DOMAIN outcomes |-> [last |-> i, sum |-> outcomes[i].label, count |-> 1]])

\* The block observation i was pooled into.
BlockOf(i) == Isotonic[Min({b \in DOMAIN Isotonic : Isotonic[b].last >= i})]

----------------------------------------------------------------------------
Within(bin, score) == bin * Scale <= score * Bins /\ score * Bins < (bin + 1) * Scale

\* evaluate_calibration: bin is half open, and the last one is closed.
InBin(bin, score) == Within(bin, score) \/ (bin = Bins - 1 /\ score = Scale)

InBucket(bin) == {i \in DOMAIN outcomes : InBin(bin, outcomes[i].score)}

\* |average score - average label| of a bucket, times Scale and its size.
Gap(bucket) ==
  LET excess == TotalOfAll([i \in DOMAIN outcomes |->
                              IF i \in bucket THEN outcomes[i].score - Scale * outcomes[i].label
                              ELSE 0])
  IN  IF excess < 0 THEN -excess ELSE excess

\* The expected calibration error, times Scale and the number of observations.
CalibrationError == TotalOfAll([bin \in 1 .. Bins |-> Gap(InBucket(bin - 1))])

\* The labels of the observations from the highest score down: after each one,
\* the risk is the share of labels that are 0.
RiskCurve == [n \in DOMAIN outcomes |-> n - TotalOfAll(SubSeq(Reverse(Labels(outcomes)), 1, n))]

\* ceil((n + 1) * (1 - alpha)) of conformal_error_bound, for alpha = 1/percent.
ConformalRank(percent) ==
  LET n == Len(outcomes)
      ceiling == ((n + 1) * (percent - 1) + percent - 1) \div percent
  IN  Min({n, ceiling})

\* The scores read as errors.
ConformalBound(percent) == outcomes[ConformalRank(percent)].score

----------------------------------------------------------------------------
\* The reference: the best non-decreasing fit at i is the largest, over starts
\* j, of the smallest mean of the labels from j to k, over ends k.
Mean(j, k) == [sum |-> TotalOfAll(SubSeq(Labels(outcomes), j, k)), count |-> k - j + 1]

\* fit_isotonic finds the least-squares fit whatever the order of the labels,
\* and the pooled blocks increase.
IsotonicIsBest ==
  /\ \A b \in 1 .. Len(Isotonic) - 1 : ~Above(Isotonic[b], Isotonic[b + 1])
  /\ \A i \in DOMAIN outcomes :
       LET smallest(j) == CHOOSE m \in {Mean(j, k) : k \in i .. Len(outcomes)} :
                            \A k \in i .. Len(outcomes) : ~Above(m, Mean(j, k))
           best == CHOOSE m \in {smallest(j) : j \in 1 .. i} :
                     \A j \in 1 .. i : ~Above(smallest(j), m)
       IN  ~Above(best, BlockOf(i)) /\ ~Above(BlockOf(i), best)

\* The metrics an artifact is promoted on do not flatter it: the overall gap
\* between scores and labels is never more than the calibration error summed
\* over the bins, no observation falls between two bins, accepting everything
\* costs the overall error rate, and the conformal bound holds for the promised
\* share of the errors, or is the largest of them.
MetricsAccountForAll ==
  outcomes # <<>> =>
    /\ Gap(DOMAIN outcomes) <= CalibrationError
    /\ Last(RiskCurve) = Len(outcomes) - TotalOfAll(Labels(outcomes))
    /\ \A percent \in {2, 5, 10} :
         LET bound == ConformalBound(percent)
             below == Cardinality({i \in DOMAIN outcomes : outcomes[i].score <= bound})
         IN  \/ percent * below >= (percent - 1) * (Len(outcomes) + 1)
             \/ bound = outcomes[Len(outcomes)].score

\* The isotonic fit is the best one, and the calibration metrics count every
\* observation once.
FitsInvariant == IsotonicIsBest /\ MetricsAccountForAll
============================================================================
