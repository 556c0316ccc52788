-------------------------- MODULE ExecutionProofs --------------------------
(***************************************************************************)
(* Proofs about the components that move work, calls and results about:    *)
(* the handoff protocol, event delivery, provider calls, content           *)
(* registries, plugins, capability calls, the provenance log, the          *)
(* projector, the control loop and the replay of its traces, each for      *)
(* every value of its constants.                                           *)
(***************************************************************************)
EXTENDS CapabilityCalls, ControlLoop, Handoff, EventDelivery, ProviderCalls, ContentRegistries,
        PluginLoading, ProvenanceChain, Projection, TraceReplay,
        FiniteSetTheorems, SequenceTheorems, WellFoundedInduction, TLAPS

\* The natural numbers are well-ordered.
LEMMA NatLeast ==
  ASSUME NEW T \in SUBSET Nat, T # {}
  PROVE  \E x \in T : \A y \in T : x <= y
<1> DEFINE R == {ss \in Nat \X Nat : ss[1] < ss[2]}
<1>1. IsWellFoundedOn(R, Nat)
  BY NatLessThanWellFounded, Zenon DEF OpToRel
<1> HIDE DEF R
<1>2. PICK x \in T : \A y \in T : ~ (<<y, x>> \in R)
  BY <1>1, WFMin
<1>3. ASSUME NEW y \in T PROVE x <= y
  <2>1. <<y, x>> \notin R
    BY <1>2
  <2>2. x \in Nat /\ y \in Nat
    OBVIOUS
  <2>3. ~ (y < x)
    BY <2>1, <2>2 DEF R
  <2> QED BY <2>2, <2>3
<1> QED BY <1>3

----------------------------------------------------------------------------
(* Handoff *)

USE DEF Messages, MessageTypes, Statuses, NoRecord

\* No node has a record, a state or a message.
LEMMA HandoffInitial == HandoffInit => HandoffInv
<1> SUFFICES ASSUME HandoffInit PROVE HandoffInv
  OBVIOUS
<1>1. HandoffTypeOK
  BY WindowAssumption DEF HandoffInit, HandoffTypeOK, IsInjective
<1> QED
  BY <1>1, RoutesAssumption DEF HandoffInit, HandoffInv, HandoffInvariant, RecordMatchesState,
     AcknowledgedTransferKept, OneOutcome, AbortedByAbort, SeenIsAcknowledged

\* The sender has the state it starts to hand over.
LEMMA InitiatePreserves ==
  ASSUME HandoffInv, NEW h \in Handoffs, InitiateHandoff(h)
  PROVE  HandoffInv'
<1>1. Sender[h] \in Peers
  BY RoutesAssumption
<1>2. HandoffTypeOK'
  <2>1. HandoffTypeOK
    BY DEF HandoffInv, HandoffInvariant
  <2>2. records' \in [Peers -> [Handoffs -> Statuses \cup {NoRecord}]]
    BY <2>1, <1>1 DEF HandoffTypeOK, InitiateHandoff
  <2>3. held' \in [Peers -> SUBSET Handoffs]
    BY <2>1, <1>1 DEF HandoffTypeOK, InitiateHandoff
  <2>4. sent' \subseteq Messages /\ acked' \subseteq sent'
    BY <2>1 DEF HandoffTypeOK, InitiateHandoff
  <2>5. seen' = seen
    BY DEF InitiateHandoff
  <2> QED
    BY <2>1, <2>2, <2>3, <2>4, <2>5 DEF HandoffTypeOK
<1>3. RecordMatchesState' /\ AbortedByAbort'
  BY <1>1 DEF HandoffInv, HandoffInvariant, HandoffTypeOK, RecordMatchesState, AbortedByAbort,
     InitiateHandoff
<1>4. AcknowledgedTransferKept'
  BY <1>1, RoutesAssumption DEF HandoffInv, HandoffInvariant, HandoffTypeOK,
     AcknowledgedTransferKept, InitiateHandoff
<1>5. OneOutcome' /\ SeenIsAcknowledged'
  BY DEF HandoffInv, OneOutcome, SeenIsAcknowledged, InitiateHandoff
<1> QED
  BY <1>2, <1>3, <1>4, <1>5 DEF HandoffInv, HandoffInvariant

\* A handoff is settled once.
LEMMA SettlePreserves ==
  ASSUME HandoffInv, NEW m \in Messages, Settle(m)
  PROVE  HandoffInv'
<1>1. HandoffTypeOK' /\ RecordMatchesState'
  BY DEF HandoffInv, HandoffInvariant, HandoffTypeOK, RecordMatchesState, Settle
<1>2. AcknowledgedTransferKept' /\ AbortedByAbort' /\ SeenIsAcknowledged'
  BY DEF HandoffInv, HandoffInvariant, AcknowledgedTransferKept, AbortedByAbort,
     SeenIsAcknowledged, Settle
<1>3. OneOutcome'
  <2>1. ASSUME NEW h \in Handoffs, [type |-> "COMMIT", handoff |-> h] \in sent',
               [type |-> "ABORT", handoff |-> h] \in sent'
        PROVE  FALSE
    <3>1. CASE m.handoff = h
      BY <2>1, <3>1 DEF HandoffInv, OneOutcome, Settle
    <3>2. CASE m.handoff # h
      BY <2>1, <3>2 DEF HandoffInv, OneOutcome, Settle
    <3> QED BY <3>1, <3>2
  <2> QED BY <2>1 DEF OneOutcome
<1> QED
  BY <1>1, <1>2, <1>3 DEF HandoffInv, HandoffInvariant

\* What is in the window was acknowledged before.
LEMMA DuplicatePreserves ==
  ASSUME HandoffInv, NEW m \in Messages, ReceiveDuplicate(m)
  PROVE  HandoffInv'
<1>1. Receiver[m.handoff] \in Peers
  BY RoutesAssumption
<1>2. m \in acked
  BY <1>1 DEF HandoffInv, SeenIsAcknowledged, ReceiveDuplicate, IsDuplicate
<1>3. acked' = acked /\ UNCHANGED <<records, held, seen, sent>>
  BY <1>2 DEF ReceiveDuplicate
<1> QED
  BY <1>3 DEF HandoffInv, HandoffInvariant, HandoffTypeOK, RecordMatchesState,
     AcknowledgedTransferKept, OneOutcome, AbortedByAbort, SeenIsAcknowledged

\* The window takes a message it does not hold and stays within its size,
\* without a repetition.
LEMMA WindowKept ==
  ASSUME HandoffTypeOK, NEW n \in Peers, NEW m \in Messages, ~ IsDuplicate(n, m)
  PROVE  /\ RecordedHandoff(n, m) \in Seq(Messages)
         /\ Len(RecordedHandoff(n, m)) <= WindowSize
         /\ IsInjective(RecordedHandoff(n, m))
         /\ \A i \in DOMAIN RecordedHandoff(n, m) :
              \/ RecordedHandoff(n, m)[i] = m
              \/ \E j \in DOMAIN seen[n] : RecordedHandoff(n, m)[i] = seen[n][j]
<1> DEFINE s == seen[n]
           w == Append(s, m)
<1>1. s \in Seq(Messages) /\ Len(s) <= WindowSize /\ IsInjective(s)
  BY DEF HandoffTypeOK
<1>2. \A i \in 1 .. Len(s) : s[i] # m
  BY <1>1 DEF IsDuplicate
<1>3. /\ w \in Seq(Messages) /\ Len(w) = Len(s) + 1
      /\ \A i \in 1 .. Len(w) : w[i] = IF i <= Len(s) THEN s[i] ELSE m
  BY <1>1
<1>4. \A i, j \in 1 .. Len(w) : w[i] = w[j] => i = j
  BY <1>1, <1>2, <1>3 DEF IsInjective
<1> HIDE DEF w
<1>5. CASE Len(w) > WindowSize
  <2>1. RecordedHandoff(n, m) = Tail(w)
    BY <1>5 DEF RecordedHandoff, w
  <2>2. /\ Tail(w) \in Seq(Messages) /\ Len(Tail(w)) = Len(s)
        /\ \A i \in 1 .. Len(s) : Tail(w)[i] = w[i + 1]
    BY <1>3, <1>1
  <2>3. \A i, j \in 1 .. Len(s) : Tail(w)[i] = Tail(w)[j] => i = j
    BY <2>2, <1>4, <1>3, <1>1
  <2> QED
    BY <2>1, <2>2, <2>3, <1>1, <1>3 DEF IsInjective
<1>6. CASE ~ (Len(w) > WindowSize)
  <2>1. RecordedHandoff(n, m) = w
    BY <1>6 DEF RecordedHandoff, w
  <2>2. DOMAIN w = 1 .. Len(w) /\ DOMAIN s = 1 .. Len(s)
    BY <1>1, <1>3
  <2>3. IsInjective(w)
    BY <2>2, <1>4 DEF IsInjective
  <2>4. Len(w) <= WindowSize
    BY <1>1, <1>3, <1>6, WindowAssumption
  <2>5. \A i \in DOMAIN w : w[i] = m \/ \E j \in DOMAIN s : w[i] = s[j]
    BY <2>2, <1>1, <1>3
  <2> QED
    BY <2>1, <2>3, <2>4, <2>5, <1>3
<1> QED
  BY <1>5, <1>6

\* A message that is new to the receiver's window, whether or not it was
\* received before: state and record change together.
LEMMA ReceivePreserves ==
  ASSUME HandoffInv, NEW m \in Messages, Receive(m)
  PROVE  HandoffInv'
<1> DEFINE n == Receiver[m.handoff]
           h == m.handoff
<1>1. n \in Peers /\ h \in Handoffs /\ m \in sent /\ ~ IsDuplicate(n, m)
  BY RoutesAssumption DEF Receive
<1>2. /\ seen' = [seen EXCEPT ![n] = RecordedHandoff(n, m)]
      /\ acked' = acked \cup {m} /\ sent' = sent
      /\ StateTransfer(n, m) \/ Commit(n, m) \/ Abort(n, m)
  BY DEF Receive
<1>3. HandoffTypeOK
  BY DEF HandoffInv, HandoffInvariant
<1>4. /\ seen' \in [Peers -> Seq(Messages)]
      /\ \A p \in Peers : Len(seen'[p]) <= WindowSize /\ IsInjective(seen'[p])
  BY <1>1, <1>2, <1>3, WindowKept DEF HandoffTypeOK
<1>5. SeenIsAcknowledged'
  <2>1. ASSUME NEW p \in Peers, NEW i \in DOMAIN seen'[p] PROVE seen'[p][i] \in acked'
    <3>1. CASE p # n
      BY <3>1, <1>1, <1>2, <1>3 DEF HandoffInv, SeenIsAcknowledged, HandoffTypeOK
    <3>2. CASE p = n
      <4>1. seen'[p] = RecordedHandoff(n, m)
        BY <3>2, <1>1, <1>2, <1>3 DEF HandoffTypeOK
      <4>2. seen'[p][i] = m \/ \E j \in DOMAIN seen[n] : seen'[p][i] = seen[n][j]
        BY <4>1, <1>1, <1>3, WindowKept
      <4> QED BY <4>2, <1>1, <1>2 DEF HandoffInv, SeenIsAcknowledged
    <3> QED BY <3>1, <3>2
  <2> QED BY <2>1 DEF SeenIsAcknowledged
<1>6. OneOutcome'
  BY <1>2 DEF HandoffInv, OneOutcome
<1>7. CASE StateTransfer(n, m)
  <2>1. HandoffTypeOK'
    BY <1>1, <1>2, <1>3, <1>4, <1>7 DEF HandoffTypeOK, StateTransfer, Updated
  <2>2. RecordMatchesState' /\ AbortedByAbort'
    BY <1>1, <1>2, <1>3, <1>7 DEF HandoffInv, HandoffInvariant, HandoffTypeOK,
       RecordMatchesState, AbortedByAbort, StateTransfer, Updated
  <2>3. AcknowledgedTransferKept'
    BY <1>1, <1>2, <1>3, <1>7, RoutesAssumption DEF HandoffInv, HandoffInvariant, HandoffTypeOK,
       AcknowledgedTransferKept, StateTransfer
  <2> QED BY <2>1, <2>2, <2>3, <1>5, <1>6 DEF HandoffInv, HandoffInvariant
<1>8. CASE Commit(n, m)
  <2>1. HandoffTypeOK'
    BY <1>1, <1>2, <1>3, <1>4, <1>8 DEF HandoffTypeOK, Commit, Updated
  <2>2. m = [type |-> "COMMIT", handoff |-> h]
    BY <1>8 DEF Commit
  <2>3. records[n][h] # "ABORTED"
    BY <2>2, <1>1 DEF HandoffInv, OneOutcome, AbortedByAbort
  <2>4. RecordMatchesState' /\ AbortedByAbort'
    BY <2>3, <1>1, <1>2, <1>3, <1>8 DEF HandoffInv, HandoffInvariant, HandoffTypeOK,
       RecordMatchesState, AbortedByAbort, Commit, Updated
  <2>5. AcknowledgedTransferKept'
    BY <2>2, <1>2, <1>8 DEF HandoffInv, HandoffInvariant, AcknowledgedTransferKept, Commit
  <2> QED BY <2>1, <2>4, <2>5, <1>5, <1>6 DEF HandoffInv, HandoffInvariant
<1>9. CASE Abort(n, m)
  <2>1. HandoffTypeOK'
    BY <1>1, <1>2, <1>3, <1>4, <1>9 DEF HandoffTypeOK, Abort, Updated
  <2>2. m = [type |-> "ABORT", handoff |-> h]
    BY <1>9 DEF Abort
  <2>3. RecordMatchesState' /\ AbortedByAbort'
    BY <2>2, <1>1, <1>2, <1>3, <1>9 DEF HandoffInv, HandoffInvariant, HandoffTypeOK,
       RecordMatchesState, AbortedByAbort, Abort, Updated
  <2>4. AcknowledgedTransferKept'
    BY <2>2, <1>1, <1>2, <1>3, <1>9, RoutesAssumption DEF HandoffInv, HandoffInvariant,
       HandoffTypeOK, AcknowledgedTransferKept, Abort
  <2> QED BY <2>1, <2>3, <2>4, <1>5, <1>6 DEF HandoffInv, HandoffInvariant
<1> QED
  BY <1>2, <1>7, <1>8, <1>9

\* Every step of the two nodes and of the channel between them.
LEMMA HandoffStep == HandoffInv /\ [HandoffNext]_handoffVars => HandoffInv'
<1> SUFFICES ASSUME HandoffInv, [HandoffNext]_handoffVars PROVE HandoffInv'
  OBVIOUS
<1>1. CASE HandoffNext
  BY <1>1, InitiatePreserves, SettlePreserves, DuplicatePreserves, ReceivePreserves
  DEF HandoffNext
<1>2. CASE UNCHANGED handoffVars
  BY <1>2 DEF handoffVars, HandoffInv, HandoffInvariant, HandoffTypeOK, RecordMatchesState,
     AcknowledgedTransferKept, OneOutcome, AbortedByAbort, SeenIsAcknowledged
<1> QED
  BY <1>1, <1>2

\* However the network repeats and reorders messages, and whatever a window of
\* any size forgets, records and states agree on every node and no transfer
\* that was acknowledged and not aborted is lost.
THEOREM HandoffsAreKept == HandoffSpec => []HandoffInvariant
<1>1. HandoffInv => HandoffInvariant
  BY DEF HandoffInv
<1> QED
  BY <1>1, HandoffInitial, HandoffStep, PTL DEF HandoffSpec
----------------------------------------------------------------------------
(* EventDelivery *)

\* The empty repository.
LEMMA DeliveryInitial == DeliveryInit => DeliveryInv
<1> SUFFICES ASSUME DeliveryInit PROVE DeliveryInv
  OBVIOUS
<1>1. DeliveryTypeOK /\ HistoryTypeOK
  BY DeliveryConstants DEF DeliveryInit, DeliveryTypeOK, HistoryTypeOK
<1>2. Recorded = {}
  BY DEF DeliveryInit, Recorded, ToSet
<1>3. EffectivelyOnce /\ NoLostUpdate /\ WorkOnFile
  BY <1>2 DEF DeliveryInit, EffectivelyOnce, NoLostUpdate, WorkOnFile
<1>4. BackupSound
  BY <1>1, <1>2 DEF DeliveryInit, BackupSound, Saved, Recorded, DeliveryTypeOK
<1> QED
  BY <1>1, <1>3, <1>4 DEF DeliveryInv, DeliveryInvariant

\* Reading, sending and marking leave events, keys and work alone.
LEMMA QuietPreserves ==
  ASSUME DeliveryInv,
         \/ \E w \in Writers, a \in Aggregates : ReadAggregate(w, a)
         \/ \E m \in EventIds : SendMessage(m) \/ MarkPublished(m)
  PROVE  DeliveryInv'
<1>1. /\ UNCHANGED <<eventLog, inbox, basedOn, worked, backup, restores>>
      /\ DOMAIN outbox' = DOMAIN outbox /\ inFlight \subseteq inFlight'
  BY DEF ReadAggregate, SendMessage, MarkPublished, repositoryVars
<1>2. inFlight' \subseteq EventIds
  BY DEF DeliveryInv, DeliveryInvariant, DeliveryTypeOK, ReadAggregate, SendMessage, MarkPublished
<1>3. readAs' \in [Writers -> [Aggregates -> Nat \cup {NoVersion}]]
  <2>1. ASSUME NEW w \in Writers, NEW a \in Aggregates, ReadAggregate(w, a)
        PROVE  readAs' \in [Writers -> [Aggregates -> Nat \cup {NoVersion}]]
    <3>1. Len(eventLog[a]) \in Nat
      BY DEF DeliveryInv, DeliveryInvariant, DeliveryTypeOK
    <3> QED BY <2>1, <3>1 DEF DeliveryInv, HistoryTypeOK, ReadAggregate
  <2>2. ASSUME NEW m \in EventIds, SendMessage(m) \/ MarkPublished(m)
        PROVE  readAs' = readAs
    BY <2>2 DEF SendMessage, MarkPublished
  <2> QED BY <2>1, <2>2 DEF DeliveryInv, HistoryTypeOK
<1>4. DeliveryTypeOK' /\ HistoryTypeOK'
  BY <1>1, <1>2, <1>3 DEF DeliveryInv, DeliveryInvariant, DeliveryTypeOK, HistoryTypeOK
<1>5. EffectivelyOnce' /\ NoLostUpdate'
  BY <1>1 DEF DeliveryInv, DeliveryInvariant, EffectivelyOnce, NoLostUpdate, Recorded
<1>6. WorkOnFile' /\ BackupSound'
  BY <1>1 DEF DeliveryInv, WorkOnFile, BackupSound
<1> QED
  BY <1>4, <1>5, <1>6 DEF DeliveryInv, DeliveryInvariant

\* An append adds one event at the end of its aggregate and one message; the
\* writer had read all that was there.
LEMMA AppendPreserves ==
  ASSUME DeliveryInv, NEW w \in Writers, NEW e \in EventIds, AppendEvent(w, e)
  PROVE  DeliveryInv'
<1> DEFINE g == Aggregate[e]
           n == Len(eventLog[g])
<1>1. g \in Aggregates
  BY DEF Aggregates
<1>2. /\ DeliveryTypeOK /\ HistoryTypeOK /\ EffectivelyOnce /\ NoLostUpdate
      /\ WorkOnFile /\ BackupSound
  BY DEF DeliveryInv, DeliveryInvariant
<1>3. /\ e \notin Recorded
      /\ eventLog' = [eventLog EXCEPT ![g] = Append(@, e)]
      /\ DOMAIN outbox' = DOMAIN outbox \cup {e}
      /\ basedOn' = [basedOn EXCEPT ![e] = n]
      /\ UNCHANGED <<readAs, inFlight, inbox, worked, backup, restores>>
  BY DEF AppendEvent, ExpectedVersion
<1>4. eventLog[g] \in Seq(EventIds) /\ n \in Nat
  BY <1>1, <1>2 DEF DeliveryTypeOK
<1>5. /\ eventLog' \in [Aggregates -> Seq(EventIds)]
      /\ eventLog'[g] = Append(eventLog[g], e)
      /\ \A a \in Aggregates \ {g} : eventLog'[a] = eventLog[a]
  BY <1>1, <1>2, <1>3, <1>4 DEF DeliveryTypeOK
<1>6. /\ DOMAIN eventLog'[g] = 1 .. n + 1 /\ DOMAIN eventLog[g] = 1 .. n
      /\ \A i \in 1 .. n : eventLog'[g][i] = eventLog[g][i]
      /\ eventLog'[g][n + 1] = e
  BY <1>4, <1>5
<1>7. DeliveryTypeOK' /\ HistoryTypeOK'
  BY <1>2, <1>3, <1>4, <1>5 DEF DeliveryTypeOK, HistoryTypeOK
<1>8. ToSet(eventLog'[g]) = ToSet(eventLog[g]) \cup {e}
  BY <1>4, <1>6 DEF ToSet
<1>9. Recorded' = Recorded \cup {e}
  <2>1. \A x : x \in Recorded <=> \E a \in Aggregates : x \in ToSet(eventLog[a])
    BY DEF Recorded
  <2>2. \A x : x \in Recorded' <=> \E a \in Aggregates : x \in ToSet(eventLog'[a])
    BY DEF Recorded
  <2> QED BY <2>1, <2>2, <1>1, <1>5, <1>8
<1>10. EffectivelyOnce' /\ WorkOnFile' /\ BackupSound'
  BY <1>2, <1>3, <1>9 DEF EffectivelyOnce, WorkOnFile, BackupSound
<1>11. ASSUME restores' = 0, NEW a \in Aggregates, NEW i \in DOMAIN eventLog'[a]
       PROVE  basedOn'[eventLog'[a][i]] = i - 1
  <2>1. CASE a = g /\ i = n + 1
    BY <2>1, <1>2, <1>3, <1>4, <1>6 DEF HistoryTypeOK
  <2>2. CASE ~ (a = g /\ i = n + 1)
    <3>1. i \in DOMAIN eventLog[a] /\ eventLog'[a][i] = eventLog[a][i]
      <4>1. CASE a = g
        <5>1. i \in 1 .. n + 1 /\ i # n + 1
          BY <1>6, <1>11, <2>2, <4>1
        <5>2. i \in 1 .. n
          BY <1>4, <5>1
        <5> QED BY <1>6, <4>1, <5>2
      <4>2. CASE a # g
        BY <1>5, <1>11, <4>2
      <4> QED BY <4>1, <4>2
    <3>2. eventLog[a][i] \in Recorded /\ eventLog[a][i] \in EventIds
      BY <3>1, <1>2 DEF Recorded, ToSet, DeliveryTypeOK
    <3>3. basedOn'[eventLog[a][i]] = basedOn[eventLog[a][i]]
      BY <3>2, <1>2, <1>3 DEF HistoryTypeOK
    <3> QED BY <3>1, <3>3, <1>2, <1>3, <1>11 DEF NoLostUpdate
  <2> QED BY <2>1, <2>2
<1>12. NoLostUpdate'
  BY <1>11 DEF NoLostUpdate
<1> QED
  BY <1>7, <1>10, <1>12 DEF DeliveryInv, DeliveryInvariant

\* A copy counts once until a restore forgets its key.
LEMMA ReceiveMessagePreserves ==
  ASSUME DeliveryInv, NEW m \in EventIds, ReceiveMessage(m)
  PROVE  DeliveryInv'
<1>1. /\ DeliveryTypeOK /\ HistoryTypeOK /\ EffectivelyOnce /\ NoLostUpdate
      /\ WorkOnFile /\ BackupSound
  BY DEF DeliveryInv, DeliveryInvariant
<1>2. /\ UNCHANGED <<eventLog, outbox, readAs, basedOn, inFlight, backup, restores>>
      /\ m \in inFlight /\ worked[m] < MaxDeliveries
      /\ \/ m \notin inbox /\ inbox' = inbox \cup {m} /\ worked' = [worked EXCEPT ![m] = @ + 1]
         \/ UNCHANGED <<inbox, worked>>
  BY DEF ReceiveMessage, ReceiveOnce
<1>3. /\ inbox' \subseteq EventIds
      /\ worked' \in [EventIds -> 0 .. MaxDeliveries]
      /\ \A x \in EventIds : worked'[x] = worked[x] \/ (x = m /\ worked'[x] = worked[x] + 1 /\ m \notin inbox)
      /\ worked'[m] = worked[m] + 1 => m \in inbox'
      /\ inbox \subseteq inbox' /\ inbox' \subseteq inbox \cup {m}
  BY <1>1, <1>2, DeliveryConstants DEF DeliveryTypeOK
<1>6. DeliveryTypeOK' /\ HistoryTypeOK' /\ NoLostUpdate' /\ BackupSound'
  BY <1>1, <1>2, <1>3 DEF DeliveryTypeOK, HistoryTypeOK, NoLostUpdate, BackupSound
<1>4. Recorded' = Recorded
  BY <1>2 DEF Recorded
<1>5. EffectivelyOnce' /\ WorkOnFile'
  <2>1. ASSUME NEW x \in EventIds
        PROVE  /\ worked'[x] <= 1 + restores'
               /\ worked'[x] > 0 => x \in inFlight'
               /\ x \notin inbox' => worked'[x] <= restores'
    <3>1. worked[x] \in Nat /\ restores \in Nat /\ worked[m] \in Nat
      BY <1>1 DEF DeliveryTypeOK, HistoryTypeOK
    <3> QED BY <3>1, <1>1, <1>2, <1>3 DEF EffectivelyOnce, WorkOnFile
  <2> QED BY <2>1, <1>1, <1>2, <1>4 DEF EffectivelyOnce, WorkOnFile
<1> QED
  BY <1>5, <1>6 DEF DeliveryInv, DeliveryInvariant

\* A snapshot or a restore: what comes back was sound when it was taken, and
\* the restore pays for the keys it forgets.
LEMMA RestorePreserves ==
  ASSUME DeliveryInv, TakeSnapshot \/ RestoreRepository
  PROVE  DeliveryInv'
<1>1. /\ DeliveryTypeOK /\ HistoryTypeOK /\ EffectivelyOnce /\ NoLostUpdate
      /\ WorkOnFile /\ BackupSound
  BY DEF DeliveryInv, DeliveryInvariant
<1>2. CASE TakeSnapshot
  <2>1. /\ UNCHANGED <<eventLog, outbox, inbox, readAs, basedOn, inFlight, worked, restores>>
        /\ backup' = Saved
    BY <1>2 DEF TakeSnapshot, repositoryVars
  <2>2. BackupSound'
    BY <2>1, <1>1 DEF BackupSound, Saved, EffectivelyOnce, Recorded, DeliveryTypeOK
  <2> QED
    BY <1>1, <2>1, <2>2 DEF DeliveryInv, DeliveryInvariant, DeliveryTypeOK, HistoryTypeOK,
       EffectivelyOnce, NoLostUpdate, WorkOnFile, Recorded
<1>3. CASE RestoreRepository
  <2>1. /\ eventLog' = backup.log /\ outbox' = backup.outbox /\ inbox' = backup.inbox
        /\ restores' = restores + 1
        /\ UNCHANGED <<readAs, basedOn, inFlight, worked, backup>>
    BY <1>3 DEF RestoreRepository
  <2>2. Recorded' = DOMAIN outbox'
    BY <2>1, <1>1 DEF Recorded, BackupSound
  <2>3. DOMAIN outbox' \subseteq EventIds
    BY <2>1, <2>2, <1>1 DEF Recorded, ToSet, BackupSound
  <2>4. DeliveryTypeOK' /\ HistoryTypeOK' /\ BackupSound'
    BY <2>1, <2>3, <1>1 DEF DeliveryTypeOK, HistoryTypeOK, BackupSound
  <2>5. EffectivelyOnce' /\ NoLostUpdate' /\ WorkOnFile'
    BY <2>1, <2>2, <1>1 DEF EffectivelyOnce, NoLostUpdate, WorkOnFile, DeliveryTypeOK,
       HistoryTypeOK
  <2> QED BY <2>4, <2>5 DEF DeliveryInv, DeliveryInvariant
<1> QED
  BY <1>2, <1>3

\* Every step of the stores, the outbox and the consumers.
LEMMA DeliveryStep == DeliveryInv /\ [DeliveryNext]_deliveryVars => DeliveryInv'
<1> SUFFICES ASSUME DeliveryInv, [DeliveryNext]_deliveryVars PROVE DeliveryInv'
  OBVIOUS
<1>1. CASE DeliveryNext
  BY <1>1, QuietPreserves, AppendPreserves, ReceiveMessagePreserves, RestorePreserves
  DEF DeliveryNext
<1>2. CASE UNCHANGED deliveryVars
  BY <1>2 DEF deliveryVars, repositoryVars, DeliveryInv, DeliveryInvariant, DeliveryTypeOK,
     HistoryTypeOK, EffectivelyOnce, NoLostUpdate, WorkOnFile, BackupSound, Recorded
<1> QED
  BY <1>1, <1>2

\* For any writers, events and number of restores: a message is acted on once
\* between restores and only if it was sent, events and messages are stored
\* together, and no event is appended on a version its writer had not read.
THEOREM DeliveryIsEffectivelyOnce == DeliverySpec => []DeliveryInvariant
<1>1. DeliveryInv => DeliveryInvariant
  BY DEF DeliveryInv
<1> QED
  BY <1>1, DeliveryInitial, DeliveryStep, PTL DEF DeliverySpec
----------------------------------------------------------------------------
(* ProviderCalls *)

\* A provider that is found is bound, and supports the capability.
LEMMA ProviderFound ==
  ASSUME bound \in Seq(STRING), NEW c, ProviderFor(c) # NoProvider
  PROVE  Supports(ProviderFor(c), c)
<1> DEFINE able == {i \in DOMAIN bound : Supports(bound[i], c)}
           first == CHOOSE i \in able : \A j \in able : i <= j
<1>1. able # {} /\ ProviderFor(c) = bound[first]
  BY DEF ProviderFor
<1>2. able \subseteq Nat
  OBVIOUS
<1> HIDE DEF able
<1>3. \E i \in able : \A j \in able : i <= j
  BY <1>1, <1>2, NatLeast
<1>4. first \in able
  BY <1>3
<1> QED
  BY <1>1, <1>4 DEF able

\* What comes of a body is what it said.
LEMMA BodyIsHeard ==
  ASSUME NEW outcome \in Outcomes, NEW rest \in Texts \cup {NoText}, Body(outcome, rest).success
  PROVE  LET reply == Body(outcome, rest).output
         IN  /\ reply \in Outputs /\ ~reply.marked
             /\ IF reply.blank THEN outcome.kind \in {"missing", "empty"}
                ELSE outcome.kind = "answer" /\ reply.text = outcome.text
  BY DEF Body, Success, Failure, Sent, Blank, Outcomes, Outputs

\* A success is marked, or what the server sent; that of a cloud service is not
\* marked.
LEMMA SuccessIsHeard ==
  ASSUME NEW p, p # NoProvider, NEW c, NEW outcome \in Outcomes,
         ProviderResult(p, c, outcome).success
  PROVE  /\ Genuine(ProviderResult(p, c, outcome).output, Heard(p, outcome))
         /\ p \in Cloud => ~ProviderResult(p, c, outcome).output.marked
         /\ ProviderResult(p, c, outcome).output \in Outputs
<1> DEFINE result == ProviderResult(p, c, outcome)
           Fine(reply) == /\ Genuine(reply, Heard(p, outcome))
                          /\ p \in Cloud => ~reply.marked
                          /\ reply \in Outputs
           AnyText == Texts \cup {NoText}
<1>1. ASSUME NEW rest \in AnyText, p # "reference", Body(outcome, rest).success
      PROVE  Fine(Body(outcome, rest).output)
  BY <1>1, BodyIsHeard DEF Heard, Genuine
<1>2. ~Failure.success
  BY DEF Failure
<1>3. ASSUME NEW text \in AnyText, p \notin Cloud
      PROVE  Fine(Success(MadeUp(text)).output)
  BY <1>3 DEF Success, MadeUp, Genuine, Outputs
<1>4. ASSUME NEW text \in AnyText, p \in {"vllm", "ollama"}, Instead(outcome, MadeUp(text)).success
      PROVE  Fine(Instead(outcome, MadeUp(text)).output)
  <2>1. p # "reference" /\ p \notin Cloud
    BY <1>4 DEF Cloud
  <2> HIDE DEF Fine
  <2> QED BY <2>1, <1>1, <1>3, <1>4 DEF Instead
<1> SUFFICES Fine(result.output)
  OBVIOUS
<1> HIDE DEF Fine
<1>5. outcome.text \in AnyText /\ NoText \in AnyText
  BY DEF Outcomes
<1>6. Supports(p, c)
  BY <1>2 DEF ProviderResult
<1>7. CASE p \in {"vllm", "ollama"}
  <2>1. \E text \in AnyText : result = Instead(outcome, MadeUp(text))
    BY <1>6, <1>7, <1>5 DEF ProviderResult, VllmExecute, VllmChat, VllmEmbeddings,
       OllamaExecute, OllamaChat, OllamaEmbeddings
  <2> QED BY <2>1, <1>4, <1>7
<1>8. CASE p \in Cloud
  <2>1. \E rest \in AnyText : result \in {Failure, Body(outcome, rest)}
    BY <1>6, <1>8, <1>5 DEF Cloud, ProviderResult, OpenAIExecute, OpenAIChat, OpenAIEmbeddings,
       AnthropicMessages, GeminiContent
  <2>2. p # "reference"
    BY <1>8 DEF Cloud
  <2> QED BY <2>1, <2>2, <1>1, <1>2
<1>9. CASE p \notin Cloud /\ p \notin {"vllm", "ollama"}
  <2>1. result = Success(MadeUp(NoText))
    BY <1>6, <1>9 DEF Cloud, ProviderResult, ReferenceExecute
  <2> QED BY <2>1, <1>3, <1>9, <1>5
<1> QED
  BY <1>7, <1>8, <1>9

\* The binding of a runtime does not change, so neither does the provider of a
\* capability.
LEMMA SameProvider ==
  ASSUME bound' = bound, NEW c
  PROVE  ProviderFor(c)' = ProviderFor(c)
  BY DEF ProviderFor

\* What was sent stays sent.
LEMMA StaysGenuine ==
  ASSUME NEW S, NEW T, S \subseteq T, NEW reply, Genuine(reply, S)
  PROVE  Genuine(reply, T)
  BY DEF Genuine

\* A call that is made, whatever comes of it.
LEMMA CallPreserves ==
  ASSUME ProvidersInv, NEW m \in ModuleNames, NEW outcome \in Outcomes, RunModule(m, outcome)
  PROVE  ProvidersInv'
<1> DEFINE p == ProviderFor(Needs[m])
           q == RequestOf(m)
           result == ProviderResult(p, Needs[m], outcome)
<1>1. /\ bound \in Seq(STRING) /\ CompletedByServer /\ RecordedFromProvider
      /\ DOMAIN completed = ModuleNames
      /\ DOMAIN outputsRecorded = Requests /\ DOMAIN said = Requests
      /\ \A k \in ModuleNames : completed[k] # NoOutputYet => completed[k].output # NoOutputYet
  BY DEF ProvidersInv
<1>2. q \in Requests /\ q[1] = Needs[m]
  BY DEF Requests, RequestOf
<1>3. /\ bound' = bound /\ mode' = mode
      /\ said' = [said EXCEPT ![q] = @ \cup Heard(p, outcome)]
  BY DEF RunModule
<1>4. \A r \in Requests : said[r] \subseteq said'[r]
  BY <1>1, <1>2, <1>3
<1>5. \A k \in ModuleNames : RequestOf(k) \in Requests
  BY DEF Requests
<1>6. CASE UNCHANGED <<completed, outputsRecorded>>
  <2>1. CompletedByServer'
    BY <1>1, <1>3, <1>4, <1>5, <1>6, SameProvider, StaysGenuine DEF CompletedByServer
  <2>2. RecordedFromProvider'
    BY <1>1, <1>3, <1>4, <1>6, SameProvider, StaysGenuine DEF RecordedFromProvider
  <2> QED BY <2>1, <2>2, <1>1, <1>3, <1>6 DEF ProvidersInv
<1>7. CASE ~ UNCHANGED <<completed, outputsRecorded>>
  <2>1. /\ p # NoProvider /\ result.success
        /\ mode = "RECORD" => outputsRecorded[q] \in {NoOutputYet, result.output}
        /\ completed' = [completed EXCEPT ![m] = [provider |-> p, output |-> result.output]]
        /\ outputsRecorded' = IF mode = "RECORD"
                              THEN [outputsRecorded EXCEPT ![q] = result.output]
                              ELSE outputsRecorded
        /\ mode \in {"LIVE", "RECORD"}
    BY <1>7 DEF RunModule, Raise, CompleteModule, Conflicts
  <2>2. Supports(p, Needs[m])
    BY <2>1, <1>1, ProviderFound
  <2>3. (p \in Cloud => ~result.output.marked) /\ result.output # NoOutputYet
    BY <2>1, SuccessIsHeard, ProviderConstants
  <2>4. Genuine(result.output, said'[q])
    <3>1. Heard(p, outcome) \subseteq said'[q]
      BY <1>1, <1>2, <1>3
    <3>2. Genuine(result.output, Heard(p, outcome))
      BY <2>1, SuccessIsHeard
    <3> QED BY <3>1, <3>2, StaysGenuine
  <2>5. p = ProviderFor(Needs[m])
    OBVIOUS
  <2>6. q = RequestOf(m)
    OBVIOUS
  <2> HIDE DEF p, q, result
  <2>7. CompletedByServer'
    <3> SUFFICES ASSUME NEW k \in ModuleNames, completed'[k] # NoOutputYet
                 PROVE  /\ completed'[k].provider = ProviderFor(Needs[k])
                        /\ Supports(completed'[k].provider, Needs[k])
                        /\ Genuine(completed'[k].output, said'[RequestOf(k)])
                        /\ completed'[k].provider \in Cloud => ~completed'[k].output.marked
                        /\ mode \in {"RECORD", "REPLAY"} =>
                             completed'[k].output = outputsRecorded'[RequestOf(k)]
      BY <1>3, SameProvider DEF CompletedByServer
    <3>1. CASE k = m
      <4>1. completed'[m] = [provider |-> p, output |-> result.output]
        BY <2>1, <1>1
      <4>2. mode \in {"RECORD", "REPLAY"} => outputsRecorded'[q] = result.output
        BY <2>1, <1>1, <1>2
      <4> QED BY <3>1, <4>1, <4>2, <2>2, <2>3, <2>4, <2>5, <2>6
    <3>2. CASE k # m
      <4>1. completed'[k] = completed[k]
        BY <3>2, <2>1, <1>1
      <4>2. /\ completed[k].provider = ProviderFor(Needs[k])
            /\ Supports(completed[k].provider, Needs[k])
            /\ Genuine(completed[k].output, said[RequestOf(k)])
            /\ completed[k].provider \in Cloud => ~completed[k].output.marked
            /\ mode \in {"RECORD", "REPLAY"} =>
                 completed[k].output = outputsRecorded[RequestOf(k)]
        BY <4>1, <1>1 DEF CompletedByServer
      <4>3. Genuine(completed[k].output, said'[RequestOf(k)])
        BY <1>4, <1>5, <4>2, StaysGenuine
      <4>4. mode \in {"RECORD", "REPLAY"} =>
              completed[k].output = outputsRecorded'[RequestOf(k)]
        <5>1. CASE RequestOf(k) # q
          BY <5>1, <4>2, <2>1, <1>1, <1>5
        <5>2. CASE RequestOf(k) = q /\ mode = "RECORD"
          <6>1. completed[k].output = outputsRecorded[q]
            BY <5>2, <4>2
          <6>2. CASE outputsRecorded[q] = result.output
            BY <6>1, <6>2, <5>2, <2>1, <1>1, <1>2
          <6>3. CASE outputsRecorded[q] = NoOutputYet
            BY <6>1, <6>3, <4>1, <1>1
          <6> QED BY <6>2, <6>3, <5>2, <2>1
        <5> QED BY <5>1, <5>2, <4>2, <2>1
      <4> QED BY <4>1, <4>2, <4>3, <4>4
    <3> QED BY <3>1, <3>2
  <2>8. RecordedFromProvider'
    <3> SUFFICES ASSUME NEW r \in Requests, outputsRecorded'[r] # NoOutputYet
                 PROVE  /\ Genuine(outputsRecorded'[r], said'[r])
                        /\ ProviderFor(r[1]) \in Cloud => ~outputsRecorded'[r].marked
      BY <1>3, SameProvider DEF RecordedFromProvider
    <3>1. CASE outputsRecorded'[r] = outputsRecorded[r]
      BY <3>1, <1>1, <1>4, StaysGenuine DEF RecordedFromProvider
    <3>2. CASE outputsRecorded'[r] # outputsRecorded[r]
      <4>1. r = q /\ outputsRecorded'[r] = result.output
        BY <3>2, <2>1, <1>1
      <4> QED BY <4>1, <2>3, <2>4, <2>5, <1>2
    <3> QED BY <3>1, <3>2
  <2>9. \A k \in ModuleNames : completed'[k] # NoOutputYet => completed'[k].output # NoOutputYet
    BY <2>1, <2>3, <1>1
  <2> QED BY <2>7, <2>8, <2>9, <2>1, <1>1, <1>3 DEF ProvidersInv
<1> QED
  BY <1>6, <1>7

\* Every step of a call and of the servers.
LEMMA ProvidersStep == ProvidersInv /\ [ProvidersNext]_providerVars => ProvidersInv'
<1> SUFFICES ASSUME ProvidersInv, [ProvidersNext]_providerVars PROVE ProvidersInv'
  OBVIOUS
<1>1. /\ bound \in Seq(STRING) /\ CompletedByServer /\ RecordedFromProvider
      /\ DOMAIN completed = ModuleNames
      /\ DOMAIN outputsRecorded = Requests /\ DOMAIN said = Requests
      /\ \A k \in ModuleNames : completed[k] # NoOutputYet => completed[k].output # NoOutputYet
  BY DEF ProvidersInv
<1>2. \A k \in ModuleNames : RequestOf(k) \in Requests
  BY DEF Requests
<1>3. ASSUME bound' = bound, said' = said, outputsRecorded' = outputsRecorded
      PROVE  RecordedFromProvider'
  BY <1>1, <1>3, SameProvider DEF RecordedFromProvider, Genuine
<1>4. ASSUME NEW m \in ModuleNames, RunModuleOffline(m) PROVE ProvidersInv'
  <2> DEFINE p == ProviderFor(Needs[m])
             q == RequestOf(m)
  <2>1. /\ bound' = bound /\ said' = said /\ mode' = mode /\ outputsRecorded' = outputsRecorded
        /\ \/ completed' = completed
           \/ /\ p # NoProvider /\ outputsRecorded[q] # NoOutputYet
              /\ completed' = [completed EXCEPT ![m] = [provider |-> p, output |-> outputsRecorded[q]]]
    BY <1>4 DEF RunModuleOffline, Raise, CompleteModule
  <2>2. q \in Requests /\ q[1] = Needs[m]
    BY DEF Requests, RequestOf
  <2>3. p # NoProvider => Supports(p, Needs[m])
    BY <1>1, ProviderFound
  <2>4. outputsRecorded[q] # NoOutputYet =>
          /\ Genuine(outputsRecorded[q], said[q])
          /\ p \in Cloud => ~outputsRecorded[q].marked
    BY <2>2, <1>1 DEF RecordedFromProvider
  <2>5. p = ProviderFor(Needs[m]) /\ q = RequestOf(m)
    OBVIOUS
  <2> HIDE DEF p, q
  <2>6. CompletedByServer'
    BY <2>1, <2>3, <2>4, <2>5, <1>1, SameProvider DEF CompletedByServer, Genuine
  <2> QED BY <2>1, <2>6, <1>1, <1>3 DEF ProvidersInv
<1>5. ASSUME NEW newMode \in ReplayMode, StartRun(newMode) PROVE ProvidersInv'
  <2>1. /\ completed' = [m \in ModuleNames |-> NoOutputYet]
        /\ UNCHANGED <<bound, outputsRecorded, said>>
    BY <1>5 DEF StartRun
  <2> QED BY <2>1, <1>1, <1>3 DEF ProvidersInv, CompletedByServer
<1>6. CASE UNCHANGED providerVars
  <2>1. UNCHANGED <<bound, mode, completed, outputsRecorded, said>>
    BY <1>6 DEF providerVars
  <2>2. CompletedByServer'
    BY <2>1, <1>1, SameProvider DEF CompletedByServer, Genuine
  <2> QED BY <2>1, <2>2, <1>1, <1>3 DEF ProvidersInv
<1> QED
  BY <1>4, <1>5, <1>6, CallPreserves DEF ProvidersNext

\* For any binding of providers, any modules and any outcomes on the wire: an
\* unmarked completion is what some server sent for that request, a cloud
\* service's is never marked, and recorded and replayed runs complete with what
\* is on record.
THEOREM CompletionsComeFromServers == ProvidersSpec => []CompletedByServer
<1>1. ProvidersInit => ProvidersInv
  BY ProviderConstants DEF ProvidersInit, ProvidersInv, CompletedByServer, RecordedFromProvider
<1>2. ProvidersInv => CompletedByServer
  BY DEF ProvidersInv
<1> QED
  BY <1>1, <1>2, ProvidersStep, PTL DEF ProvidersSpec
----------------------------------------------------------------------------
(* ContentRegistries and PluginLoading *)

\* Every step of the two registries.
LEMMA RegistriesStep ==
  HandedOutIntact /\ [RegistriesNext]_registryVars => HandedOutIntact'
<1> SUFFICES ASSUME HandedOutIntact, [RegistriesNext]_registryVars PROVE HandedOutIntact'
  OBVIOUS
<1>1. CASE handed' = <<>>
  BY <1>1 DEF HandedOutIntact
<1>2. ASSUME NEW t \in Tenants, NEW d \in Documents, GetArtifact(t, d) PROVE HandedOutIntact'
  BY <1>2 DEF HandedOutIntact, GetArtifact, Retrievable
<1>3. ASSUME NEW t \in Tenants, NEW d \in Documents, NEW context \in Contexts,
             LoadGraph(t, d, context)
      PROVE  HandedOutIntact'
  <2>1. /\ handed' = [key |-> <<t, d>>, context |-> context, graph |-> TRUE,
                      good |-> objects[<<t, d>>]]
        /\ objects[<<t, d>>] /\ <<t, d>> \in graphRecords /\ graphRecords' = graphRecords
    BY <1>3 DEF LoadGraph, Retrievable
  <2>2. d \in Governed => context.enough /\ t = Owner[d]
    BY <1>3 DEF LoadGraph, AdmittedDocument, ContextFits
  <2> QED BY <2>1, <2>2 DEF HandedOutIntact
<1>4. CASE UNCHANGED registryVars
  BY <1>4 DEF registryVars, HandedOutIntact
<1>5. ASSUME RegistriesNext, handed' # <<>>
      PROVE  \E t \in Tenants, d \in Documents :
               \/ GetArtifact(t, d)
               \/ \E context \in Contexts : LoadGraph(t, d, context)
  BY <1>5 DEF RegistriesNext, Damage, RestoreObjects, RegisterArtifact, RegisterGraph
<1> QED
  BY <1>1, <1>2, <1>3, <1>4, <1>5

\* Of any registrations, damage and restores of any store: what is handed out
\* is whole, its tenant's own, and admitted under the context of the request.
THEOREM OnlyIntactIsHandedOut == RegistriesSpec => []HandedOutIntact
<1>1. RegistriesInit => HandedOutIntact
  BY DEF RegistriesInit, HandedOutIntact
<1> QED
  BY <1>1, RegistriesStep, PTL DEF RegistriesSpec

\* Every step of a loader.
LEMMA PluginsStep == PluginsInv /\ [PluginsNext]_pluginVars => PluginsInv'
<1> SUFFICES ASSUME PluginsInv, [PluginsNext]_pluginVars PROVE PluginsInv'
  OBVIOUS
<1>1. ASSUME NEW m \in Manifests, Register(m) PROVE PluginsInv'
  <2>1. /\ loaded' = loaded
        /\ DOMAIN manifests' = DOMAIN manifests \cup {m.plugin}
        /\ DOMAIN fingerprints' = DOMAIN fingerprints \cup {m.plugin}
        /\ \A p \in DOMAIN fingerprints : fingerprints'[p] = fingerprints[p]
    BY <1>1 DEF Register, PluginsInv
  <2> QED BY <2>1 DEF PluginsInv, LoadedAsAdmitted
<1>2. ASSUME NEW p \in Plugins, LoadPlugin(p) PROVE PluginsInv'
  <2>1. /\ p \in DOMAIN manifests /\ UNCHANGED <<manifests, fingerprints>>
        /\ loaded'.asked = p
        /\ loaded'.got # NotThere =>
             /\ loaded'.got = [plugin |-> p, edition |-> manifests[p]]
             /\ manifests[p] = fingerprints[p]
             /\ Admit([plugin |-> p, edition |-> manifests[p]])
    BY <1>2 DEF LoadPlugin, Implements
  <2> QED BY <2>1 DEF PluginsInv, LoadedAsAdmitted, Admit
<1>3. ASSUME NEW p \in Plugins, NEW e \in Editions, Tamper(p, e) PROVE PluginsInv'
  BY <1>3 DEF Tamper, PluginsInv, LoadedAsAdmitted
<1>4. ASSUME NEW p \in Plugins, NEW what \in Editions \cup Broken, Install(p, what)
      PROVE  PluginsInv'
  BY <1>4 DEF Install, PluginsInv, LoadedAsAdmitted
<1>5. CASE UNCHANGED pluginVars
  BY <1>5 DEF pluginVars, PluginsInv, LoadedAsAdmitted
<1> QED
  BY <1>1, <1>2, <1>3, <1>4, <1>5 DEF PluginsNext

\* Whatever is installed at the entry points and written to the manifests in
\* between: a plugin that is handed out carries the manifest that was admitted
\* when it was registered.
THEOREM PluginsAreAsAdmitted == PluginsSpec => []LoadedAsAdmitted
<1>1. PluginsInit => PluginsInv
  BY DEF PluginsInit, PluginsInv, LoadedAsAdmitted
<1>2. PluginsInv => LoadedAsAdmitted
  BY DEF PluginsInv
<1> QED
  BY <1>1, <1>2, PluginsStep, PTL DEF PluginsSpec

----------------------------------------------------------------------------
(* CapabilityCalls *)

\* No call has begun.
LEMMA CallsInitial == CallsInit => CallsTypeOK
  BY CallConstants DEF CallsInit, CallsTypeOK, CallRecord, Codes, Retry

\* Counting a failure and resuming the loop keep the types, reset no circuit and
\* touch no call but the one they are of.
LEMMA FailureRecorded ==
  ASSUME CallsTypeOK, NEW c \in Calls, NEW next \in Codes \cup {Retry}, RecordFailure(c, next)
  PROVE  /\ call' \in [Calls -> CallRecord]
         /\ failures' \in Nat
         /\ opened' = opened
         /\ \A d \in Calls \ {c} : call'[d] = call[d]
  BY DEF CallsTypeOK, CallRecord, RecordFailure, ResumeCall, GoTo, Respond, Codes, Retry

\* One step of one call.
LEMMA ThreadStepTyped ==
  ASSUME CallsTypeOK, callClock \in Nat, NEW c \in Calls,
         \/ ThreadStep(c) \/ LateAnswer(c) \/ CancelCall(c)
         \/ \E answer \in AdapterAnswers : Answered(c, answer)
  PROVE  /\ CallsTypeOK'
         /\ callClock' \in Nat
         /\ \A d \in Calls \ {c} : call'[d] = call[d]
         /\ call[c].at = "returned" => call'[c].code = call[c].code /\ call'[c].at = "returned"
         /\ opened # Never /\ opened' = Never =>
              \/ callClock - opened >= Recovery
              \/ call[c].at = "waiting" /\ call'[c].code = "SUCCESS"
<1> DEFINE Goal == /\ CallsTypeOK'
                   /\ callClock' \in Nat
                   /\ \A d \in Calls \ {c} : call'[d] = call[d]
                   /\ call[c].at = "returned" => call'[c].code = call[c].code /\ call'[c].at = "returned"
                   /\ opened # Never /\ opened' = Never =>
                        \/ callClock - opened >= Recovery
                        \/ call[c].at = "waiting" /\ call'[c].code = "SUCCESS"
<1> USE CallConstants DEF Codes, Retry, breaker
<1>1. CASE EnterCall(c)
  BY <1>1 DEF EnterCall, CallsTypeOK, CallRecord, GoTo, Respond
<1>2. CASE Allow(c)
  BY <1>2 DEF Allow, CallsTypeOK, CallRecord, GoTo, Respond
<1>3. CASE Acquire(c)
  <2>1. /\ \/ GoTo(c, Retry)
           \/ \E code \in Codes : Respond(c, code)
        /\ call[c].at = "limiter"
        /\ UNCHANGED <<cancelled, failures, opened, orphans, callClock>>
    BY <1>3 DEF Acquire
  <2> QED BY <2>1 DEF CallsTypeOK, CallRecord, GoTo, Respond
<1>4. CASE Attempt(c)
  <2>1. CASE call[c].attempts > MaxRetries
    BY <1>4, <2>1 DEF Attempt, CallsTypeOK, CallRecord, Respond
  <2>2. CASE ~(call[c].attempts > MaxRetries)
    <3>1. call[c].attempts + 1 \in 0 .. MaxRetries + 1
      BY <2>2 DEF CallsTypeOK, CallRecord
    <3>2. PICK at \in {"returned", "waiting"}, code \in {"CANCELLED", Never} :
            call' = [call EXCEPT ![c] = Started(c, at, code)]
      BY <1>4, <2>2 DEF Attempt
    <3>3. Started(c, at, code) \in CallRecord
      <4>1. ASSUME NEW r \in CallRecord, r.attempts + 1 \in 0 .. MaxRetries + 1
            PROVE  [r EXCEPT !.at = at, !.code = code, !.attempts = @ + 1] \in CallRecord
        BY <4>1 DEF CallRecord
      <4>2. call[c] \in CallRecord
        BY DEF CallsTypeOK, CallRecord
      <4> QED BY <3>1, <4>1, <4>2 DEF Started
    <3>4. call[c].at = Retry /\ UNCHANGED <<cancelled, failures, opened, orphans, callClock>>
      BY <1>4 DEF Attempt
    <3> QED BY <3>2, <3>3, <3>4 DEF CallsTypeOK, CallRecord
  <2> QED BY <2>1, <2>2
<1>5. CASE Deadline(c)
  BY <1>5, FailureRecorded DEF Deadline, CallsTypeOK, CallRecord
<1>6. CASE OpenCircuit(c)
  BY <1>6 DEF OpenCircuit, CallsTypeOK, CallRecord, ResumeCall, GoTo, Respond
<1>7. CASE LateAnswer(c)
  BY <1>7 DEF LateAnswer, CallsTypeOK, CallRecord
<1>8. CASE CancelCall(c)
  BY <1>8 DEF CancelCall, CallsTypeOK, CallRecord
<1>9. ASSUME NEW answer \in AdapterAnswers, Answered(c, answer)
      PROVE  Goal
  <2>1. CASE \E next \in Codes \cup {Retry} : RecordFailure(c, next)
    BY <1>9, <2>1, FailureRecorded DEF Answered, CallsTypeOK, CallRecord
  <2>2. CASE Respond(c, "CANCELLED") /\ UNCHANGED breaker
    BY <1>9, <2>2 DEF Answered, CallsTypeOK, CallRecord, Respond
  <2>3. CASE RecordSuccess /\ Respond(c, "SUCCESS")
    BY <1>9, <2>3 DEF Answered, CallsTypeOK, CallRecord, Respond, RecordSuccess
  <2> QED BY <1>9, <2>1, <2>2, <2>3 DEF Answered
<1> QED BY <1>1, <1>2, <1>3, <1>4, <1>5, <1>6, <1>7, <1>8, <1>9 DEF ThreadStep

\* Of ProviderAdapter.execute between threads that share its breaker and its
\* limiter without a lock: for any number of calls, an open circuit closes only
\* after the recovery time or for a success already under way, and a response
\* is final whatever its abandoned attempts answer later.
THEOREM CallsAreSafe == CallsSpec => CallsSafety
<1> DEFINE Inv == CallsTypeOK /\ callClock \in Nat
<1>1. CallsInit => Inv
  BY CallsInitial DEF CallsInit
<1>2. Inv /\ [CallsNext]_callVars => Inv'
  <2> SUFFICES ASSUME Inv, [CallsNext]_callVars PROVE Inv'
    OBVIOUS
  <2>1. CASE CallTick
    BY <2>1 DEF CallTick, CallsTypeOK, CallRecord, breaker
  <2>2. CASE UNCHANGED callVars
    BY <2>2 DEF callVars, CallsTypeOK, CallRecord
  <2> QED BY <2>1, <2>2, ThreadStepTyped DEF CallsNext
<1>3. Inv /\ [CallsNext]_callVars =>
        [opened # Never /\ opened' = Never =>
           \/ callClock - opened >= Recovery
           \/ \E c \in Calls : call[c].at = "waiting" /\ call'[c].code = "SUCCESS"]_callVars
  BY ThreadStepTyped DEF CallsNext, CallTick, breaker
<1>4. Inv /\ [CallsNext]_callVars =>
        [\A c \in Calls : call[c].at = "returned" =>
           call'[c].code = call[c].code /\ call'[c].at = "returned"]_callVars
  <2> SUFFICES ASSUME Inv, CallsNext, NEW c \in Calls, call[c].at = "returned"
               PROVE  call'[c].code = call[c].code /\ call'[c].at = "returned"
    OBVIOUS
  <2>1. CASE CallTick
    BY <2>1 DEF CallTick
  <2> QED BY <2>1, ThreadStepTyped DEF CallsNext
<1> QED BY <1>1, <1>2, <1>3, <1>4, PTL DEF CallsSpec, CallsSafety, OpenUntilRecovered, ResponsesFinal

----------------------------------------------------------------------------
(* ProvenanceChain *)

\* The least of some numbers.
LEMMA LeastOf ==
  ASSUME NEW T \in SUBSET Nat, T # {}
  PROVE  Min(T) \in T /\ \A y \in T : Min(T) <= y
BY NatLeast DEF Min

\* What an appender is while it appends.
LEMMA WorkingIs ==
  ASSUME ChainTypeOK, NEW t \in Appenders
  PROVE  /\ appender[t] = NotAppending => appender[t].at = "idle"
         /\ appender[t] # NotAppending => appender[t] \in Working
         /\ appender[t].at # "idle" => appender[t] # NotAppending
         /\ appender[t] # NotAppending => appender[t].at \in {"begun", "appended"} \cup Indexing
BY DEF ChainTypeOK, NotAppending, Working

\* What the chain holds.
LEMMA EntryIs ==
  ASSUME ChainTypeOK
  PROVE  /\ Len(chain) \in Nat /\ DOMAIN chain = 1 .. Len(chain)
         /\ \A i \in DOMAIN chain :
              /\ chain[i].id \in Ids /\ chain[i].cause \in Ids \cup {NoCause}
              /\ chain[i].payload \in {"as appended", "altered"} /\ chain[i].hash \in Hashes
<1>1. chain \in Seq(Entries)
  BY DEF ChainTypeOK
<1>2. Len(chain) \in Nat /\ DOMAIN chain = 1 .. Len(chain) /\ \A i \in DOMAIN chain : chain[i] \in Entries
  BY <1>1
<1> QED BY <1>2 DEF Entries

\* A thread is at another place in append() with what it had.
MovedTo(t, a) ==
  /\ appender' \in [Appenders -> Working \cup {NotAppending}]
  /\ \A u \in Appenders \ {t} : appender'[u] = appender[u]
  /\ appender'[t] # NotAppending /\ appender'[t].at = a
  /\ appender'[t].id = appender[t].id /\ appender'[t].cause = appender[t].cause
  /\ appender'[t].hash = appender[t].hash

\* That is what a step from place to place does.
LEMMA Moves ==
  ASSUME ChainTypeOK, NEW t \in Appenders, appender[t] # NotAppending,
         NEW a \in {"begun", "appended"} \cup Indexing,
         appender' = [appender EXCEPT ![t].at = a]
  PROVE  MovedTo(t, a) /\ appender'[t].list = appender[t].list
<1> DEFINE w == appender[t]
           v == [w EXCEPT !.at = a]
<1>1. w \in Working
  BY WorkingIs
<1>2. v \in Working /\ v.at = a /\ v.id = w.id /\ v.cause = w.cause /\ v.list = w.list /\ v.hash = w.hash
  <2> HIDE DEF w
  <2> QED BY <1>1 DEF Working
<1>3. v # NotAppending
  <2>1. v.at # "idle"
    BY <1>2 DEF Indexing
  <2> HIDE DEF v
  <2> QED BY <2>1 DEF NotAppending
<1>4. appender \in [Appenders -> Working \cup {NotAppending}]
  BY DEF ChainTypeOK
<1>5. appender' = [appender EXCEPT ![t] = v]
  BY <1>4
<1> HIDE DEF v
<1> QED BY <1>2, <1>3, <1>4, <1>5 DEF MovedTo

\* The same where the thread also loads a list.
LEMMA MovesAndLoads ==
  ASSUME ChainTypeOK, NEW t \in Appenders, appender[t] # NotAppending, NEW l \in Nat,
         appender' = [appender EXCEPT ![t].at = "listing", ![t].list = l]
  PROVE  MovedTo(t, "listing") /\ appender'[t].list = l
<1> DEFINE w == appender[t]
           v == [w EXCEPT !.at = "listing", !.list = l]
<1>1. w \in Working
  BY WorkingIs
<1>2. v \in Working /\ v.at = "listing" /\ v.id = w.id /\ v.cause = w.cause /\ v.list = l /\ v.hash = w.hash
  <2> HIDE DEF w
  <2> QED BY <1>1 DEF Working, Indexing
<1>3. v # NotAppending
  <2>1. v.at # "idle"
    BY <1>2
  <2> HIDE DEF v
  <2> QED BY <2>1 DEF NotAppending
<1>4. appender \in [Appenders -> Working \cup {NotAppending}]
  BY DEF ChainTypeOK
<1>5. appender' = [appender EXCEPT ![t] = v]
  BY <1>4
<1> HIDE DEF v
<1> QED BY <1>2, <1>3, <1>4, <1>5 DEF MovedTo

\* Some id is free: there are fewer events begun than ids.
LEMMA IdFree ==
  ASSUME ChainTypeOK, Begun < MaxAppended
  PROVE  Min(Ids \ TakenIds) \in Ids \ TakenIds
<1> DEFINE P == Pending
           D == DOMAIN chain
           idOf == [i \in D |-> chain[i].id]
           idBy == [u \in P |-> appender[u].id]
           here == {appender[u].id : u \in P}
<1>1. chain \in Seq(Entries) /\ Len(chain) \in Nat /\ D = 1 .. Len(chain)
  BY DEF ChainTypeOK
<1>2. IsFiniteSet(D) /\ Cardinality(D) = Len(chain)
  BY <1>1, FS_Interval
<1>3. IsFiniteSet(P)
  BY ChainConstants, FS_Subset DEF Pending
<1>4. IsFiniteSet(ChainedIds) /\ Cardinality(ChainedIds) <= Len(chain)
  <2>1. idOf \in Surjection(D, ChainedIds)
    BY DEF Surjection, ChainedIds
  <2> HIDE DEF idOf, D
  <2> QED BY <1>2, <2>1, FS_Surjection
<1>5. IsFiniteSet(here) /\ Cardinality(here) <= Cardinality(P)
  <2>1. idBy \in Surjection(P, here)
    BY DEF Surjection
  <2> HIDE DEF idBy, P, here
  <2> QED BY <1>3, <2>1, FS_Surjection
<1>6. TakenIds = ChainedIds \cup here
  BY DEF TakenIds, Pending
<1> HIDE DEF here, P, D
<1>7. /\ IsFiniteSet(TakenIds)
      /\ Cardinality(TakenIds) = Cardinality(ChainedIds) + Cardinality(here) - Cardinality(ChainedIds \cap here)
  BY <1>4, <1>5, <1>6, FS_Union
<1>8. IsFiniteSet(ChainedIds \cap here)
  BY <1>4, FS_Intersection
<1>9. /\ Cardinality(TakenIds) \in Nat /\ Cardinality(ChainedIds) \in Nat /\ Cardinality(here) \in Nat
      /\ Cardinality(ChainedIds \cap here) \in Nat /\ Cardinality(P) \in Nat
  BY <1>3, <1>4, <1>5, <1>7, <1>8, FS_CardinalityType
<1>10. Begun = Len(chain) + Cardinality(P)
  BY DEF Begun, Pending, P
<1>11. Cardinality(TakenIds) < MaxAppended
  BY <1>1, <1>4, <1>5, <1>7, <1>9, <1>10, ChainConstants
<1>12. IsFiniteSet(Ids) /\ Cardinality(Ids) = MaxAppended
  BY ChainConstants, FS_Interval DEF Ids
<1>13. Ids \ TakenIds # {}
  <2> SUFFICES ASSUME Ids \subseteq TakenIds PROVE FALSE
    OBVIOUS
  <2>1. Cardinality(Ids) <= Cardinality(TakenIds)
    BY <1>7, FS_Subset
  <2> QED BY <1>9, <1>11, <1>12, <2>1, ChainConstants
<1>14. Ids \ TakenIds \in SUBSET Nat
  BY DEF Ids
<1> QED BY <1>13, <1>14, LeastOf

\* Appends one after the other number the events.
LEMMA IdNext ==
  ASSUME ChainTypeOK, SerialChain, Busy = {}, Begun < MaxAppended
  PROVE  Min(Ids \ TakenIds) = Len(chain) + 1 /\ TakenIds = 1 .. Len(chain)
<1>1. chain \in Seq(Entries) /\ Len(chain) \in Nat /\ DOMAIN chain = 1 .. Len(chain)
  BY DEF ChainTypeOK
<1>2. \A u \in Appenders : appender[u].at # "begun"
  BY WorkingIs DEF Busy
<1>3. TakenIds = 1 .. Len(chain)
  BY <1>1, <1>2 DEF TakenIds, ChainedIds, SerialChain
<1> DEFINE least == Min(Ids \ TakenIds)
<1>4. least \in Ids \ TakenIds
  BY IdFree
<1>5. \A y \in Ids \ TakenIds : least <= y
  <2>1. Ids \ TakenIds \in SUBSET Nat /\ Ids \ TakenIds # {}
    BY <1>4 DEF Ids
  <2> QED BY <2>1, LeastOf
<1> HIDE DEF least
<1>6. least \in 1 .. MaxAppended /\ ~(least \in 1 .. Len(chain)) /\ MaxAppended \in Nat
  BY <1>3, <1>4, ChainConstants DEF Ids
<1>7. Len(chain) + 1 \in Ids \ TakenIds
  BY <1>1, <1>3, <1>6 DEF Ids
<1>8. least <= Len(chain) + 1
  BY <1>5, <1>7
<1>9. least = Len(chain) + 1
  BY <1>1, <1>6, <1>8
<1> QED BY <1>3, <1>9 DEF least

\* The parts of the state that a step leaves alone.
LEMMA TwinsStay ==
  ASSUME Twins, DOMAIN chain' = DOMAIN chain,
         \A i \in DOMAIN chain : chain'[i].hash = chain[i].hash,
         \A u \in Pending : u \in Pending' /\ appender'[u].hash = appender[u].hash
  PROVE  Twins'
<1>1. CASE \E i, j \in DOMAIN chain : i # j /\ Len(chain[i].hash) = Len(chain[j].hash)
  BY <1>1 DEF Twins
<1>2. CASE \E i \in DOMAIN chain, t \in Pending : Len(chain[i].hash) = Len(appender[t].hash)
  BY <1>2 DEF Twins
<1>3. CASE \E t, u \in Pending : t # u /\ Len(appender[t].hash) = Len(appender[u].hash)
  BY <1>3 DEF Twins
<1> QED BY <1>1, <1>2, <1>3 DEF Twins

\* What a hash over the chain so far ends with.
LEMMA HashEnds ==
  ASSUME NEW h \in Hashes, NEW id \in Ids
  PROVE  /\ ComputeHash(h, id, "as appended") \in Hashes
         /\ EndsWith(ComputeHash(h, id, "as appended"), id)
         /\ Len(ComputeHash(h, id, "as appended")) = Len(h) + 1
<1> DEFINE T == Ids \X {"as appended"}
           x == <<id, "as appended">>
<1>1. x \in T /\ h \in Seq(T)
  BY DEF Hashes
<1> HIDE DEF T, x
<1>2. Append(h, x) \in Seq(T) /\ Len(Append(h, x)) = Len(h) + 1 /\ Append(h, x)[Len(h) + 1] = x
      /\ Append(h, x) # <<>>
  BY <1>1
<1> QED BY <1>2 DEF ComputeHash, EndsWith, Last, Hashes, T, x

\* What an append begins with, and that the state keeps its type.
LEMMA BeginTyped ==
  ASSUME ChainTypeOK, NEW t \in Appenders, NEW cause \in ChainedIds \cup {NoCause}, BeginAppend(t, cause)
  PROVE  /\ ChainTypeOK'
         /\ \E id \in Ids \ TakenIds :
              /\ id = Min(Ids \ TakenIds)
              /\ appender'[t] = [at |-> "begun", id |-> id, cause |-> cause, list |-> 0,
                                 hash |-> ComputeHash(prevHash, id, "as appended")]
              /\ appender'[t] # NotAppending
         /\ \A u \in Appenders \ {t} : appender'[u] = appender[u]
<1> DEFINE id == Min(Ids \ TakenIds)
           hash == ComputeHash(prevHash, id, "as appended")
           w == [at |-> "begun", id |-> id, cause |-> cause, list |-> 0, hash |-> hash]
<1>1. id \in Ids \ TakenIds
  BY IdFree DEF BeginAppend
<1>2. appender' = [appender EXCEPT ![t] = w]
  BY DEF BeginAppend
<1> HIDE DEF id
<1>3. hash \in Hashes /\ EndsWith(hash, id)
  BY <1>1, HashEnds DEF ChainTypeOK
<1> HIDE DEF hash
<1>4. cause \in Ids \cup {NoCause}
  BY EntryIs DEF ChainedIds
<1>5. w \in Working /\ w.hash = hash /\ w.id = id /\ w.at = "begun"
  BY <1>1, <1>3, <1>4 DEF Working
<1>6. w # NotAppending
  <2> HIDE DEF w
  <2> QED BY <1>5 DEF NotAppending
<1>7. appender \in [Appenders -> Working \cup {NotAppending}]
  BY DEF ChainTypeOK
<1>8. /\ appender' \in [Appenders -> Working \cup {NotAppending}] /\ appender'[t] = w
      /\ \A u \in Appenders \ {t} : appender'[u] = appender[u]
  <2> HIDE DEF w
  <2> QED BY <1>2, <1>5, <1>7
<1>9. overlapped' \in BOOLEAN /\ UNCHANGED <<chain, prevHash, causalIndex>>
  BY DEF BeginAppend
<1>10. ASSUME NEW u \in Appenders
       PROVE  /\ appender'[u] # NotAppending => EndsWith(appender'[u].hash, appender'[u].id)
              /\ appender'[u].at \in Indexing => appender'[u].cause # NoCause
              /\ appender'[u].at \in {"loading", "listing"} => appender'[u].cause \in DOMAIN causalIndex'
  <2>1. CASE u = t
    <3> HIDE DEF w
    <3> QED BY <1>3, <1>5, <1>8, <2>1 DEF Indexing
  <2>2. CASE u # t
    BY <1>8, <1>9, <2>2 DEF ChainTypeOK
  <2> QED BY <2>1, <2>2
<1>11. ChainTypeOK'
  BY <1>8, <1>9, <1>10 DEF ChainTypeOK, Ids, Entries, Working, Hashes, NotAppending, Indexing, EndsWith
<1> QED BY <1>1, <1>6, <1>8, <1>11 DEF id, hash

\* An append begins: alone, or on a chain another is about to continue.
LEMMA BeginKeeps ==
  ASSUME ChainInv, NEW t \in Appenders, NEW cause \in ChainedIds \cup {NoCause}, BeginAppend(t, cause)
  PROVE  ChainInv'
<1>1. ChainTypeOK
  BY DEF ChainInv
<1>2. PICK id \in Ids \ TakenIds :
        /\ id = Min(Ids \ TakenIds)
        /\ appender'[t] = [at |-> "begun", id |-> id, cause |-> cause, list |-> 0,
                           hash |-> ComputeHash(prevHash, id, "as appended")]
        /\ appender'[t] # NotAppending
  BY <1>1, BeginTyped
<1>3. ChainTypeOK' /\ \A u \in Appenders \ {t} : appender'[u] = appender[u]
  BY <1>1, BeginTyped
<1>4. /\ UNCHANGED <<chain, prevHash, causalIndex>> /\ overlapped' = (overlapped \/ Busy # {})
      /\ appender[t] = NotAppending /\ appender[t].at = "idle" /\ Begun < MaxAppended
  BY <1>1, WorkingIs DEF BeginAppend
<1> DEFINE hash == ComputeHash(prevHash, id, "as appended")
<1>5. appender'[t].at = "begun" /\ appender'[t].id = id /\ appender'[t].cause = cause /\ appender'[t].hash = hash
  <2> DEFINE w == [at |-> "begun", id |-> id, cause |-> cause, list |-> 0, hash |-> hash]
  <2>1. w.at = "begun" /\ w.id = id /\ w.cause = cause /\ w.hash = hash
    OBVIOUS
  <2>2. appender'[t] = w
    BY <1>2
  <2> HIDE DEF w
  <2> QED BY <2>1, <2>2
<1>6. Len(hash) = Len(prevHash) + 1 /\ hash = Append(prevHash, <<id, "as appended">>)
  BY <1>1, HashEnds DEF ChainTypeOK, ComputeHash
<1> HIDE DEF hash
<1>7. t \notin Pending /\ t \in Pending' /\ \A u \in Pending : u \in Pending' /\ appender'[u].hash = appender[u].hash
  BY <1>3, <1>4, <1>5 DEF Pending
<1>8. CASE overlapped
  <2>1. Twins'
    <3>1. Twins
      BY <1>8 DEF ChainInv
    <3> QED BY <1>4, <1>7, <3>1, TwinsStay
  <2> QED BY <1>3, <1>4, <1>8, <2>1 DEF ChainInv
<1>9. CASE ~overlapped /\ Busy # {}
  <2>1. PICK u \in Appenders : SerialAppend(u)
    BY <1>9 DEF ChainInv
  <2>2. u # t /\ u \in Busy
    BY <1>4, <2>1 DEF SerialAppend, Busy
  <2>3. SerialChain
    BY <1>9 DEF ChainInv
  <2>4. CASE appender[u].at = "begun"
    <3>1. Len(appender[u].hash) = Len(hash)
      <4>1. appender[u].hash = ComputeHash(prevHash, appender[u].id, "as appended")
        BY <2>1, <2>4 DEF SerialAppend, ComputeHash
      <4>2. appender[u].id \in Ids
        BY <1>1, <2>2, WorkingIs DEF Busy, Working
      <4> QED BY <1>1, <1>6, <4>1, <4>2, HashEnds DEF ChainTypeOK
    <3>2. u \in Pending
      BY <2>4 DEF Pending
    <3>3. Twins'
      BY <1>5, <1>7, <2>2, <3>1, <3>2 DEF Twins
    <3> QED BY <1>3, <1>4, <1>9, <3>3 DEF ChainInv
  <2>5. CASE appender[u].at # "begun"
    <3> DEFINE L == Len(chain)
    <3>1. L \in DOMAIN chain
      <4>1. chain # <<>> /\ chain \in Seq(Entries)
        BY <1>1, <2>1, <2>5 DEF SerialAppend, ChainTypeOK
      <4> QED BY <4>1
    <3>2. chain[L].hash = ComputeHash(prevHash, L, "as appended") /\ L \in Ids
      <4>1. chain[L].hash = Append(HashBefore(L), <<L, "as appended">>) /\ chain[L].id = L
        BY <2>3, <3>1 DEF SerialChain
      <4>2. prevHash = HashBefore(L)
        BY <2>1, <2>5 DEF SerialAppend
      <4> QED BY <1>1, <3>1, <4>1, <4>2, EntryIs DEF ComputeHash
    <3>3. Len(chain[L].hash) = Len(hash)
      BY <1>1, <1>6, <3>2, HashEnds DEF ChainTypeOK
    <3> HIDE DEF L
    <3>4. Twins'
      BY <1>4, <1>5, <1>7, <3>1, <3>3 DEF Twins
    <3> QED BY <1>3, <1>4, <1>9, <3>4 DEF ChainInv
  <2> QED BY <2>4, <2>5
<1>10. CASE ~overlapped /\ Busy = {}
  <2>1. SerialChain /\ SerialIndex /\ prevHash = HashBefore(Len(chain) + 1)
    BY <1>10 DEF ChainInv, SerialAppend
  <2>2. id = Len(chain) + 1 /\ TakenIds = 1 .. Len(chain)
    BY <1>1, <1>2, <1>4, <1>10, <2>1, IdNext
  <2>3. SerialChain' /\ HashBefore(Len(chain) + 1)' = HashBefore(Len(chain) + 1)
    BY <1>4, <2>1 DEF SerialChain, HashBefore
  <2>4. \A u \in Appenders : appender[u] = NotAppending /\ appender[u].at = "idle"
    BY <1>1, <1>10, WorkingIs DEF Busy
  <2>5. Busy' = {t}
    BY <1>2, <1>3, <2>4 DEF Busy
  <2>6. cause # NoCause => cause <= Len(chain)
    <3>1. ChainedIds \subseteq 1 .. Len(chain)
      BY <2>2 DEF TakenIds
    <3>2. Len(chain) \in Nat
      BY <1>1, EntryIs
    <3>3. ASSUME cause # NoCause PROVE cause \in 1 .. Len(chain)
      BY <3>1, <3>3
    <3> QED BY <3>2, <3>3
  <2>7. SerialAppend(t)'
    BY <1>4, <1>5, <1>6, <2>1, <2>2, <2>3, <2>5, <2>6 DEF SerialAppend
  <2>8. \A u \in Appenders : appender[u].at \notin Indexing /\ appender'[u].at \notin Indexing
    BY <1>3, <1>5, <2>4 DEF Indexing
  <2>9. IndexedUpTo' = IndexedUpTo
    BY <1>4, <2>8 DEF IndexedUpTo
  <2>10. SerialIndex'
    BY <1>4, <2>1, <2>9 DEF SerialIndex
  <2> QED BY <1>3, <1>4, <1>10, <2>3, <2>7, <2>10 DEF ChainInv
<1> QED BY <1>1, <1>8, <1>9, <1>10 DEF ChainTypeOK

\* Until appends overlap, one that is under way is alone.
LEMMA Alone ==
  ASSUME ChainInv, ~overlapped, NEW t \in Appenders, appender[t] # NotAppending
  PROVE  /\ SerialChain /\ SerialIndex /\ SerialAppend(t)
         /\ \A u \in Appenders \ {t} : appender[u] = NotAppending /\ appender[u].at = "idle"
<1>1. t \in Busy /\ ChainTypeOK
  BY DEF Busy, ChainInv
<1>2. PICK u \in Appenders : SerialAppend(u)
  BY <1>1 DEF ChainInv
<1>3. u = t
  BY <1>1, <1>2 DEF SerialAppend
<1>4. \A v \in Appenders \ {t} : appender[v] = NotAppending
  BY <1>2, <1>3 DEF SerialAppend, Busy
<1> QED BY <1>1, <1>2, <1>3, <1>4, WorkingIs DEF ChainInv

\* The chain with another event.
LEMMA ChainGrows ==
  ASSUME ChainTypeOK, NEW e \in Entries, chain' = Append(chain, e)
  PROVE  /\ chain' \in Seq(Entries) /\ Len(chain') = Len(chain) + 1 /\ DOMAIN chain' = 1 .. Len(chain) + 1
         /\ chain'[Len(chain) + 1] = e /\ chain' # <<>>
         /\ \A i \in 1 .. Len(chain) : chain'[i] = chain[i]
         /\ \A i \in 1 .. Len(chain) + 1 : HashBefore(i)' = HashBefore(i)
<1>1. chain \in Seq(Entries) /\ Len(chain) \in Nat
  BY DEF ChainTypeOK
<1>2. /\ chain' \in Seq(Entries) /\ Len(chain') = Len(chain) + 1 /\ DOMAIN chain' = 1 .. Len(chain) + 1
      /\ chain'[Len(chain) + 1] = e /\ chain' # <<>>
      /\ \A i \in 1 .. Len(chain) : chain'[i] = chain[i]
  BY <1>1
<1>3. \A i \in 1 .. Len(chain) + 1 : i = 1 \/ i - 1 \in 1 .. Len(chain)
  BY <1>1
<1> QED BY <1>2, <1>3 DEF HashBefore

\* The event is put at the end of the chain.
LEMMA WriteKeeps ==
  ASSUME ChainInv, NEW t \in Appenders, WriteEvent(t)
  PROVE  ChainInv'
<1> DEFINE w == appender[t]
           a == IF appender[t].cause = NoCause THEN "appended" ELSE "looking"
           e == [id |-> w.id, cause |-> w.cause, payload |-> "as appended", hash |-> w.hash]
<1>0. PICK L \in Nat : L = Len(chain)
  BY EntryIs DEF ChainInv
<1>1. ChainTypeOK /\ w.at = "begun" /\ w # NotAppending
  BY WorkingIs DEF ChainInv, WriteEvent
<1>2. w \in Working /\ EndsWith(w.hash, w.id)
  BY <1>1, WorkingIs DEF ChainTypeOK
<1>3. /\ UNCHANGED <<prevHash, causalIndex, overlapped>> /\ chain' = Append(chain, e)
      /\ appender' = [appender EXCEPT ![t].at = a]
  BY DEF WriteEvent
<1>4. MovedTo(t, a)
  <2>1. a \in {"begun", "appended"} \cup Indexing
    BY DEF Indexing
  <2> HIDE DEF a
  <2> QED BY <1>1, <1>3, <2>1, Moves
<1>5. a \in {"appended", "looking"} /\ (a = "looking" <=> w.cause # NoCause)
  OBVIOUS
<1>6. e \in Entries /\ e.id = w.id /\ e.cause = w.cause /\ e.hash = w.hash
  <2> HIDE DEF w
  <2> QED BY <1>2 DEF Working, Entries
<1> HIDE DEF a, e
<1>7. /\ chain' \in Seq(Entries) /\ Len(chain') = L + 1 /\ DOMAIN chain' = 1 .. L + 1
      /\ chain'[L + 1] = e /\ chain' # <<>>
      /\ \A i \in 1 .. L : chain'[i] = chain[i]
      /\ \A i \in 1 .. L + 1 : HashBefore(i)' = HashBefore(i)
  BY <1>0, <1>1, <1>3, <1>6, ChainGrows
<1>8. L \in Nat /\ DOMAIN chain = 1 .. L
  BY <1>0, <1>1, EntryIs
<1>9. /\ \A u \in Appenders \ {t} : appender'[u] = appender[u]
      /\ appender'[t] # NotAppending /\ appender'[t].at = a /\ appender'[t].id = w.id
      /\ appender'[t].cause = w.cause /\ appender'[t].hash = w.hash
      /\ appender' \in [Appenders -> Working \cup {NotAppending}]
  BY <1>4 DEF MovedTo
<1>10. ChainTypeOK'
  <2>1. \A i \in DOMAIN chain' : EndsWith(chain'[i].hash, chain'[i].id)
    <3>1. \A i \in 1 .. L : EndsWith(chain'[i].hash, chain'[i].id)
      BY <1>1, <1>7, <1>8 DEF ChainTypeOK
    <3>2. EndsWith(chain'[L + 1].hash, chain'[L + 1].id)
      BY <1>2, <1>6, <1>7
    <3> QED BY <1>7, <1>8, <3>1, <3>2
  <2>2. ASSUME NEW u \in Appenders
        PROVE  /\ appender'[u] # NotAppending => EndsWith(appender'[u].hash, appender'[u].id)
               /\ appender'[u].at \in Indexing => appender'[u].cause # NoCause
               /\ appender'[u].at \in {"loading", "listing"} => appender'[u].cause \in DOMAIN causalIndex'
    <3>1. CASE u = t
      BY <1>2, <1>5, <1>9, <3>1 DEF Indexing
    <3>2. CASE u # t
      BY <1>1, <1>3, <1>9, <3>2 DEF ChainTypeOK
    <3> QED BY <3>1, <3>2
  <2> QED BY <1>1, <1>3, <1>7, <1>9, <2>1, <2>2
      DEF ChainTypeOK, Ids, Entries, Working, Hashes, NotAppending, Indexing, EndsWith
<1>11. CASE overlapped
  <2>1. /\ \A i \in DOMAIN chain : i \in DOMAIN chain' /\ chain'[i].hash = chain[i].hash /\ i # L + 1
        /\ \A u \in Pending : u = t \/ (u \in Pending' /\ appender'[u].hash = appender[u].hash)
        /\ L + 1 \in DOMAIN chain' /\ chain'[L + 1].hash = appender[t].hash
    BY <1>6, <1>7, <1>8, <1>9 DEF Pending
  <2>2. Twins
    BY <1>11 DEF ChainInv
  <2>3. Twins'
    <3>1. CASE \E i, j \in DOMAIN chain : i # j /\ Len(chain[i].hash) = Len(chain[j].hash)
      BY <2>1, <3>1 DEF Twins
    <3>2. CASE \E i \in DOMAIN chain, u \in Pending : Len(chain[i].hash) = Len(appender[u].hash)
      BY <2>1, <3>2 DEF Twins
    <3>3. CASE \E u, v \in Pending : u # v /\ Len(appender[u].hash) = Len(appender[v].hash)
      <4>1. PICK u \in Pending, v \in Pending : u # v /\ Len(appender[u].hash) = Len(appender[v].hash)
        BY <3>3
      <4>2. CASE u = t
        <5>1. v \in Pending' /\ Len(chain'[L + 1].hash) = Len(appender'[v].hash)
          BY <2>1, <4>1, <4>2
        <5> QED BY <2>1, <5>1 DEF Twins
      <4>3. CASE v = t
        <5>1. u \in Pending' /\ Len(chain'[L + 1].hash) = Len(appender'[u].hash)
          BY <2>1, <4>1, <4>3
        <5> QED BY <2>1, <5>1 DEF Twins
      <4>4. CASE u # t /\ v # t
        <5>1. u \in Pending' /\ v \in Pending' /\ Len(appender'[u].hash) = Len(appender'[v].hash)
          BY <2>1, <4>1, <4>4
        <5> QED BY <4>1, <5>1 DEF Twins
      <4> QED BY <4>2, <4>3, <4>4
    <3> QED BY <2>2, <3>1, <3>2, <3>3 DEF Twins
  <2> QED BY <1>3, <1>10, <1>11, <2>3 DEF ChainInv
<1>12. CASE ~overlapped
  <2>1. /\ SerialChain /\ SerialIndex /\ SerialAppend(t)
        /\ \A u \in Appenders \ {t} : appender[u] = NotAppending /\ appender[u].at = "idle"
    BY <1>1, <1>12, Alone
  <2>2. /\ w.id = L + 1 /\ prevHash = HashBefore(L + 1) /\ (w.cause # NoCause => w.cause <= L)
        /\ w.hash = Append(prevHash, <<w.id, "as appended">>)
    BY <1>0, <1>1, <2>1 DEF SerialAppend
  <2>3. SerialChain'
    <3>1. ASSUME NEW i \in 1 .. L
          PROVE  /\ chain'[i].id = i /\ (chain'[i].cause # NoCause => chain'[i].cause < i)
                 /\ chain'[i].hash = Append(HashBefore(i)', <<i, "as appended">>)
      <4>1. i \in 1 .. L + 1
        BY <1>8
      <4> QED BY <1>7, <1>8, <2>1, <4>1 DEF SerialChain
    <3>2. /\ chain'[L + 1].id = L + 1 /\ (chain'[L + 1].cause # NoCause => chain'[L + 1].cause < L + 1)
          /\ chain'[L + 1].hash = Append(HashBefore(L + 1)', <<L + 1, "as appended">>)
      <4>1. w.cause \in Ids \cup {NoCause} /\ L + 1 \in 1 .. L + 1
        BY <1>2, <1>8 DEF Working
      <4>2. w.cause # NoCause => w.cause < L + 1
        <5> SUFFICES ASSUME w.cause # NoCause PROVE w.cause < L + 1
          OBVIOUS
        <5>1. w.cause \in Ids /\ w.cause <= L
          BY <2>2, <4>1
        <5>2. w.cause \in Nat
          BY <5>1 DEF Ids
        <5> HIDE DEF w
        <5> QED BY <5>1, <5>2
      <4>3. HashBefore(L + 1)' = HashBefore(L + 1)
        BY <1>7, <4>1
      <4> QED BY <1>6, <1>7, <2>2, <4>2, <4>3
    <3>3. \A i \in DOMAIN chain' : i \in 1 .. L \/ i = L + 1
      BY <1>7, <1>8
    <3> QED BY <3>1, <3>2, <3>3 DEF SerialChain
  <2>4. Busy' = {t}
    BY <1>9, <2>1 DEF Busy
  <2>5. SerialAppend(t)'
    <3>1. L + 1 \in 1 .. L + 1
      BY <1>8
    <3>2. prevHash' = HashBefore(L + 1)'
      BY <1>3, <1>7, <2>2, <3>1
    <3> QED BY <1>5, <1>6, <1>7, <1>9, <2>2, <2>4, <3>2 DEF SerialAppend
  <2>6. IndexedUpTo = L
    BY <1>0, <1>1, <2>1 DEF IndexedUpTo, Indexing
  <2>7. SerialIndex'
    <3>1. CASE a = "looking"
      <4>1. IndexedUpTo' = L
        BY <1>7, <1>8, <1>9, <3>1 DEF IndexedUpTo, Indexing
      <4>2. \A c : {i \in 1 .. L : chain'[i].cause = c} = {i \in 1 .. L : chain[i].cause = c}
        BY <1>7
      <4> QED BY <1>3, <2>1, <2>6, <4>1, <4>2 DEF SerialIndex
    <3>2. CASE a = "appended"
      <4>1. IndexedUpTo' = L + 1
        BY <1>7, <1>8, <1>9, <2>1, <3>2 DEF IndexedUpTo, Indexing
      <4>2. chain'[L + 1].cause = NoCause
        BY <1>5, <1>6, <1>7, <3>2
      <4>3. \A c \in Ids : {i \in 1 .. L + 1 : chain'[i].cause = c} = {i \in 1 .. L : chain[i].cause = c}
        <5>1. \A i \in 1 .. L + 1 : i \in 1 .. L \/ i = L + 1
          BY <1>8
        <5>2. \A i \in 1 .. L : i \in 1 .. L + 1
          BY <1>8
        <5>3. \A c \in Ids : c # NoCause
          BY ChainConstants DEF Ids
        <5> QED BY <1>7, <4>2, <5>1, <5>2, <5>3
      <4> QED BY <1>3, <2>1, <2>6, <4>1, <4>3 DEF SerialIndex
    <3> QED BY <1>5, <3>1, <3>2
  <2> QED BY <1>3, <1>10, <1>12, <2>3, <2>5, <2>7 DEF ChainInv
<1> QED BY <1>11, <1>12

\* A step within the index: the chain stays, and one thread moves on.
LEMMA IndexTyped ==
  ASSUME ChainTypeOK, NEW t \in Appenders, NEW a, MovedTo(t, a), appender[t] # NotAppending,
         UNCHANGED <<chain, prevHash, overlapped>>,
         DOMAIN causalIndex \subseteq DOMAIN causalIndex', DOMAIN causalIndex' \subseteq Ids,
         causalIndex' \in [DOMAIN causalIndex' -> [list : Nat, effects : SUBSET Ids]],
         a \in Indexing => appender[t].cause # NoCause,
         a \in {"loading", "listing"} => appender[t].cause \in DOMAIN causalIndex'
  PROVE  ChainTypeOK'
<1>1. /\ \A u \in Appenders \ {t} : appender'[u] = appender[u]
      /\ appender'[t] # NotAppending /\ appender'[t].at = a /\ appender'[t].id = appender[t].id
      /\ appender'[t].cause = appender[t].cause /\ appender'[t].hash = appender[t].hash
      /\ appender' \in [Appenders -> Working \cup {NotAppending}]
  BY DEF MovedTo
<1>2. ASSUME NEW u \in Appenders
      PROVE  /\ appender'[u] # NotAppending => EndsWith(appender'[u].hash, appender'[u].id)
             /\ appender'[u].at \in Indexing => appender'[u].cause # NoCause
             /\ appender'[u].at \in {"loading", "listing"} => appender'[u].cause \in DOMAIN causalIndex'
  <2>1. CASE u = t
    BY <1>1, <2>1 DEF ChainTypeOK
  <2>2. CASE u # t
    BY <1>1, <2>2 DEF ChainTypeOK
  <2> QED BY <2>1, <2>2
<1> QED BY <1>1, <1>2 DEF ChainTypeOK, Ids, Entries, Working, Hashes, NotAppending, Indexing, EndsWith

\* Such a step after the event was written keeps the invariant if it keeps the index.
LEMMA IndexKeeps ==
  ASSUME ChainInv, ChainTypeOK', NEW t \in Appenders, NEW a, MovedTo(t, a), appender[t] # NotAppending,
         UNCHANGED <<chain, prevHash, overlapped>>, appender[t].at # "begun", a # "begun",
         ~overlapped => SerialIndex',
         ~overlapped /\ a = "creating" => appender[t].cause \notin DOMAIN causalIndex',
         ~overlapped /\ a = "listing" => appender'[t].list = causalIndex'[appender[t].cause].list
  PROVE  ChainInv'
<1>1. /\ \A u \in Appenders \ {t} : appender'[u] = appender[u]
      /\ appender'[t] # NotAppending /\ appender'[t].at = a /\ appender'[t].id = appender[t].id
      /\ appender'[t].cause = appender[t].cause /\ appender'[t].hash = appender[t].hash
  BY DEF MovedTo
<1>2. CASE overlapped
  <2>1. \A u \in Pending : u \in Pending' /\ appender'[u].hash = appender[u].hash
    BY <1>1 DEF Pending
  <2>2. Twins'
    BY <1>2, <2>1, TwinsStay DEF ChainInv
  <2> QED BY <1>2, <2>2 DEF ChainInv
<1>3. CASE ~overlapped
  <2>1. /\ SerialChain /\ SerialIndex /\ SerialAppend(t)
        /\ \A u \in Appenders \ {t} : appender[u] = NotAppending /\ appender[u].at = "idle"
    BY <1>3, Alone
  <2>2. SerialChain'
    BY <2>1 DEF SerialChain, HashBefore
  <2>3. Busy' = {t}
    BY <1>1, <2>1 DEF Busy
  <2>4. /\ chain' # <<>> /\ appender'[t].id = Len(chain') /\ prevHash' = HashBefore(Len(chain))'
        /\ appender'[t].cause = chain'[Len(chain')].cause
        /\ appender'[t].hash = chain'[Len(chain')].hash
    BY <1>1, <2>1 DEF SerialAppend, HashBefore
  <2>5. SerialAppend(t)'
    BY <1>1, <1>3, <2>3, <2>4 DEF SerialAppend
  <2> QED BY <1>3, <2>2, <2>5 DEF ChainInv
<1> QED BY <1>2, <1>3

\* How much of the chain the index has taken in, before and after.
LEMMA UpTo ==
  ASSUME ChainInv, ~overlapped, NEW t \in Appenders, appender[t] # NotAppending
  PROVE  IndexedUpTo = IF appender[t].at \in Indexing THEN Len(chain) - 1 ELSE Len(chain)
<1>1. \A u \in Appenders \ {t} : appender[u].at = "idle"
  BY Alone
<1> QED BY <1>1 DEF IndexedUpTo, Indexing

\* The same after a step that leaves the chain alone.
LEMMA UpToNext ==
  ASSUME ChainInv, ~overlapped, NEW t \in Appenders, appender[t] # NotAppending, NEW a, MovedTo(t, a),
         UNCHANGED chain
  PROVE  IndexedUpTo' = IF a \in Indexing THEN Len(chain) - 1 ELSE Len(chain)
<1>1. \A u \in Appenders \ {t} : appender'[u].at = "idle"
  BY Alone DEF MovedTo
<1>2. appender'[t].at = a
  BY DEF MovedTo
<1> QED BY <1>1, <1>2 DEF IndexedUpTo, Indexing

\* The test whether there is a list.
LEMMA LookKeeps ==
  ASSUME ChainInv, NEW t \in Appenders, LookForList(t)
  PROVE  ChainInv'
<1> DEFINE a == IF appender[t].cause \in DOMAIN causalIndex THEN "loading" ELSE "creating"
<1>1. ChainTypeOK /\ appender[t].at = "looking" /\ appender[t] # NotAppending
  BY WorkingIs DEF ChainInv, LookForList
<1>2. UNCHANGED <<chain, prevHash, causalIndex, overlapped>> /\ appender' = [appender EXCEPT ![t].at = a]
  BY DEF LookForList
<1>3. /\ a \in {"loading", "creating"} /\ (a = "loading" <=> appender[t].cause \in DOMAIN causalIndex)
  OBVIOUS
<1> HIDE DEF a
<1>4. MovedTo(t, a)
  BY <1>1, <1>2, <1>3, Moves DEF Indexing
<1>5. appender[t].cause # NoCause
  BY <1>1 DEF ChainTypeOK, Indexing
<1>6. ChainTypeOK'
  BY <1>1, <1>2, <1>3, <1>4, <1>5, IndexTyped DEF ChainTypeOK
<1>7. ~overlapped => SerialIndex'
  <2> SUFFICES ASSUME ~overlapped PROVE SerialIndex'
    OBVIOUS
  <2>1. IndexedUpTo = Len(chain) - 1 /\ IndexedUpTo' = Len(chain) - 1
    BY <1>1, <1>2, <1>3, <1>4, UpTo, UpToNext DEF Indexing
  <2> QED BY <1>1, <1>2, <2>1, Alone DEF SerialIndex
<1> QED BY <1>1, <1>2, <1>3, <1>4, <1>6, <1>7, IndexKeeps

\* A new list.
LEMMA CreateKeeps ==
  ASSUME ChainInv, NEW t \in Appenders, CreateList(t)
  PROVE  ChainInv'
<1> DEFINE cause == appender[t].cause
           fresh == IF cause \in DOMAIN causalIndex THEN causalIndex[cause].list + 1 ELSE 1
           D == DOMAIN causalIndex \cup {cause}
<1>1. ChainTypeOK /\ appender[t].at = "creating" /\ appender[t] # NotAppending
  BY WorkingIs DEF ChainInv, CreateList
<1>2. /\ UNCHANGED <<chain, prevHash, overlapped>> /\ appender' = [appender EXCEPT ![t].at = "loading"]
      /\ causalIndex' = [c \in D |-> IF c = cause THEN [list |-> fresh, effects |-> {}] ELSE causalIndex[c]]
  BY DEF CreateList
<1>3. MovedTo(t, "loading")
  BY <1>1, <1>2, Moves DEF Indexing
<1>4. appender[t].cause # NoCause /\ appender[t] \in Working
  BY <1>1, WorkingIs DEF ChainTypeOK, Indexing
<1>5. cause \in Ids
  BY <1>4 DEF Working
<1>6. /\ DOMAIN causalIndex \subseteq Ids
      /\ causalIndex \in [DOMAIN causalIndex -> [list : Nat, effects : SUBSET Ids]]
  BY <1>1 DEF ChainTypeOK
<1>7. fresh \in Nat
  BY <1>6
<1> HIDE DEF fresh, cause
<1>8. /\ DOMAIN causalIndex' = D /\ D \subseteq Ids /\ cause \in D
      /\ causalIndex' \in [D -> [list : Nat, effects : SUBSET Ids]]
      /\ causalIndex'[cause].effects = {} /\ \A c \in D \ {cause} : causalIndex'[c] = causalIndex[c]
  BY <1>2, <1>5, <1>6, <1>7
<1>9. ChainTypeOK'
  BY <1>1, <1>2, <1>3, <1>4, <1>8, IndexTyped DEF cause
<1>10. ~overlapped => SerialIndex'
  <2> SUFFICES ASSUME ~overlapped PROVE SerialIndex'
    OBVIOUS
  <2>1. IndexedUpTo = Len(chain) - 1 /\ IndexedUpTo' = Len(chain) - 1
    BY <1>1, <1>2, <1>3, UpTo, UpToNext DEF Indexing
  <2>2. SerialIndex /\ cause \notin DOMAIN causalIndex
    BY <1>1, Alone DEF SerialAppend, cause
  <2>3. ASSUME NEW c \in Ids
        PROVE  {i \in 1 .. IndexedUpTo : chain[i].cause = c} =
                 IF c \in DOMAIN causalIndex' THEN causalIndex'[c].effects ELSE {}
    <3>1. {i \in 1 .. IndexedUpTo : chain[i].cause = c} =
                 IF c \in DOMAIN causalIndex THEN causalIndex[c].effects ELSE {}
      BY <2>2 DEF SerialIndex
    <3> QED BY <1>8, <2>2, <3>1
  <2> QED BY <1>2, <2>1, <2>3 DEF SerialIndex
<1> QED BY <1>1, <1>2, <1>3, <1>9, <1>10, IndexKeeps

\* The list of the cause is loaded.
LEMMA LoadKeeps ==
  ASSUME ChainInv, NEW t \in Appenders, LoadList(t)
  PROVE  ChainInv'
<1> DEFINE l == causalIndex[appender[t].cause].list
<1>1. ChainTypeOK /\ appender[t].at = "loading" /\ appender[t] # NotAppending
  BY WorkingIs DEF ChainInv, LoadList
<1>2. /\ UNCHANGED <<chain, prevHash, causalIndex, overlapped>>
      /\ appender' = [appender EXCEPT ![t].at = "listing", ![t].list = l]
  BY DEF LoadList
<1>3. appender[t].cause # NoCause /\ appender[t].cause \in DOMAIN causalIndex
  BY <1>1 DEF ChainTypeOK, Indexing
<1>4. l \in Nat
  BY <1>1, <1>3 DEF ChainTypeOK
<1>5. MovedTo(t, "listing") /\ appender'[t].list = l
  <2> HIDE DEF l
  <2> QED BY <1>1, <1>2, <1>4, MovesAndLoads
<1>6. ChainTypeOK'
  BY <1>1, <1>2, <1>3, <1>5, IndexTyped DEF ChainTypeOK
<1>7. ~overlapped => SerialIndex'
  <2> SUFFICES ASSUME ~overlapped PROVE SerialIndex'
    OBVIOUS
  <2>1. IndexedUpTo = Len(chain) - 1 /\ IndexedUpTo' = Len(chain) - 1
    BY <1>1, <1>2, <1>5, UpTo, UpToNext DEF Indexing
  <2> QED BY <1>1, <1>2, <2>1, Alone DEF SerialIndex
<1> QED BY <1>1, <1>2, <1>5, <1>6, <1>7, IndexKeeps

\* The event is added to the list that was loaded.
LEMMA AddKeeps ==
  ASSUME ChainInv, NEW t \in Appenders, AddEffect(t)
  PROVE  ChainInv'
<1> DEFINE cause == appender[t].cause
           id == appender[t].id
           D == DOMAIN causalIndex
           same == causalIndex[cause].list = appender[t].list
<1>0. PICK L \in Nat : L = Len(chain)
  BY EntryIs DEF ChainInv
<1>1. ChainTypeOK /\ appender[t].at = "listing" /\ appender[t] # NotAppending
  BY WorkingIs DEF ChainInv, AddEffect
<1>2. /\ UNCHANGED <<chain, prevHash, overlapped>> /\ appender' = [appender EXCEPT ![t].at = "appended"]
      /\ causalIndex' = IF same THEN [causalIndex EXCEPT ![cause].effects = @ \cup {id}] ELSE causalIndex
  BY DEF AddEffect
<1>3. MovedTo(t, "appended")
  BY <1>1, <1>2, Moves
<1>4. cause \in D /\ appender[t] \in Working /\ cause # NoCause
  BY <1>1, WorkingIs DEF ChainTypeOK, Indexing
<1>5. id \in Ids
  BY <1>4 DEF Working
<1>6. D \subseteq Ids /\ causalIndex \in [D -> [list : Nat, effects : SUBSET Ids]]
  BY <1>1 DEF ChainTypeOK
<1> HIDE DEF cause, id, same
<1>7. /\ DOMAIN causalIndex' = D /\ causalIndex' \in [D -> [list : Nat, effects : SUBSET Ids]]
      /\ \A c \in D \ {cause} : causalIndex'[c] = causalIndex[c]
      /\ same => causalIndex'[cause].effects = causalIndex[cause].effects \cup {id}
  <2>1. CASE same
    <3> DEFINE r == causalIndex[cause]
               q == [r EXCEPT !.effects = @ \cup {id}]
    <3>1. q \in [list : Nat, effects : SUBSET Ids] /\ q.effects = r.effects \cup {id}
      <4>1. r \in [list : Nat, effects : SUBSET Ids]
        BY <1>4, <1>6
      <4> HIDE DEF r
      <4> QED BY <1>5, <4>1
    <3>2. causalIndex' = [causalIndex EXCEPT ![cause] = q]
      BY <1>2, <2>1
    <3> HIDE DEF q
    <3> QED BY <1>4, <1>6, <3>1, <3>2
  <2>2. CASE ~same
    BY <1>2, <1>6, <2>2
  <2> QED BY <2>1, <2>2
<1>8. ChainTypeOK'
  BY <1>1, <1>2, <1>3, <1>6, <1>7, IndexTyped DEF Indexing
<1>9. ~overlapped => SerialIndex'
  <2> SUFFICES ASSUME ~overlapped PROVE SerialIndex'
    OBVIOUS
  <2>1. IndexedUpTo = L - 1 /\ IndexedUpTo' = L
    BY <1>0, <1>1, <1>2, <1>3, UpTo, UpToNext DEF Indexing
  <2>2. SerialIndex /\ SerialAppend(t)
    BY <1>1, Alone
  <2>3. same /\ id = L /\ chain # <<>> /\ chain[L].cause = cause
    BY <1>0, <1>1, <2>2 DEF SerialAppend, same, cause, id
  <2>4. L \in 1 .. L /\ \A i \in 1 .. L : i \in 1 .. L - 1 \/ i = L
    <3>1. L # 0
      BY <1>0, <1>1, <2>3 DEF ChainTypeOK
    <3> QED BY <3>1
  <2>5. \A i \in 1 .. L - 1 : i \in 1 .. L
    OBVIOUS
  <2>6. ASSUME NEW c \in Ids
        PROVE  {i \in 1 .. L : chain[i].cause = c} =
                 IF c \in DOMAIN causalIndex' THEN causalIndex'[c].effects ELSE {}
    <3>1. {i \in 1 .. L - 1 : chain[i].cause = c} =
                 IF c \in DOMAIN causalIndex THEN causalIndex[c].effects ELSE {}
      BY <2>1, <2>2 DEF SerialIndex
    <3>2. CASE c = cause
      <4>1. {i \in 1 .. L : chain[i].cause = c} = {i \in 1 .. L - 1 : chain[i].cause = c} \cup {L}
        BY <2>3, <2>4, <2>5, <3>2
      <4> QED BY <1>4, <1>7, <2>3, <3>1, <3>2, <4>1
    <3>3. CASE c # cause
      <4>1. {i \in 1 .. L : chain[i].cause = c} = {i \in 1 .. L - 1 : chain[i].cause = c}
        BY <2>3, <2>4, <2>5, <3>3
      <4> QED BY <1>7, <3>1, <3>3, <4>1
    <3> QED BY <3>2, <3>3
  <2> QED BY <1>2, <2>1, <2>6 DEF SerialIndex
<1> QED BY <1>1, <1>2, <1>3, <1>8, <1>9, IndexKeeps

\* The append ends with the hash of the chain.
LEMMA SetHashKeeps ==
  ASSUME ChainInv, NEW t \in Appenders, SetPrevHash(t)
  PROVE  ChainInv'
<1>0. PICK L \in Nat : L = Len(chain)
  BY EntryIs DEF ChainInv
<1>1. ChainTypeOK /\ appender[t].at = "appended" /\ appender[t] # NotAppending
  BY WorkingIs DEF ChainInv, SetPrevHash
<1>2. /\ UNCHANGED <<chain, causalIndex, overlapped>> /\ prevHash' = appender[t].hash
      /\ appender' = [appender EXCEPT ![t] = NotAppending]
  BY DEF SetPrevHash
<1>3. /\ appender' \in [Appenders -> Working \cup {NotAppending}] /\ appender'[t] = NotAppending
      /\ \A u \in Appenders \ {t} : appender'[u] = appender[u]
  BY <1>1, <1>2 DEF ChainTypeOK
<1>4. appender'[t].at = "idle"
  BY <1>3 DEF NotAppending
<1>5. appender[t].hash \in Hashes
  BY <1>1, WorkingIs DEF Working
<1>6. ChainTypeOK'
  <2>1. ASSUME NEW u \in Appenders
        PROVE  /\ appender'[u] # NotAppending => EndsWith(appender'[u].hash, appender'[u].id)
               /\ appender'[u].at \in Indexing => appender'[u].cause # NoCause
               /\ appender'[u].at \in {"loading", "listing"} => appender'[u].cause \in DOMAIN causalIndex'
    <3>1. CASE u = t
      BY <1>3, <1>4, <3>1 DEF Indexing
    <3>2. CASE u # t
      BY <1>1, <1>2, <1>3, <3>2 DEF ChainTypeOK
    <3> QED BY <3>1, <3>2
  <2> QED BY <1>1, <1>2, <1>3, <1>5, <2>1
      DEF ChainTypeOK, Ids, Entries, Working, Hashes, NotAppending, Indexing, EndsWith
<1>7. CASE overlapped
  <2>1. \A u \in Pending : u \in Pending' /\ appender'[u].hash = appender[u].hash
    BY <1>1, <1>3 DEF Pending
  <2>2. Twins'
    BY <1>2, <1>7, <2>1, TwinsStay DEF ChainInv
  <2> QED BY <1>2, <1>6, <1>7, <2>2 DEF ChainInv
<1>8. CASE ~overlapped
  <2>1. /\ SerialChain /\ SerialIndex /\ SerialAppend(t)
        /\ \A u \in Appenders \ {t} : appender[u] = NotAppending /\ appender[u].at = "idle"
    BY <1>1, <1>8, Alone
  <2>2. SerialChain'
    BY <1>2, <2>1 DEF SerialChain, HashBefore
  <2>3. Busy' = {}
    BY <1>3, <2>1 DEF Busy
  <2>4. chain # <<>> /\ appender[t].hash = chain[L].hash
    BY <1>0, <1>1, <2>1 DEF SerialAppend
  <2>5. L + 1 # 1 /\ L + 1 - 1 = L
    BY <1>0, <1>1, <2>4 DEF ChainTypeOK
  <2>6. prevHash' = HashBefore(L + 1)'
    BY <1>2, <2>4, <2>5 DEF HashBefore
  <2>7. IndexedUpTo = L /\ IndexedUpTo' = L
    BY <1>0, <1>1, <1>2, <1>3, <1>4, <2>1 DEF IndexedUpTo, Indexing
  <2>8. SerialIndex'
    BY <1>2, <2>1, <2>7 DEF SerialIndex
  <2>9. Len(chain') = L
    BY <1>0, <1>2
  <2> QED BY <1>2, <1>6, <1>8, <2>2, <2>3, <2>6, <2>8, <2>9 DEF ChainInv
<1> QED BY <1>7, <1>8

\* The caller changes a payload: nothing else of the chain changes.
LEMMA AlterKeeps ==
  ASSUME ChainInv, NEW k \in DOMAIN chain, AlterPayload(k)
  PROVE  ChainInv'
<1> DEFINE e == chain[k]
           f == [e EXCEPT !.payload = "altered"]
<1>0. PICK L \in Nat : L = Len(chain)
  BY EntryIs DEF ChainInv
<1>1. ChainTypeOK /\ chain \in Seq(Entries)
  BY DEF ChainInv, ChainTypeOK
<1>2. UNCHANGED <<prevHash, causalIndex, appender, overlapped>> /\ chain' = [chain EXCEPT ![k] = f]
  BY DEF AlterPayload
<1>3. f \in Entries /\ f.id = e.id /\ f.cause = e.cause /\ f.hash = e.hash
  <2>1. e \in Entries
    BY <1>1
  <2> HIDE DEF e
  <2> QED BY <2>1 DEF Entries
<1> HIDE DEF f
<1>4. chain' \in Seq(Entries) /\ Len(chain') = L /\ DOMAIN chain' = DOMAIN chain
  BY <1>0, <1>1, <1>2, <1>3
<1>5. \A i \in DOMAIN chain :
        chain'[i].id = chain[i].id /\ chain'[i].cause = chain[i].cause /\ chain'[i].hash = chain[i].hash
  BY <1>1, <1>2, <1>3
<1>6. DOMAIN chain = 1 .. L
  BY <1>0, <1>1
<1>7. \A i \in 1 .. L + 1 : HashBefore(i)' = HashBefore(i)
  <2>1. \A i \in 1 .. L + 1 : i = 1 \/ i - 1 \in 1 .. L
    OBVIOUS
  <2> QED BY <1>5, <1>6, <2>1 DEF HashBefore
<1>8. ChainTypeOK'
  <2>1. \A i \in DOMAIN chain' : EndsWith(chain'[i].hash, chain'[i].id)
    BY <1>1, <1>4, <1>5 DEF ChainTypeOK
  <2> QED BY <1>1, <1>2, <1>4, <2>1
      DEF ChainTypeOK, Ids, Entries, Working, Hashes, NotAppending, Indexing, EndsWith
<1>9. CASE overlapped
  <2>1. \A u \in Pending : u \in Pending' /\ appender'[u].hash = appender[u].hash
    BY <1>2 DEF Pending
  <2>2. Twins'
    BY <1>4, <1>5, <1>9, <2>1, TwinsStay DEF ChainInv
  <2> QED BY <1>2, <1>8, <1>9, <2>2 DEF ChainInv
<1>10. CASE ~overlapped
  <2>1. SerialChain /\ SerialIndex
    BY <1>10 DEF ChainInv
  <2>2. SerialChain'
    <3>1. \A i \in 1 .. L : i \in 1 .. L + 1
      OBVIOUS
    <3> QED BY <1>4, <1>5, <1>6, <1>7, <2>1, <3>1 DEF SerialChain
  <2>3. IndexedUpTo' = IndexedUpTo /\ \A i \in 1 .. IndexedUpTo : i \in 1 .. L
    BY <1>0, <1>2, <1>4 DEF IndexedUpTo
  <2>4. SerialIndex'
    <3>1. \A c \in Ids : {i \in 1 .. IndexedUpTo : chain'[i].cause = c} = {i \in 1 .. IndexedUpTo : chain[i].cause = c}
      BY <1>5, <1>6, <2>3
    <3> QED BY <1>2, <2>1, <2>3, <3>1 DEF SerialIndex
  <2>5. Busy' = Busy /\ L + 1 \in 1 .. L + 1
    BY <1>2 DEF Busy
  <2>6. CASE Busy = {}
    <3>1. prevHash = HashBefore(L + 1)
      BY <1>0, <1>10, <2>6 DEF ChainInv, SerialAppend
    <3>2. prevHash' = HashBefore(L + 1)'
      BY <1>2, <1>4, <1>7, <2>5, <3>1
    <3> QED BY <1>2, <1>4, <1>8, <1>10, <2>2, <2>4, <2>5, <2>6, <3>2 DEF ChainInv
  <2>7. CASE Busy # {}
    <3>1. PICK t \in Appenders : SerialAppend(t)
      BY <1>10, <2>7 DEF ChainInv
    <3>2. SerialAppend(t)'
      <4>1. CASE appender[t].at = "begun"
        <5>1. prevHash' = HashBefore(L + 1)'
          BY <1>0, <1>2, <1>7, <2>5, <3>1, <4>1 DEF SerialAppend
        <5> QED BY <1>0, <1>2, <1>4, <2>5, <3>1, <4>1, <5>1 DEF SerialAppend
      <4>2. CASE appender[t].at # "begun"
        <5>1. L \in 1 .. L /\ L \in 1 .. L + 1 /\ chain' # <<>>
          BY <1>0, <1>1, <1>4, <3>1, <4>2 DEF SerialAppend
        <5>2. prevHash' = HashBefore(L)'
          BY <1>0, <1>2, <1>7, <3>1, <4>2, <5>1 DEF SerialAppend
        <5> QED BY <1>0, <1>2, <1>4, <1>5, <1>6, <2>5, <3>1, <4>2, <5>1, <5>2 DEF SerialAppend
      <4> QED BY <4>1, <4>2
    <3> QED BY <1>2, <1>8, <1>10, <2>2, <2>4, <3>2 DEF ChainInv
  <2> QED BY <2>6, <2>7
<1> QED BY <1>9, <1>10

\* Whatever step is taken keeps the invariant.
LEMMA ChainStep ==
  ASSUME ChainInv, [ChainNext]_chainVars
  PROVE  ChainInv'
<1>1. CASE UNCHANGED chainVars
  <2>1. UNCHANGED <<chain, prevHash, causalIndex, appender, overlapped>>
    BY <1>1 DEF chainVars
  <2>2. ChainTypeOK' <=> ChainTypeOK
    BY <2>1 DEF ChainTypeOK, Ids, Entries, Working, Hashes, NotAppending, Indexing, EndsWith
  <2>3. Twins' <=> Twins
    BY <2>1 DEF Twins, Pending
  <2>4. (SerialChain' <=> SerialChain) /\ Busy' = Busy /\ \A t \in Appenders : SerialAppend(t)' <=> SerialAppend(t)
    BY <2>1 DEF SerialChain, SerialAppend, HashBefore, Busy
  <2>5. HashBefore(Len(chain) + 1)' = HashBefore(Len(chain) + 1)
    BY <2>1 DEF HashBefore
  <2>6. SerialIndex' <=> SerialIndex
    <3>1. IndexedUpTo' = IndexedUpTo
      BY <2>1 DEF IndexedUpTo
    <3> QED BY <2>1, <3>1 DEF SerialIndex
  <2> QED BY <2>1, <2>2, <2>3, <2>4, <2>5, <2>6 DEF ChainInv
<1>2. ASSUME NEW t \in Appenders,
             \/ \E cause \in ChainedIds \cup {NoCause} : BeginAppend(t, cause)
             \/ WriteEvent(t) \/ LookForList(t) \/ CreateList(t) \/ LoadList(t) \/ AddEffect(t)
             \/ SetPrevHash(t)
      PROVE  ChainInv'
  <2>1. ASSUME NEW cause \in ChainedIds \cup {NoCause}, BeginAppend(t, cause) PROVE ChainInv'
    BY <2>1, BeginKeeps
  <2>2. CASE WriteEvent(t)
    BY <2>2, WriteKeeps
  <2>3. CASE LookForList(t)
    BY <2>3, LookKeeps
  <2>4. CASE CreateList(t)
    BY <2>4, CreateKeeps
  <2>5. CASE LoadList(t)
    BY <2>5, LoadKeeps
  <2>6. CASE AddEffect(t)
    BY <2>6, AddKeeps
  <2>7. CASE SetPrevHash(t)
    BY <2>7, SetHashKeeps
  <2> QED BY <1>2, <2>1, <2>2, <2>3, <2>4, <2>5, <2>6, <2>7
<1>3. ASSUME NEW i \in DOMAIN chain, AlterPayload(i)
      PROVE  ChainInv'
  BY <1>3, AlterKeeps
<1> QED BY <1>1, <1>2, <1>3 DEF ChainNext

\* A new log has the invariant.
LEMMA ChainStart ==
  ASSUME ChainInit
  PROVE  ChainInv
<1>1. chain = <<>> /\ DOMAIN chain = {} /\ Len(chain) = 0
  BY DEF ChainInit
<1>2. \A t \in Appenders : appender[t] = NotAppending /\ appender[t].at = "idle"
  BY DEF ChainInit, NotAppending
<1>3. DOMAIN causalIndex = {} /\ prevHash = <<>> /\ overlapped = FALSE
  BY DEF ChainInit
<1>4. ChainTypeOK
  <2>1. prevHash \in Hashes /\ chain \in Seq(Entries)
    BY <1>1, <1>3 DEF Hashes
  <2>2. appender \in [Appenders -> Working \cup {NotAppending}]
    BY DEF ChainInit
  <2>3. causalIndex \in [DOMAIN causalIndex -> [list : Nat, effects : SUBSET Ids]]
    BY DEF ChainInit
  <2> QED BY <1>1, <1>2, <1>3, <2>1, <2>2, <2>3 DEF ChainTypeOK, Indexing
<1>5. SerialChain /\ Busy = {} /\ prevHash = HashBefore(Len(chain) + 1)
  BY <1>1, <1>2, <1>3 DEF SerialChain, Busy, HashBefore
<1>6. SerialIndex
  <2>1. IndexedUpTo = 0
    BY <1>1, <1>2 DEF IndexedUpTo, Indexing
  <2> QED BY <1>3, <2>1 DEF SerialIndex
<1> QED BY <1>3, <1>4, <1>5, <1>6 DEF ChainInv

\* The hash before any event.
LEMMA NoHash == <<>> \in Hashes
<1> DEFINE T == Ids \X {"as appended"}
<1>1. <<>> \in Seq(T)
  <2> HIDE DEF T
  <2> QED OBVIOUS
<1> QED BY <1>1 DEF Hashes

\* A hash after one more event.
LEMMA HashGrows ==
  ASSUME NEW h \in Hashes, NEW x
  PROVE  Len(Append(h, x)) = Len(h) + 1 /\ Last(Append(h, x)) = x
<1> DEFINE T == Ids \X {"as appended"}
<1>1. h \in Seq(T)
  BY DEF Hashes
<1> HIDE DEF T
<1> QED BY <1>1 DEF Last

\* verify_chain passes just when the appends came one after the other and no
\* payload was changed.
LEMMA VerdictExact ==
  ASSUME ChainInv, Busy = {}
  PROVE  VerifyChain <=> ~overlapped /\ \A i \in DOMAIN chain : chain[i].payload = "as appended"
<1>0. PICK L \in Nat : L = Len(chain)
  BY EntryIs DEF ChainInv
<1>1. ChainTypeOK /\ DOMAIN chain = 1 .. L
  BY <1>0, EntryIs DEF ChainInv
<1>2. \A i \in 1 .. L : HashBefore(i) \in Hashes /\ chain[i].hash \in Hashes
  <2>1. \A i \in 1 .. L : i = 1 \/ i - 1 \in 1 .. L
    OBVIOUS
  <2>2. <<>> \in Hashes
    BY NoHash
  <2> QED BY <1>1, <2>1, <2>2, EntryIs DEF HashBefore
<1>3. VerifyChain <=> \A i \in 1 .. L : chain[i].hash = Append(HashBefore(i), <<chain[i].id, chain[i].payload>>)
  BY <1>1 DEF VerifyChain, HashBefore, ComputeHash
<1>4. ASSUME VerifyChain, NEW i \in 1 .. L
      PROVE  chain[i].payload = "as appended"
  <2> DEFINE h == HashBefore(i)
             x == <<chain[i].id, chain[i].payload>>
             y == <<chain[i].id, "as appended">>
  <2>1. chain[i].hash = Append(h, x) /\ h \in Hashes
    BY <1>2, <1>3, <1>4
  <2>2. Last(chain[i].hash) = y
    BY <1>1 DEF ChainTypeOK, EndsWith
  <2>3. x = y
    <3> HIDE DEF h, x, y
    <3> QED BY <2>1, <2>2, HashGrows
  <2> QED BY <2>3
<1>5. ASSUME VerifyChain, overlapped PROVE FALSE
  <2> DEFINE bad == {n \in 1 .. L : Len(chain[n].hash) # n}
  <2>1. bad \in SUBSET Nat
    OBVIOUS
  <2>2. bad = {}
    <3> SUFFICES ASSUME bad # {} PROVE FALSE
      OBVIOUS
    <3>1. PICK n \in bad : \A m \in bad : n <= m
      <4> HIDE DEF bad
      <4> QED BY <2>1, NatLeast
    <3>2. n \in 1 .. L /\ Len(chain[n].hash) # n
      OBVIOUS
    <3>3. Len(HashBefore(n)) = n - 1
      <4>1. CASE n = 1
        BY <4>1 DEF HashBefore
      <4>2. CASE n # 1
        <5>1. n - 1 \in 1 .. L /\ ~(n <= n - 1)
          BY <3>2, <4>2
        <5>2. Len(chain[n - 1].hash) = n - 1
          BY <3>1, <5>1
        <5> QED BY <4>2, <5>2 DEF HashBefore
      <4> QED BY <4>1, <4>2
    <3> DEFINE h == HashBefore(n)
               x == <<chain[n].id, "as appended">>
    <3>4. h \in Hashes /\ chain[n].hash = Append(h, x)
      <4>1. chain[n].id \in Ids /\ chain[n].payload = "as appended"
        BY <1>1, <1>4, <1>5, <3>2, EntryIs
      <4> QED BY <1>2, <1>3, <1>5, <3>2, <4>1
    <3>5. Len(chain[n].hash) = Len(h) + 1
      <4> HIDE DEF h, x
      <4> QED BY <3>4, HashGrows
    <3> QED BY <3>2, <3>3, <3>5
  <2>3. Pending = {}
    BY <1>1, WorkingIs DEF Pending, Busy
  <2>4. Twins
    BY <1>5 DEF ChainInv
  <2>5. PICK i \in DOMAIN chain, j \in DOMAIN chain : i # j /\ Len(chain[i].hash) = Len(chain[j].hash)
    BY <2>3, <2>4 DEF Twins
  <2>6. Len(chain[i].hash) = i /\ Len(chain[j].hash) = j
    BY <1>1, <2>2, <2>5
  <2> QED BY <2>5, <2>6
<1>6. ASSUME ~overlapped, \A i \in DOMAIN chain : chain[i].payload = "as appended"
      PROVE  VerifyChain
  BY <1>1, <1>3, <1>6 DEF ChainInv, SerialChain
<1> QED BY <1>1, <1>4, <1>5, <1>6

\* The pairs lead from ids to ids.
Within(S, pairs) == S \subseteq Ids /\ pairs \subseteq Ids \X Ids

\* The rounds of a search along the pairs.
IsSearch(f, S, pairs, M) ==
  f \in [0 .. M -> SUBSET Ids] /\ f[0] = S /\ \A n \in 1 .. M : f[n] = f[n - 1] \cup Following(f[n - 1], pairs)

\* A round finds ids.
LEMMA FollowingIds ==
  ASSUME NEW S, NEW pairs, Within(S, pairs), NEW X \in SUBSET Ids
  PROVE  X \cup Following(X, pairs) \in SUBSET Ids
<1>1. \A q \in pairs : q[2] \in Ids
  BY DEF Within
<1> QED BY <1>1 DEF Following

\* There are such rounds, as many as one likes.
LEMMA SearchExists ==
  ASSUME NEW S, NEW pairs, Within(S, pairs), NEW N \in Nat
  PROVE  \E f : IsSearch(f, S, pairs, N)
<1> DEFINE Upto(M) == \E f : IsSearch(f, S, pairs, M)
           bad == {M \in Nat : ~Upto(M)}
<1>1. Upto(0)
  <2> DEFINE f == [n \in 0 .. 0 |-> S]
  <2>1. f \in [0 .. 0 -> SUBSET Ids] /\ f[0] = S /\ 1 .. 0 = {}
    BY DEF Within
  <2> HIDE DEF f
  <2>2. IsSearch(f, S, pairs, 0)
    BY <2>1 DEF IsSearch
  <2> QED BY <2>2
<1>2. ASSUME NEW M \in Nat, Upto(M) PROVE Upto(M + 1)
  <2>1. PICK f : IsSearch(f, S, pairs, M)
    BY <1>2
  <2> DEFINE y == f[M] \cup Following(f[M], pairs)
             h == [n \in 0 .. M + 1 |-> IF n = M + 1 THEN y ELSE f[n]]
  <2>2. f \in [0 .. M -> SUBSET Ids] /\ f[0] = S /\ M \in 0 .. M /\ 0 \in 0 .. M
    BY <2>1 DEF IsSearch
  <2>3. y \in SUBSET Ids
    BY <2>2, FollowingIds
  <2>4. h \in [0 .. M + 1 -> SUBSET Ids]
    <3> HIDE DEF y
    <3> QED BY <2>2, <2>3
  <2>5. h[M + 1] = y /\ \A n \in 0 .. M : h[n] = f[n]
    <3> HIDE DEF y
    <3> QED OBVIOUS
  <2> HIDE DEF h
  <2>6. ASSUME NEW n \in 1 .. M + 1 PROVE h[n] = h[n - 1] \cup Following(h[n - 1], pairs)
    <3>1. CASE n = M + 1
      <4>1. n - 1 = M
        BY <3>1
      <4> QED BY <2>2, <2>5, <3>1, <4>1
    <3>2. CASE n \in 1 .. M
      <4>1. n - 1 \in 0 .. M /\ n \in 0 .. M
        BY <3>2
      <4>2. f[n] = f[n - 1] \cup Following(f[n - 1], pairs)
        BY <2>1, <3>2 DEF IsSearch
      <4> QED BY <2>5, <4>1, <4>2
    <3> QED BY <3>1, <3>2
  <2>7. IsSearch(h, S, pairs, M + 1)
    BY <2>2, <2>4, <2>5, <2>6 DEF IsSearch
  <2> QED BY <2>7
<1> HIDE DEF Upto
<1>3. bad = {}
  <2> SUFFICES ASSUME bad # {} PROVE FALSE
    OBVIOUS
  <2>1. PICK M \in bad : \A y \in bad : M <= y
    BY NatLeast
  <2>2. M \in Nat /\ ~Upto(M) /\ M # 0
    BY <1>1, <2>1
  <2>3. M - 1 \in Nat /\ M - 1 \notin bad
    BY <2>1, <2>2
  <2>4. Upto((M - 1) + 1)
    BY <1>2, <2>3
  <2>5. (M - 1) + 1 = M
    BY <2>2
  <2> QED BY <2>2, <2>4, <2>5
<1> QED BY <1>3 DEF Upto

\* The definition of Reached's function.
IsReached(f, S, pairs) ==
  f = [n \in 0 .. MaxAppended |-> IF n = 0 THEN S ELSE f[n - 1] \cup Following(f[n - 1], pairs)]

\* Reached as the value of the function its definition chooses.
LEMMA ReachedIs ==
  ASSUME NEW S, NEW pairs
  PROVE  Reached(S, pairs) = (CHOOSE f : IsReached(f, S, pairs))[MaxAppended]
  BY DEF Reached, IsReached

\* Reached is what the rounds come to.
LEMMA ReachedRounds ==
  ASSUME NEW S, NEW pairs, Within(S, pairs)
  PROVE  \E f : IsSearch(f, S, pairs, MaxAppended) /\ Reached(S, pairs) = f[MaxAppended]
<1> DEFINE N == MaxAppended
           next(X) == X \cup Following(X, pairs)
<1>0. N \in Nat
  BY ChainConstants
<1>1. PICK f : IsSearch(f, S, pairs, N)
  BY <1>0, SearchExists
<1>2. f \in [0 .. N -> SUBSET Ids] /\ f[0] = S /\ \A n \in 1 .. N : f[n] = next(f[n - 1])
  BY <1>1 DEF IsSearch
<1>3. IsReached(f, S, pairs)
  <2>1. f = [n \in 0 .. N |-> f[n]]
    BY <1>2
  <2>2. \A n \in 0 .. N : f[n] = IF n = 0 THEN S ELSE next(f[n - 1])
    BY <1>0, <1>2
  <2>3. [n \in 0 .. N |-> f[n]] = [n \in 0 .. N |-> IF n = 0 THEN S ELSE next(f[n - 1])]
    BY <2>2
  <2> QED BY <2>1, <2>3 DEF IsReached
<1> DEFINE found == CHOOSE h : IsReached(h, S, pairs)
<1>4. IsReached(found, S, pairs)
  BY <1>3
<1>5. Reached(S, pairs) = found[N]
  BY ReachedIs
<1> HIDE DEF found
<1>6. \A n \in 0 .. N : found[n] = IF n = 0 THEN S ELSE next(found[n - 1])
  BY <1>4 DEF IsReached
<1> DEFINE bad == {m \in 0 .. N : found[m] # f[m]}
<1>7. bad = {}
  <2> SUFFICES ASSUME bad # {} PROVE FALSE
    OBVIOUS
  <2>1. bad \in SUBSET Nat
    OBVIOUS
  <2>2. PICK m \in bad : \A y \in bad : m <= y
    <3> HIDE DEF bad
    <3> QED BY <2>1, NatLeast
  <2>3. m \in 0 .. N /\ found[m] # f[m] /\ m # 0
    <3>1. 0 \in 0 .. N
      BY <1>0
    <3> QED BY <1>2, <1>6, <3>1
  <2>4. m \in 1 .. N /\ m - 1 \in 0 .. N /\ ~(m <= m - 1)
    BY <1>0, <2>3
  <2>5. found[m - 1] = f[m - 1]
    BY <2>2, <2>4
  <2> QED BY <1>2, <1>6, <2>3, <2>4, <2>5
<1>8. N \in 0 .. N
  BY <1>0
<1>9. found[N] = f[N]
  BY <1>7, <1>8
<1> QED BY <1>1, <1>5, <1>9

\* What is reached holds the start and is within every set that does and that
\* the pairs do not lead out of.
LEMMA ReachedLeast ==
  ASSUME NEW S, NEW pairs, Within(S, pairs)
  PROVE  /\ S \subseteq Reached(S, pairs)
         /\ \A X : S \subseteq X /\ Following(X, pairs) \subseteq X => Reached(S, pairs) \subseteq X
<1> DEFINE N == MaxAppended
<1>0. N \in Nat /\ N \in 0 .. N
  BY ChainConstants
<1>1. PICK f : IsSearch(f, S, pairs, N) /\ Reached(S, pairs) = f[N]
  BY ReachedRounds
<1>2. f \in [0 .. N -> SUBSET Ids] /\ f[0] = S /\ \A n \in 1 .. N : f[n] = f[n - 1] \cup Following(f[n - 1], pairs)
  BY <1>1 DEF IsSearch
<1>3. ASSUME NEW X, S \subseteq X, Following(X, pairs) \subseteq X
      PROVE  f[N] \subseteq X
  <2> DEFINE bad == {m \in 0 .. N : ~(f[m] \subseteq X)}
  <2>1. bad = {}
    <3> SUFFICES ASSUME bad # {} PROVE FALSE
      OBVIOUS
    <3>1. bad \in SUBSET Nat
      OBVIOUS
    <3>2. PICK m \in bad : \A y \in bad : m <= y
      <4> HIDE DEF bad
      <4> QED BY <3>1, NatLeast
    <3>3. m \in 0 .. N /\ ~(f[m] \subseteq X) /\ m # 0
      BY <1>2, <1>3
    <3>4. m \in 1 .. N /\ m - 1 \in 0 .. N /\ ~(m <= m - 1)
      BY <1>0, <3>3
    <3>5. f[m - 1] \subseteq X
      BY <3>2, <3>4
    <3>6. Following(f[m - 1], pairs) \subseteq X
      BY <1>3, <3>5 DEF Following
    <3> QED BY <1>2, <3>3, <3>4, <3>5, <3>6
  <2> QED BY <1>0, <2>1
<1>4. S \subseteq f[N]
  <2> DEFINE bad == {m \in 0 .. N : ~(S \subseteq f[m])}
  <2>1. bad = {}
    <3> SUFFICES ASSUME bad # {} PROVE FALSE
      OBVIOUS
    <3>1. bad \in SUBSET Nat
      OBVIOUS
    <3>2. PICK m \in bad : \A y \in bad : m <= y
      <4> HIDE DEF bad
      <4> QED BY <3>1, NatLeast
    <3>3. m \in 0 .. N /\ ~(S \subseteq f[m]) /\ m # 0
      BY <1>2
    <3>4. m \in 1 .. N /\ m - 1 \in 0 .. N /\ ~(m <= m - 1)
      BY <1>0, <3>3
    <3>5. S \subseteq f[m - 1]
      BY <3>2, <3>4
    <3> QED BY <1>2, <3>3, <3>4, <3>5
  <2> QED BY <1>0, <2>1
<1> QED BY <1>1, <1>3, <1>4

\* The pairs lead nowhere out of what is reached: each round finds another id or
\* is the last to find one, and there are no more ids than rounds.
LEMMA ReachedClosed ==
  ASSUME NEW S, NEW pairs, Within(S, pairs)
  PROVE  Following(Reached(S, pairs), pairs) \subseteq Reached(S, pairs)
<1> DEFINE N == MaxAppended
           Closed(X) == Following(X, pairs) \subseteq X
<1>0. N \in Nat /\ N \in 0 .. N
  BY ChainConstants
<1>1. PICK f : IsSearch(f, S, pairs, N) /\ Reached(S, pairs) = f[N]
  BY ReachedRounds
<1>2. f \in [0 .. N -> SUBSET Ids] /\ f[0] = S /\ \A n \in 1 .. N : f[n] = f[n - 1] \cup Following(f[n - 1], pairs)
  BY <1>1 DEF IsSearch
<1>3. IsFiniteSet(Ids) /\ Cardinality(Ids) = N
  BY <1>0, FS_Interval DEF Ids
<1>4. \A n \in 0 .. N : IsFiniteSet(f[n]) /\ Cardinality(f[n]) \in Nat
  BY <1>2, <1>3, FS_Subset, FS_CardinalityType
<1>5. ASSUME NEW k \in 0 .. N, Closed(f[k])
      PROVE  Closed(f[N])
  <2> DEFINE bad == {m \in k .. N : ~Closed(f[m])}
  <2>1. bad = {}
    <3> SUFFICES ASSUME bad # {} PROVE FALSE
      OBVIOUS
    <3>1. bad \in SUBSET Nat
      BY <1>0
    <3>2. PICK m \in bad : \A y \in bad : m <= y
      <4> HIDE DEF bad
      <4> QED BY <3>1, NatLeast
    <3>3. m \in k .. N /\ ~Closed(f[m]) /\ m # k
      BY <1>5
    <3>4. m \in 1 .. N /\ m - 1 \in k .. N /\ ~(m <= m - 1)
      BY <1>0, <3>3
    <3>5. Closed(f[m - 1])
      BY <3>2, <3>4
    <3>6. f[m] = f[m - 1]
      BY <1>2, <3>4, <3>5
    <3> QED BY <3>3, <3>5, <3>6
  <2>2. N \in k .. N
    BY <1>0
  <2> QED BY <2>1, <2>2
<1>6. ASSUME \A k \in 0 .. N : ~Closed(f[k])
      PROVE  FALSE
  <2> DEFINE bad == {m \in 0 .. N : ~(Cardinality(f[m]) >= m)}
  <2>1. bad = {}
    <3> SUFFICES ASSUME bad # {} PROVE FALSE
      OBVIOUS
    <3>1. bad \in SUBSET Nat
      BY <1>0
    <3>2. PICK m \in bad : \A y \in bad : m <= y
      <4> HIDE DEF bad
      <4> QED BY <3>1, NatLeast
    <3>3. m \in 0 .. N /\ ~(Cardinality(f[m]) >= m)
      BY <3>2
    <3>4. m # 0
      BY <1>0, <1>4, <3>3
    <3>5. m \in 1 .. N /\ m - 1 \in 0 .. N /\ ~(m <= m - 1)
      BY <1>0, <3>3, <3>4
    <3>6. Cardinality(f[m - 1]) >= m - 1
      BY <3>2, <3>5
    <3>7. f[m - 1] \subseteq f[m] /\ f[m - 1] # f[m]
      BY <1>2, <1>6, <3>5
    <3>8. Cardinality(f[m - 1]) < Cardinality(f[m])
      <4>1. IsFiniteSet(f[m]) /\ Cardinality(f[m]) \in Nat /\ Cardinality(f[m - 1]) \in Nat
        BY <1>4, <3>3, <3>5
      <4>2. Cardinality(f[m - 1]) <= Cardinality(f[m])
            /\ (Cardinality(f[m - 1]) = Cardinality(f[m]) => f[m - 1] = f[m])
        BY <3>7, <4>1, FS_Subset
      <4> QED BY <3>7, <4>1, <4>2
    <3> QED BY <1>4, <3>3, <3>5, <3>6, <3>8
  <2>2. Cardinality(f[N]) >= N /\ f[N] \subseteq Ids /\ Cardinality(f[N]) \in Nat
    BY <1>0, <1>2, <1>4, <2>1
  <2>3. f[N] = Ids
    BY <1>0, <1>3, <2>2, FS_Subset
  <2>4. Closed(Ids)
    BY FollowingIds
  <2> QED BY <1>0, <1>6, <2>3, <2>4
<1> QED BY <1>1, <1>5, <1>6

\* Of appends one after the other the index is the inverse of the causes, and a
\* cause comes before its effects.
LEMMA IndexInverts ==
  ASSUME ChainInv, Busy = {}, ~overlapped, NEW L \in Nat, L = Len(chain)
  PROVE  /\ ChainedIds = 1 .. L /\ 1 .. L \subseteq Ids
         /\ Causes \subseteq Ids \X Ids /\ Effects \subseteq Ids \X Ids
         /\ \A p \in Causes : p[1] \in 1 .. L /\ p[2] \in 1 .. L /\ p[2] < p[1]
         /\ \A c, i : <<i, c>> \in Causes <=> <<c, i>> \in Effects
<1>1. ChainTypeOK /\ SerialChain /\ SerialIndex /\ DOMAIN chain = 1 .. L
  BY EntryIs DEF ChainInv
<1>2. ChainedIds = 1 .. L /\ 1 .. L \subseteq Ids
  BY <1>1, EntryIs DEF ChainedIds, SerialChain
<1>3. \A i \in 1 .. L : chain[i].id = i /\ chain[i].cause \in Ids \cup {NoCause}
                        /\ (chain[i].cause # NoCause => chain[i].cause < i)
  BY <1>1, EntryIs DEF SerialChain
<1>4. \A i, c : <<i, c>> \in Causes <=> i \in 1 .. L /\ c = chain[i].cause /\ c # NoCause
  BY <1>1, <1>3 DEF Causes
<1>5. ASSUME NEW p \in Causes
      PROVE  p = <<p[1], p[2]>> /\ p[1] \in 1 .. L /\ p[2] \in Ids /\ p[2] \in 1 .. L /\ p[2] < p[1]
  <2>1. PICK i \in 1 .. L : chain[i].cause # NoCause /\ p = <<i, chain[i].cause>>
    BY <1>1, <1>3 DEF Causes
  <2>2. chain[i].cause \in Ids /\ chain[i].cause < i
    BY <1>3, <2>1
  <2>3. chain[i].cause \in 1 .. L
    <3> DEFINE c == chain[i].cause
    <3>1. c \in Ids /\ c < i
      BY <2>2
    <3> HIDE DEF c
    <3>2. c \in Nat /\ 1 <= c
      BY <3>1, ChainConstants DEF Ids
    <3>3. c \in 1 .. L
      BY <3>1, <3>2
    <3> QED BY <3>3 DEF c
  <2> QED BY <2>1, <2>2, <2>3
<1>6. IndexedUpTo = L
  <2>1. \A t \in Appenders : appender[t].at = "idle"
    BY <1>1, WorkingIs DEF Busy
  <2> QED BY <2>1 DEF IndexedUpTo, Indexing
<1>7. \A c \in DOMAIN causalIndex : c \in Ids /\ causalIndex[c].effects = {i \in 1 .. L : chain[i].cause = c}
  BY <1>1, <1>6 DEF SerialIndex, ChainTypeOK
<1>8. \A c \in Ids \ DOMAIN causalIndex : {i \in 1 .. L : chain[i].cause = c} = {}
  BY <1>1, <1>6 DEF SerialIndex
<1>9. \A c, i : <<c, i>> \in Effects <=> c \in DOMAIN causalIndex /\ i \in causalIndex[c].effects
  BY DEF Effects
<1>10. NoCause \notin Ids
  BY ChainConstants DEF Ids
<1>11. ASSUME NEW c, NEW i PROVE <<i, c>> \in Causes <=> <<c, i>> \in Effects
  <2>1. ASSUME <<i, c>> \in Causes PROVE <<c, i>> \in Effects
    <3>1. i \in 1 .. L /\ c = chain[i].cause /\ c # NoCause
      BY <1>4, <2>1
    <3>2. c \in Ids
      BY <1>3, <3>1
    <3>3. c \in DOMAIN causalIndex
      BY <1>8, <3>1, <3>2
    <3> QED BY <1>7, <1>9, <3>1, <3>3
  <2>2. ASSUME <<c, i>> \in Effects PROVE <<i, c>> \in Causes
    <3>1. c \in DOMAIN causalIndex /\ i \in causalIndex[c].effects
      BY <1>9, <2>2
    <3>2. c \in Ids /\ i \in 1 .. L /\ chain[i].cause = c
      BY <1>7, <3>1
    <3> QED BY <1>4, <1>10, <3>2
  <2> QED BY <2>1, <2>2
<1>12. Causes \subseteq Ids \X Ids
  BY <1>2, <1>5
<1>13. Effects \subseteq Ids \X Ids
  <2> SUFFICES ASSUME NEW p \in Effects PROVE p \in Ids \X Ids
    OBVIOUS
  <2>1. PICK c \in DOMAIN causalIndex : p \in {c} \X causalIndex[c].effects
    BY DEF Effects
  <2>2. c \in Ids /\ causalIndex[c].effects \subseteq Ids
    BY <1>2, <1>7
  <2> QED BY <2>1, <2>2
<1> QED BY <1>2, <1>5, <1>11, <1>12, <1>13

\* Then an event's effects are just the events whose causal chain contains it.
LEMMA EffectsExact ==
  ASSUME ChainInv, Busy = {}, ~overlapped, NEW e \in ChainedIds
  PROVE  QueryEffects(e) = {f \in ChainedIds \ {e} : e \in CausalChain(f)}
<1>0. PICK L \in Nat : L = Len(chain)
  BY EntryIs DEF ChainInv
<1>1. /\ ChainedIds = 1 .. L /\ 1 .. L \subseteq Ids
      /\ Causes \subseteq Ids \X Ids /\ Effects \subseteq Ids \X Ids
      /\ \A p \in Causes : p[1] \in 1 .. L /\ p[2] \in 1 .. L /\ p[2] < p[1]
      /\ \A c, i : <<i, c>> \in Causes <=> <<c, i>> \in Effects
  BY <1>0, IndexInverts
<1> DEFINE first == Following({e}, Effects)
           Q == QueryEffects(e)
           C(f) == CausalChain(f)
<1>2. \A X, g : g \in Following(X, Effects) <=> \E c \in X : <<c, g>> \in Effects
  <2>1. \A p \in Effects : p = <<p[1], p[2]>>
    BY <1>1
  <2> QED BY <2>1 DEF Following
<1>3. \A X, g : g \in Following(X, Causes) <=> \E i \in X : <<i, g>> \in Causes
  <2>1. \A p \in Causes : p = <<p[1], p[2]>>
    BY <1>1
  <2> QED BY <2>1 DEF Following
<1>4. Within(first, Effects) /\ \A g \in first : <<e, g>> \in Effects
  <2>1. ASSUME NEW g \in first PROVE <<e, g>> \in Effects /\ g \in Ids
    <3>1. PICK p \in Effects : p[1] \in {e} /\ g = p[2]
      BY DEF Following
    <3>2. <<e, g>> \in Effects
      BY <1>1, <3>1
    <3> QED BY <1>1, <3>2
  <2>2. first \subseteq Ids
    BY <2>1
  <2> HIDE DEF first
  <2> QED BY <1>1, <2>1, <2>2 DEF Within
<1>5. \A f \in 1 .. L : Within({f}, Causes)
  BY <1>1 DEF Within
<1>6. /\ first \subseteq Q /\ Following(Q, Effects) \subseteq Q
      /\ \A X : first \subseteq X /\ Following(X, Effects) \subseteq X => Q \subseteq X
  BY <1>4, ReachedLeast, ReachedClosed DEF QueryEffects
<1>7. ASSUME NEW f \in 1 .. L
      PROVE  /\ f \in C(f) /\ Following(C(f), Causes) \subseteq C(f)
             /\ \A X : f \in X /\ Following(X, Causes) \subseteq X => C(f) \subseteq X
  <2>1. Within({f}, Causes)
    BY <1>5
  <2> QED BY <2>1, ReachedLeast, ReachedClosed DEF CausalChain
<1> HIDE DEF Q, C
<1>8. ASSUME NEW f \in Q
      PROVE  f \in 1 .. L /\ f # e /\ e \in C(f)
  <2> DEFINE X == {g \in 1 .. L : e < g /\ e \in C(g)}
  <2>1. first \subseteq X
    <3> SUFFICES ASSUME NEW g \in first PROVE g \in X
      OBVIOUS
    <3>1. <<g, e>> \in Causes
      BY <1>1, <1>4
    <3>2. g \in 1 .. L /\ e < g
      BY <1>1, <3>1
    <3>3. e \in C(g)
      BY <1>3, <1>7, <3>1, <3>2
    <3> QED BY <3>2, <3>3
  <2>2. Following(X, Effects) \subseteq X
    <3> SUFFICES ASSUME NEW g \in Following(X, Effects) PROVE g \in X
      OBVIOUS
    <3>1. PICK c \in X : <<g, c>> \in Causes
      BY <1>1, <1>2
    <3>2. c \in 1 .. L /\ e < c /\ e \in C(c)
      OBVIOUS
    <3>3. g \in 1 .. L /\ c < g
      BY <1>1, <3>1
    <3>4. c \in C(g) /\ Following(C(g), Causes) \subseteq C(g)
      BY <1>3, <1>7, <3>1, <3>3
    <3>5. C(c) \subseteq C(g)
      BY <1>7, <3>2, <3>4
    <3> QED BY <1>1, <3>2, <3>3, <3>5
  <2>3. f \in X
    BY <1>6, <2>1, <2>2
  <2> QED BY <1>1, <2>3
<1>9. ASSUME NEW f \in 1 .. L, f # e, e \in C(f)
      PROVE  f \in Q
  <2> SUFFICES ASSUME f \notin Q PROVE FALSE
    OBVIOUS
  <2> DEFINE X == Ids \ (Q \cup {e})
  <2>1. f \in X
    BY <1>1, <1>9
  <2>2. Following(X, Causes) \subseteq X
    <3> SUFFICES ASSUME NEW c \in Following(X, Causes) PROVE c \in X
      OBVIOUS
    <3>1. PICK g \in X : <<g, c>> \in Causes
      BY <1>3
    <3>2. <<c, g>> \in Effects /\ c \in Ids
      BY <1>1, <3>1
    <3>3. c # e
      BY <1>2, <1>6, <3>1, <3>2
    <3>4. c \notin Q
      BY <1>2, <1>6, <3>1, <3>2
    <3> QED BY <3>2, <3>3, <3>4
  <2>3. C(f) \subseteq X
    BY <1>7, <2>1, <2>2
  <2> QED BY <1>9, <2>3
<1> QED BY <1>1, <1>8, <1>9 DEF Q, C

\* Between appends of threads that share the log without a lock the verdict of
\* verify_chain is exact, and while it passes query_effects and
\* query_causal_chain tell the same story.
THEOREM VerdictOfTheChainIsExact == ChainSpec => []ChainTells
<1>1. ChainInit => ChainInv
  BY ChainStart
<1>2. ChainInv /\ [ChainNext]_chainVars => ChainInv'
  BY ChainStep
<1>3. ChainInv => ChainTells
  <2> SUFFICES ASSUME ChainInv, Busy = {}
               PROVE  /\ VerifyChain <=> ~overlapped /\ \A i \in DOMAIN chain : chain[i].payload = "as appended"
                      /\ VerifyChain => \A e \in ChainedIds :
                           QueryEffects(e) = {f \in ChainedIds \ {e} : e \in CausalChain(f)}
    BY DEF ChainTells
  <2>1. VerifyChain <=> ~overlapped /\ \A i \in DOMAIN chain : chain[i].payload = "as appended"
    BY VerdictExact
  <2>2. ASSUME VerifyChain, NEW e \in ChainedIds
        PROVE  QueryEffects(e) = {f \in ChainedIds \ {e} : e \in CausalChain(f)}
    <3>1. ~overlapped
      BY <2>1, <2>2
    <3> QED BY <2>2, <3>1, EffectsExact
  <2> QED BY <2>1, <2>2
<1> QED BY <1>1, <1>2, <1>3, PTL DEF ChainSpec

----------------------------------------------------------------------------
(* Projection: sorting ids *)

\* Sorting lists the units of a set, each once.
LEMMA SortedLists ==
  ASSUME NEW units \in SUBSET GraphUnits
  PROVE  /\ Sorted(units) \in Seq(units) /\ Len(Sorted(units)) = Cardinality(units)
         /\ IsInjective(Sorted(units)) /\ Range(Sorted(units)) = units
<1> DEFINE n == Cardinality(units)
           below(u) == {v \in units : v < u}
           rank == [u \in units |-> Cardinality(below(u)) + 1]
<1>1. units \subseteq Nat /\ IsFiniteSet(units) /\ n \in Nat
  <2>1. IsFiniteSet(GraphUnits) /\ GraphUnits \subseteq Nat
    BY ProjectionConstants, FS_Interval DEF GraphUnits
  <2> QED BY <2>1, FS_Subset, FS_CardinalityType
<1>2. \A u \in units : IsFiniteSet(below(u)) /\ Cardinality(below(u)) \in 0 .. n - 1
  <2>1. TAKE u \in units
  <2>2. below(u) \in SUBSET (units \ {u})
    BY <1>1
  <2>3. IsFiniteSet(units \ {u}) /\ Cardinality(units \ {u}) = n - 1
    BY <1>1, FS_RemoveElement
  <2> HIDE DEF below
  <2> QED BY <1>1, <2>2, <2>3, FS_Subset, FS_CardinalityType
<1>3. ASSUME NEW u \in units, NEW v \in units, u < v
      PROVE  Cardinality(below(u)) < Cardinality(below(v))
  <2>1. below(u) \in SUBSET (below(v) \ {u}) /\ u \in below(v)
    <3>1. \A w \in units : w < u => w < v /\ w # u
      BY <1>1, <1>3
    <3> QED BY <1>3, <3>1
  <2> HIDE DEF below
  <2>2. IsFiniteSet(below(v) \ {u}) /\ Cardinality(below(v) \ {u}) = Cardinality(below(v)) - 1
    BY <1>2, <2>1, FS_RemoveElement
  <2>3. Cardinality(below(u)) <= Cardinality(below(v) \ {u})
    BY <2>1, <2>2, FS_Subset
  <2>4. Cardinality(below(u)) \in Int /\ Cardinality(below(v)) \in Int
    BY <1>1, <1>2
  <2> QED BY <2>2, <2>3, <2>4
<1>4. \A u \in units : rank[u] = Cardinality(below(u)) + 1 /\ rank[u] \in 1 .. n
  BY <1>1, <1>2
<1>5. rank \in [units -> 1 .. n]
  BY <1>4
<1>6. \A u, v \in units : rank[u] = rank[v] => u = v
  <2> HIDE DEF rank, below
  <2>1. \A u, v \in units : u < v => rank[u] < rank[v]
    BY <1>1, <1>2, <1>3, <1>4
  <2> QED BY <1>1, <1>4, <2>1
<1>7. \A i \in 1 .. n : \E u \in units : rank[u] = i
  <2> HIDE DEF rank
  <2>1. rank \in Injection(units, 1 .. n)
    BY <1>5, <1>6 DEF Injection, IsInjective
  <2>2. IsFiniteSet(1 .. n) /\ Cardinality(1 .. n) = n
    BY <1>1, FS_Interval
  <2>3. rank \in Surjection(units, 1 .. n)
    BY <2>1, <2>2, FS_Injection
  <2> QED BY <2>3 DEF Surjection
<1> DEFINE at(i) == CHOOSE u \in units : Cardinality(below(u)) = i - 1
           s == Sorted(units)
<1>8. s = [i \in 1 .. n |-> at(i)]
  BY DEF Sorted
<1>9. \A i \in 1 .. n : at(i) \in units /\ rank[at(i)] = i
  <2>1. TAKE i \in 1 .. n
  <2> HIDE DEF rank, below
  <2>2. \E u \in units : Cardinality(below(u)) = i - 1
    <3>1. PICK u \in units : rank[u] = i
      BY <1>7
    <3>2. rank[u] = Cardinality(below(u)) + 1 /\ Cardinality(below(u)) \in 0 .. n - 1
      BY <1>2, <1>4
    <3> QED BY <1>1, <3>1, <3>2
  <2>3. at(i) \in units /\ Cardinality(below(at(i))) = i - 1
    BY <2>2
  <2> HIDE DEF at
  <2>4. rank[at(i)] = Cardinality(below(at(i))) + 1
    BY <1>4, <2>3
  <2> QED BY <1>1, <2>3, <2>4
<1> HIDE DEF at, rank, s
<1>10. s \in [1 .. n -> units] /\ \A i \in 1 .. n : s[i] \in units /\ rank[s[i]] = i
  BY <1>8, <1>9
<1>11. s \in Seq(units) /\ Len(s) = n /\ DOMAIN s = 1 .. n
  BY <1>1, <1>10
<1>12. IsInjective(s)
  BY <1>10, <1>11 DEF IsInjective
<1>13. \A u \in units : \E i \in 1 .. n : s[i] = u
  <2>1. TAKE u \in units
  <2>2. rank[u] \in 1 .. n
    BY <1>4
  <2> QED BY <1>6, <1>10, <2>2
<1>14. Range(s) = units
  BY <1>10, <1>11, <1>13 DEF Range
<1> QED BY <1>11, <1>12, <1>14 DEF s

\* One sequence after another, no element of which it shares, is injective.
LEMMA JoinedInjective ==
  ASSUME NEW S, NEW s \in Seq(S), NEW t \in Seq(S), IsInjective(s), IsInjective(t),
         Range(s) \cap Range(t) = {}
  PROVE  /\ s \o t \in Seq(S) /\ IsInjective(s \o t) /\ Range(s \o t) = Range(s) \cup Range(t)
         /\ Len(s \o t) = Len(s) + Len(t)
         /\ \A i \in DOMAIN s : i \in DOMAIN (s \o t) /\ (s \o t)[i] = s[i]
<1> DEFINE r == s \o t
           m == Len(s)
           n == Len(t)
<1>1. /\ r \in Seq(S) /\ Len(r) = m + n
      /\ \A i \in 1 .. m + n : r[i] = IF i <= m THEN s[i] ELSE t[i - m]
  BY ConcatProperties
<1>2. m \in Nat /\ n \in Nat /\ DOMAIN s = 1 .. m /\ DOMAIN t = 1 .. n /\ DOMAIN r = 1 .. m + n
  BY <1>1
<1> HIDE DEF r, m, n
<1>3. \A i \in 1 .. m : i \in 1 .. m + n /\ r[i] = s[i]
  BY <1>1, <1>2
<1>4. \A i \in 1 .. n : i + m \in 1 .. m + n /\ r[i + m] = t[i]
  BY <1>1, <1>2
<1>5. \A i \in 1 .. m + n : \/ i \in 1 .. m
                            \/ i - m \in 1 .. n /\ i = (i - m) + m
  BY <1>2
<1>6. ASSUME NEW i \in 1 .. m + n, NEW j \in 1 .. m + n, r[i] = r[j]
      PROVE  i = j
  <2>1. \A a \in 1 .. m, b \in 1 .. n : s[a] # t[b]
    BY <1>2 DEF Range
  <2>2. CASE i \in 1 .. m /\ j \in 1 .. m
    BY <1>2, <1>3, <1>6, <2>2 DEF IsInjective
  <2>3. CASE i \in 1 .. m /\ j \notin 1 .. m
    BY <1>3, <1>4, <1>5, <1>6, <2>1, <2>3
  <2>4. CASE i \notin 1 .. m /\ j \in 1 .. m
    BY <1>3, <1>4, <1>5, <1>6, <2>1, <2>4
  <2>5. CASE i \notin 1 .. m /\ j \notin 1 .. m
    <3>1. i - m \in 1 .. n /\ j - m \in 1 .. n /\ t[i - m] = t[j - m]
      BY <1>4, <1>5, <1>6, <2>5
    <3>2. i - m = j - m
      BY <1>2, <3>1 DEF IsInjective
    <3> QED BY <1>2, <3>2
  <2> QED BY <2>2, <2>3, <2>4, <2>5
<1>7. IsInjective(r)
  BY <1>2, <1>6 DEF IsInjective
<1>8. Range(r) = Range(s) \cup Range(t)
  <2>1. \A i \in 1 .. m + n : r[i] \in Range(s) \cup Range(t)
    BY <1>2, <1>3, <1>4, <1>5 DEF Range
  <2>2. \A i \in 1 .. m : s[i] \in Range(r)
    BY <1>2, <1>3 DEF Range
  <2>3. \A i \in 1 .. n : t[i] \in Range(r)
    BY <1>2, <1>4 DEF Range
  <2> QED BY <1>2, <2>1, <2>2, <2>3 DEF Range
<1> QED BY <1>1, <1>2, <1>3, <1>7, <1>8 DEF r, m, n

\* An element more, unlike those there are.
LEMMA OneMoreInjective ==
  ASSUME NEW S, NEW s \in Seq(S), NEW u \in S, IsInjective(s), u \notin Range(s)
  PROVE  /\ Append(s, u) \in Seq(S) /\ IsInjective(Append(s, u))
         /\ Range(Append(s, u)) = Range(s) \cup {u}
         /\ DOMAIN Append(s, u) = 1 .. Len(s) + 1
         /\ Append(s, u)[Len(s) + 1] = u
         /\ \A i \in 1 .. Len(s) : Append(s, u)[i] = s[i]
<1>1. Append(s, u) \in Seq(S)
  OBVIOUS
<1>2. /\ DOMAIN Append(s, u) = 1 .. Len(s) + 1
      /\ Append(s, u)[Len(s) + 1] = u
      /\ \A i \in 1 .. Len(s) : Append(s, u)[i] = s[i]
  OBVIOUS
<1>3. DOMAIN s = 1 .. Len(s) /\ Len(s) \in Nat
  OBVIOUS
<1>4. ASSUME NEW m \in Nat, NEW r, DOMAIN s = 1 .. m, DOMAIN r = 1 .. m + 1,
             r[m + 1] = u, \A i \in 1 .. m : r[i] = s[i]
      PROVE  IsInjective(r) /\ Range(r) = Range(s) \cup {u}
  <2>1. \A i \in 1 .. m + 1 : i \in 1 .. m \/ i = m + 1
    OBVIOUS
  <2>2. \A i \in 1 .. m : s[i] # u /\ i \in 1 .. m + 1
    BY <1>4 DEF Range
  <2>3. IsInjective(r)
    BY <1>4, <2>1, <2>2 DEF IsInjective
  <2>4. Range(r) = Range(s) \cup {u}
    BY <1>4, <2>1 DEF Range
  <2> QED BY <2>3, <2>4
<1>5. IsInjective(Append(s, u)) /\ Range(Append(s, u)) = Range(s) \cup {u}
  BY <1>2, <1>3, <1>4
<1> QED BY <1>1, <1>2, <1>5

\* Without its head a sequence has its other elements.
LEMMA OneLessInjective ==
  ASSUME NEW S, NEW s \in Seq(S), s # <<>>, IsInjective(s)
  PROVE  /\ Head(s) \in S /\ Tail(s) \in Seq(S) /\ IsInjective(Tail(s))
         /\ Range(Tail(s)) = Range(s) \ {Head(s)} /\ Head(s) \in Range(s)
<1> DEFINE r == Tail(s)
           m == Len(s)
<1>1. /\ r \in Seq(S) /\ m \in Nat /\ m # 0 /\ DOMAIN s = 1 .. m /\ DOMAIN r = 1 .. m - 1
      /\ Head(s) = s[1] /\ \A i \in 1 .. m - 1 : r[i] = s[i + 1]
      /\ Head(s) \in S
  OBVIOUS
<1> HIDE DEF r, m
<1>2. \A i \in 1 .. m - 1 : i + 1 \in 1 .. m /\ i + 1 # 1
  BY <1>1
<1>3. \A i \in 1 .. m : i = 1 \/ (i - 1 \in 1 .. m - 1 /\ s[i] = r[i - 1])
  BY <1>1
<1>4. \A i, j \in 1 .. m : s[i] = s[j] => i = j
  BY <1>1 DEF IsInjective
<1>5. IsInjective(r)
  <2>1. ASSUME NEW i \in 1 .. m - 1, NEW j \in 1 .. m - 1, r[i] = r[j] PROVE i = j
    <3>1. i + 1 = j + 1
      BY <1>1, <1>2, <1>4, <2>1
    <3> QED BY <1>1, <3>1
  <2> QED BY <1>1, <2>1 DEF IsInjective
<1>6. 1 \in 1 .. m
  BY <1>1
<1>7. Range(r) = Range(s) \ {Head(s)}
  <2>1. \A i \in 1 .. m - 1 : r[i] \in Range(s) /\ r[i] # s[1]
    BY <1>1, <1>2, <1>4, <1>6 DEF Range
  <2>2. \A i \in 1 .. m : s[i] # s[1] => s[i] \in Range(r)
    BY <1>1, <1>3 DEF Range
  <2>3. Range(s) = {s[i] : i \in 1 .. m} /\ Range(r) = {r[i] : i \in 1 .. m - 1}
    BY <1>1 DEF Range
  <2>4. \A x \in Range(r) : x \in Range(s) /\ x # s[1]
    BY <2>1, <2>3
  <2>5. \A x \in Range(s) : x # s[1] => x \in Range(r)
    BY <2>2, <2>3
  <2> QED BY <1>1, <2>4, <2>5
<1>8. Head(s) \in Range(s)
  BY <1>1, <1>6 DEF Range
<1> QED BY <1>1, <1>5, <1>7, <1>8 DEF r

----------------------------------------------------------------------------
(* Projection: cycles *)

\* Downstream is closed, and the least such set.
LEMMA DownstreamIs ==
  ASSUME NEW u, \A e \in wires : {e.source, e.target} \subseteq GraphUnits
  PROVE  /\ Downstream(u) \subseteq GraphUnits
         /\ \A e \in ExecutionEdges : e.source \in Downstream(u) \cup {u} => e.target \in Downstream(u)
         /\ \A C \in SUBSET GraphUnits :
              (\A e \in ExecutionEdges : e.source \in C \cup {u} => e.target \in C)
              => Downstream(u) \subseteq C
  BY DEF Downstream, ExecutionEdges

\* Where each unit is fed from within a set, one of them is on a cycle.
LEMMA CycleExists ==
  ASSUME \A e \in wires : {e.source, e.target} \subseteq GraphUnits,
         NEW M \in SUBSET GraphUnits, M # {},
         \A v \in M : \E e \in ExecutionEdges : e.target = v /\ e.source \in M
  PROVE  \E u \in M : u \in Downstream(u)
<1> SUFFICES ASSUME \A u \in M : u \notin Downstream(u) PROVE FALSE
  OBVIOUS
<1> DEFINE above(v) == {x \in M : v \in Downstream(x)}
           T == {Cardinality(above(v)) : v \in M}
<1>1. IsFiniteSet(M)
  <2>1. IsFiniteSet(GraphUnits)
    BY ProjectionConstants, FS_Interval DEF GraphUnits
  <2> QED BY <2>1, FS_Subset
<1>2. \A v \in M : IsFiniteSet(above(v)) /\ Cardinality(above(v)) \in Nat
  <2>1. \A v \in M : above(v) \in SUBSET M
    OBVIOUS
  <2> HIDE DEF above
  <2> QED BY <1>1, <2>1, FS_Subset, FS_CardinalityType
<1>3. PICK v \in M : \A w \in M : Cardinality(above(v)) <= Cardinality(above(w))
  <2> HIDE DEF above
  <2>1. T \in SUBSET Nat /\ T # {}
    BY <1>2
  <2>2. \E x \in T : \A y \in T : x <= y
    <3> HIDE DEF T
    <3> QED BY <2>1, NatLeast
  <2> QED BY <2>2
<1>4. PICK e \in ExecutionEdges : e.target = v /\ e.source \in M
  OBVIOUS
<1> DEFINE p == e.source
<1>5. p \in above(v)
  BY <1>4, DownstreamIs
<1>6. above(p) \in SUBSET (above(v) \ {p})
  <2>1. \A x \in M : p \in Downstream(x) => v \in Downstream(x)
    BY <1>4, DownstreamIs
  <2> QED BY <1>4, <2>1
<1> HIDE DEF above
<1>7. IsFiniteSet(above(v) \ {p}) /\ Cardinality(above(v) \ {p}) = Cardinality(above(v)) - 1
  BY <1>2, <1>5, FS_RemoveElement
<1>8. Cardinality(above(p)) <= Cardinality(above(v) \ {p})
  BY <1>6, <1>7, FS_Subset
<1> QED BY <1>2, <1>3, <1>4, <1>7, <1>8

----------------------------------------------------------------------------
(* Projection: the loop *)

\* The edges into v from units outside Z, fewer by those from u when u joins Z.
LEMMA HeldBackBy ==
  ASSUME IsFiniteSet(wires), NEW v, NEW Z, NEW u, u \notin Z
  PROVE  /\ Cardinality(EdgesInto(v, Z)) \in Nat /\ Parallel(u, v) \in Nat
         /\ Cardinality(EdgesInto(v, Z \cup {u})) = Cardinality(EdgesInto(v, Z)) - Parallel(u, v)
         /\ Parallel(u, v) <= Cardinality(EdgesInto(v, Z))
<1> DEFINE direct == {e \in ExecutionEdges : e.source = u /\ e.target = v}
<1>1. IsFiniteSet(ExecutionEdges)
  <2>1. ExecutionEdges \in SUBSET wires
    BY DEF ExecutionEdges
  <2> QED BY <2>1, FS_Subset
<1>2. IsFiniteSet(EdgesInto(v, Z)) /\ IsFiniteSet(direct) /\ direct \in SUBSET EdgesInto(v, Z)
  <2>1. EdgesInto(v, Z) \in SUBSET ExecutionEdges /\ direct \in SUBSET ExecutionEdges
    BY DEF EdgesInto
  <2>2. direct \in SUBSET EdgesInto(v, Z)
    BY DEF EdgesInto
  <2> HIDE DEF direct
  <2> QED BY <1>1, <2>1, <2>2, FS_Subset
<1>3. EdgesInto(v, Z \cup {u}) = EdgesInto(v, Z) \ direct
  BY DEF EdgesInto
<1>4. Parallel(u, v) = Cardinality(direct)
  BY DEF Parallel
<1> HIDE DEF direct
<1>5. EdgesInto(v, Z) \cap direct = direct
  BY <1>2
<1>6. Cardinality(EdgesInto(v, Z \cup {u})) = Cardinality(EdgesInto(v, Z)) - Cardinality(direct)
  BY <1>2, <1>3, <1>5, FS_Difference
<1>7. Cardinality(direct) \in Nat /\ Cardinality(EdgesInto(v, Z)) \in Nat
  BY <1>2, FS_CardinalityType
<1>8. Cardinality(direct) <= Cardinality(EdgesInto(v, Z))
  BY <1>2, FS_Subset
<1> QED BY <1>4, <1>6, <1>7, <1>8

\* The queue begins with what no edge leads to.
LEMMA StartKeeps ==
  ASSUME ProjectionInv, NEW demands \in DemandChoices, NEW given \in ContextChoices,
         StartProjection(demands, given)
  PROVE  ProjectionInv'
<1>1. /\ IsFiniteSet(wires) /\ topoOrder = <<>> /\ topoOrder' = <<>> /\ wires' = wires
      /\ projecting' = "sorting"
      /\ \A e \in wires : {e.source, e.target} \subseteq GraphUnits
  BY DEF ProjectionInv, StartProjection, Admissible
<1>2. ExecutionEdges' = ExecutionEdges
  BY <1>1 DEF ExecutionEdges
<1>3. IsFiniteSet(ExecutionEdges)
  <2>1. ExecutionEdges \in SUBSET wires
    BY DEF ExecutionEdges
  <2> QED BY <1>1, <2>1, FS_Subset
<1>4. inDegree' = [v \in GraphUnits |-> Cardinality({e \in ExecutionEdges : e.target = v})]
  BY DEF StartProjection
<1>5. inDegree' \in [GraphUnits -> Nat]
  <2>1. \A v \in GraphUnits : {e \in ExecutionEdges : e.target = v} \in SUBSET ExecutionEdges
    OBVIOUS
  <2>2. \A v \in GraphUnits : Cardinality({e \in ExecutionEdges : e.target = v}) \in Nat
    BY <1>3, <2>1, FS_Subset, FS_CardinalityType
  <2> QED BY <1>4, <2>2
<1> DEFINE free == {v \in GraphUnits : inDegree'[v] = 0}
<1>6. waiting' = Sorted(free)
  BY DEF StartProjection
<1>7. free \in SUBSET GraphUnits
  OBVIOUS
<1> HIDE DEF free
<1>8. waiting' \in Seq(free) /\ IsInjective(waiting') /\ Range(waiting') = free
  BY <1>6, <1>7, SortedLists
<1>9. waiting' \in Seq(GraphUnits)
  BY <1>7, <1>8
<1>10. Range(<<>>) = {} /\ IsInjective(<<>>)
  BY DEF Range, IsInjective
<1>11. QueueFollowsDegrees'
  <2>1. /\ IsInjective(topoOrder') /\ IsInjective(waiting')
        /\ Range(topoOrder') \cap Range(waiting') = {}
        /\ Range(topoOrder') \cup Range(waiting') = free
    BY <1>1, <1>8, <1>10
  <2>2. \A v \in GraphUnits :
          inDegree'[v] = Cardinality({e \in ExecutionEdges : e.target = v /\ e.source \notin Range(topoOrder')})
    BY <1>1, <1>4, <1>10
  <2> QED BY <1>2, <2>1, <2>2 DEF QueueFollowsDegrees, EdgesInto, free
<1>12. SourcesFirst'
  BY <1>1 DEF SourcesFirst
<1>13. ContextSuffices'
  <2>1. demanded' = demands /\ deployed' = given /\ Admissible(demands, given)
    BY DEF StartProjection
  <2> QED BY <2>1 DEF ContextSuffices, Admissible, RequiresContext, Satisfies
<1>14. SortingInv'
  <2>1. topoOrder' \in Seq(GraphUnits)
    BY <1>1
  <2> QED BY <1>1, <1>5, <1>9, <1>11, <1>12, <1>13, <2>1 DEF SortingInv
<1> QED BY <1>1, <1>14 DEF ProjectionInv, OrderRespectsEdges

\* One unit is taken from the queue, and what only it held back joins it.
LEMMA TakeKeeps ==
  ASSUME ProjectionInv, TakeUnit
  PROVE  ProjectionInv'
<1> DEFINE u == Head(waiting)
           left == [v \in GraphUnits |-> inDegree[v] - Parallel(u, v)]
           ready == {v \in GraphUnits : inDegree[v] > 0 /\ left[v] = 0}
           done == Range(topoOrder)
<1>1. /\ projecting = "sorting" /\ waiting # <<>> /\ projecting' = "sorting"
      /\ topoOrder' = Append(topoOrder, u) /\ inDegree' = left
      /\ waiting' = Tail(waiting) \o Sorted(ready)
      /\ wires' = wires /\ demanded' = demanded /\ deployed' = deployed
  BY DEF TakeUnit
<1>2. SortingInv /\ IsFiniteSet(wires)
  BY <1>1 DEF ProjectionInv
<1>3. /\ topoOrder \in Seq(GraphUnits) /\ waiting \in Seq(GraphUnits)
      /\ inDegree \in [GraphUnits -> Nat]
      /\ \A e \in wires : {e.source, e.target} \subseteq GraphUnits
      /\ ContextSuffices /\ SourcesFirst
  BY <1>2 DEF SortingInv
<1>4. /\ IsInjective(topoOrder) /\ IsInjective(waiting) /\ done \cap Range(waiting) = {}
      /\ done \cup Range(waiting) = {v \in GraphUnits : inDegree[v] = 0}
      /\ \A v \in GraphUnits : inDegree[v] = Cardinality(EdgesInto(v, done))
  BY <1>2 DEF SortingInv, QueueFollowsDegrees
<1>5. ExecutionEdges' = ExecutionEdges
  BY <1>1 DEF ExecutionEdges
<1>6. /\ u \in GraphUnits /\ Tail(waiting) \in Seq(GraphUnits) /\ IsInjective(Tail(waiting))
      /\ Range(Tail(waiting)) = Range(waiting) \ {u} /\ u \in Range(waiting)
  BY <1>1, <1>3, <1>4, OneLessInjective
<1>7. u \notin done
  BY <1>4, <1>6
<1>8. \A v \in GraphUnits :
        /\ Parallel(u, v) \in Nat /\ Parallel(u, v) <= inDegree[v]
        /\ Cardinality(EdgesInto(v, done \cup {u})) = inDegree[v] - Parallel(u, v)
  <2>1. TAKE v \in GraphUnits
  <2> HIDE DEF u, done
  <2>2. inDegree[v] = Cardinality(EdgesInto(v, done))
    BY <1>4
  <2> QED BY <1>2, <1>7, <2>2, HeldBackBy
<1> HIDE DEF u, done
<1>9. \A v \in GraphUnits : left[v] \in Nat /\ left[v] = Cardinality(EdgesInto(v, done \cup {u}))
                            /\ (inDegree[v] = 0 => left[v] = 0)
  <2>1. TAKE v \in GraphUnits
  <2>2. left[v] = inDegree[v] - Parallel(u, v) /\ inDegree[v] \in Nat
    BY <1>3
  <2> HIDE DEF left
  <2> QED BY <1>8, <2>2
<1>10. left \in [GraphUnits -> Nat]
  BY <1>9
<1>11. {v \in GraphUnits : left[v] = 0} = {v \in GraphUnits : inDegree[v] = 0} \cup ready
  BY <1>3, <1>9
<1>12. ready \in SUBSET GraphUnits /\ ready \cap {v \in GraphUnits : inDegree[v] = 0} = {}
  BY <1>3
<1> HIDE DEF left, ready
<1>13. /\ Sorted(ready) \in Seq(ready) /\ IsInjective(Sorted(ready)) /\ Range(Sorted(ready)) = ready
  BY <1>12, SortedLists
<1>14. Sorted(ready) \in Seq(GraphUnits)
  BY <1>12, <1>13
<1>15. /\ waiting' \in Seq(GraphUnits) /\ IsInjective(waiting')
       /\ Range(waiting') = (Range(waiting) \ {u}) \cup ready
  <2>1. Range(Tail(waiting)) \cap Range(Sorted(ready)) = {}
    BY <1>4, <1>6, <1>12, <1>13
  <2> DEFINE s == Tail(waiting)
             t == Sorted(ready)
  <2>2. /\ s \in Seq(GraphUnits) /\ t \in Seq(GraphUnits) /\ IsInjective(s) /\ IsInjective(t)
        /\ Range(s) \cap Range(t) = {}
    BY <1>6, <1>13, <1>14, <2>1
  <2>3. waiting' = s \o t /\ Range(s) \cup Range(t) = (Range(waiting) \ {u}) \cup ready
    BY <1>1, <1>6, <1>13
  <2> HIDE DEF s, t
  <2> QED BY <2>2, <2>3, JoinedInjective
<1>16. /\ topoOrder' \in Seq(GraphUnits) /\ IsInjective(topoOrder')
       /\ Range(topoOrder') = done \cup {u}
       /\ DOMAIN topoOrder' = 1 .. Len(topoOrder) + 1
       /\ topoOrder'[Len(topoOrder) + 1] = u
       /\ \A i \in 1 .. Len(topoOrder) : topoOrder'[i] = topoOrder[i]
  <2>1. topoOrder \in Seq(GraphUnits) /\ IsInjective(topoOrder) /\ u \notin Range(topoOrder)
    BY <1>3, <1>4, <1>7 DEF done
  <2>2. topoOrder' = Append(topoOrder, u)
    BY <1>1
  <2>3. u \in GraphUnits
    BY <1>6
  <2>4. /\ Append(topoOrder, u) \in Seq(GraphUnits) /\ IsInjective(Append(topoOrder, u))
        /\ Range(Append(topoOrder, u)) = Range(topoOrder) \cup {u}
        /\ DOMAIN Append(topoOrder, u) = 1 .. Len(topoOrder) + 1
        /\ Append(topoOrder, u)[Len(topoOrder) + 1] = u
        /\ \A i \in 1 .. Len(topoOrder) : Append(topoOrder, u)[i] = topoOrder[i]
    BY <2>1, <2>3, OneMoreInjective
  <2> QED BY <2>2, <2>4 DEF done
<1>17. QueueFollowsDegrees'
  <2>1. Range(topoOrder') \cap Range(waiting') = {}
    BY <1>4, <1>6, <1>12, <1>15, <1>16
  <2>2. Range(topoOrder') \cup Range(waiting') = {v \in GraphUnits : inDegree'[v] = 0}
    BY <1>1, <1>4, <1>6, <1>11, <1>15, <1>16
  <2>3. \A v \in GraphUnits :
          inDegree'[v] = Cardinality(EdgesInto(v, Range(topoOrder')))
    BY <1>1, <1>9, <1>16
  <2> QED BY <1>5, <1>15, <1>16, <2>1, <2>2, <2>3 DEF QueueFollowsDegrees, EdgesInto
<1>18. SourcesFirst'
  <2> DEFINE m == Len(topoOrder)
  <2>1. m \in Nat /\ DOMAIN topoOrder = 1 .. m
    BY <1>3
  <2>2. ASSUME NEW j \in 1 .. m + 1, NEW e \in ExecutionEdges, e.target = topoOrder'[j]
        PROVE  \E i \in 1 .. j - 1 : topoOrder'[i] = e.source
    <3>1. CASE j = m + 1
      <4>1. e.target = u /\ inDegree[u] = 0 /\ e.source \in GraphUnits
        BY <1>3, <1>4, <1>6, <1>16, <2>2, <3>1 DEF ExecutionEdges
      <4>2. Cardinality(EdgesInto(u, done)) = 0
        BY <1>4, <1>6, <4>1
      <4>3. IsFiniteSet(EdgesInto(u, done))
        <5>1. EdgesInto(u, done) \in SUBSET wires
          BY DEF EdgesInto, ExecutionEdges
        <5> QED BY <1>2, <5>1, FS_Subset
      <4>4. EdgesInto(u, done) = {}
        BY <4>2, <4>3, FS_EmptySet
      <4>5. e.source \in done
        BY <4>1, <4>4 DEF EdgesInto
      <4>6. PICK i \in 1 .. m : topoOrder[i] = e.source
        BY <2>1, <4>5 DEF done, Range
      <4> QED BY <1>16, <2>1, <3>1, <4>6
    <3>2. CASE j \in 1 .. m
      <4>1. e.target = topoOrder[j]
        BY <1>16, <2>2, <3>2
      <4>2. PICK i \in 1 .. j - 1 : topoOrder[i] = e.source
        BY <1>3, <2>1, <3>2, <4>1 DEF SourcesFirst
      <4>3. i \in 1 .. m
        BY <2>1, <3>2
      <4> QED BY <1>16, <4>2, <4>3
    <3> QED BY <2>1, <3>1, <3>2
  <2> QED BY <1>5, <1>16, <2>2 DEF SourcesFirst
<1>19. ContextSuffices'
  BY <1>1, <1>3 DEF ContextSuffices
<1>20. SortingInv'
  BY <1>1, <1>3, <1>10, <1>15, <1>16, <1>17, <1>18, <1>19 DEF SortingInv
<1> QED BY <1>1, <1>2, <1>20 DEF ProjectionInv, OrderRespectsEdges

\* When the queue is empty, what is left is behind a cycle: each unit left is
\* fed by another.
LEMMA LeftAreHeldBack ==
  ASSUME SortingInv, IsFiniteSet(wires), waiting = <<>>
  PROVE  LET left == GraphUnits \ Range(topoOrder)
         IN  left \subseteq HeldBack /\ (left # {} <=> Cyclic # {})
<1> DEFINE done == Range(topoOrder)
           left == GraphUnits \ done
<1>1. /\ topoOrder \in Seq(GraphUnits) /\ inDegree \in [GraphUnits -> Nat]
      /\ \A e \in wires : {e.source, e.target} \subseteq GraphUnits
      /\ QueueFollowsDegrees /\ SourcesFirst
  BY DEF SortingInv
<1>2. \A e \in ExecutionEdges : e.source \in GraphUnits /\ e.target \in GraphUnits
  BY <1>1 DEF ExecutionEdges
<1>3. ASSUME NEW v \in left
      PROVE  \E e \in ExecutionEdges : e.target = v /\ e.source \in left
  <2>1. Range(waiting) = {}
    BY DEF Range
  <2>2. inDegree[v] # 0
    BY <1>1, <1>3, <2>1 DEF QueueFollowsDegrees
  <2>3. Cardinality(EdgesInto(v, done)) # 0
    BY <1>1, <1>3, <2>2 DEF QueueFollowsDegrees
  <2>4. EdgesInto(v, done) # {}
    BY <2>3, FS_EmptySet
  <2>5. PICK e \in ExecutionEdges : e.target = v /\ e.source \notin done
    BY <2>4 DEF EdgesInto
  <2> QED BY <1>2, <2>5
<1> HIDE DEF left
<1>4. left \in SUBSET GraphUnits
  BY DEF left
<1>5. ASSUME NEW M \in SUBSET GraphUnits, M # {},
             \A v \in M : \E e \in ExecutionEdges : e.target = v /\ e.source \in M
      PROVE  \E u \in M : u \in Cyclic
  BY <1>1, <1>5, CycleExists DEF Cyclic
<1>6. left \subseteq HeldBack
  <2> DEFINE M == left \ HeldBack
  <2>1. SUFFICES ASSUME M # {} PROVE FALSE
    OBVIOUS
  <2>2. \A e \in ExecutionEdges : e.source \in HeldBack => e.target \in HeldBack
    <3>1. TAKE e \in ExecutionEdges
    <3>2. CASE e.source \in Cyclic
      <4>1. e.target \in Downstream(e.source)
        BY <1>1, DownstreamIs
      <4> QED BY <3>2, <4>1 DEF HeldBack
    <3>3. ASSUME NEW u \in Cyclic, e.source \in Downstream(u) PROVE e.target \in HeldBack
      <4>1. e.target \in Downstream(u)
        BY <1>1, <3>3, DownstreamIs
      <4> QED BY <4>1 DEF HeldBack
    <3> QED BY <3>2, <3>3 DEF HeldBack
  <2>3. \A v \in M : \E e \in ExecutionEdges : e.target = v /\ e.source \in M
    BY <1>3, <2>2
  <2>4. \E u \in M : u \in Cyclic
    <3> HIDE DEF M
    <3>1. M \in SUBSET GraphUnits
      BY <1>4 DEF M
    <3> QED BY <1>5, <2>1, <2>3, <3>1
  <2> QED BY <2>4 DEF HeldBack
<1>7. left # {} => Cyclic # {}
  BY <1>3, <1>4, <1>5
<1>8. ASSUME left = {}, NEW u \in Cyclic PROVE FALSE
  <2> DEFINE m == Len(topoOrder)
  <2>1. /\ m \in Nat /\ DOMAIN topoOrder = 1 .. m
        /\ \A i, j \in 1 .. m : topoOrder[i] = topoOrder[j] => i = j
    BY <1>1 DEF QueueFollowsDegrees, IsInjective
  <2> HIDE DEF m
  <2>2. \A v \in GraphUnits : \E i \in 1 .. m : topoOrder[i] = v
    BY <1>8, <2>1 DEF left, Range
  <2>3. PICK i \in 1 .. m : topoOrder[i] = u
    BY <2>2 DEF Cyclic
  <2> DEFINE C == {v \in GraphUnits : \E j \in 1 .. m : i < j /\ topoOrder[j] = v}
  <2>4. ASSUME NEW e \in ExecutionEdges, e.source \in C \cup {u} PROVE e.target \in C
    <3>1. PICK j \in 1 .. m : i <= j /\ topoOrder[j] = e.source
      BY <2>1, <2>3, <2>4
    <3>2. PICK k \in 1 .. m : topoOrder[k] = e.target
      BY <1>2, <2>2
    <3>3. PICK h \in 1 .. k - 1 : topoOrder[h] = e.source
      BY <1>1, <2>1, <3>2 DEF SourcesFirst
    <3>4. h \in 1 .. m /\ h < k
      BY <2>1, <3>3
    <3>5. h = j
      BY <2>1, <3>1, <3>3, <3>4
    <3>6. i < k
      BY <2>1, <3>1, <3>4, <3>5
    <3> QED BY <1>2, <3>2, <3>6
  <2>5. C \in SUBSET GraphUnits
    OBVIOUS
  <2> HIDE DEF C
  <2>6. Downstream(u) \subseteq C
    BY <1>1, <2>4, <2>5, DownstreamIs
  <2>7. u \in C
    BY <2>6 DEF Cyclic
  <2>8. PICK j \in 1 .. m : i < j /\ topoOrder[j] = u
    BY <2>7 DEF C
  <2> QED BY <2>1, <2>3, <2>8
<1> QED BY <1>6, <1>7, <1>8 DEF left

\* What is left when the queue is empty follows in the order of the ids.
LEMMA FinishKeeps ==
  ASSUME ProjectionInv, FinishProjection
  PROVE  ProjectionInv'
<1> DEFINE done == Range(topoOrder)
           left == GraphUnits \ done
           m == Len(topoOrder)
           r == topoOrder \o Sorted(left)
<1>1. /\ projecting = "sorting" /\ waiting = <<>> /\ projecting' = "projected"
      /\ (warned' <=> m # UnitCount) /\ topoOrder' = r
      /\ wires' = wires /\ demanded' = demanded /\ deployed' = deployed
  BY DEF FinishProjection
<1>2. SortingInv /\ IsFiniteSet(wires)
  BY <1>1 DEF ProjectionInv
<1>3. /\ topoOrder \in Seq(GraphUnits) /\ IsInjective(topoOrder) /\ SourcesFirst /\ ContextSuffices
      /\ \A e \in wires : {e.source, e.target} \subseteq GraphUnits
  BY <1>2 DEF SortingInv, QueueFollowsDegrees
<1>4. m \in Nat /\ DOMAIN topoOrder = 1 .. m /\ done \subseteq GraphUnits
  BY <1>3 DEF Range
<1>5. left \subseteq HeldBack /\ (left # {} <=> Cyclic # {})
  BY <1>1, <1>2, LeftAreHeldBack
<1>6. left \in SUBSET GraphUnits /\ done \cap left = {} /\ done \cup left = GraphUnits
  BY <1>4
<1>7. IsFiniteSet(left) /\ Cardinality(GraphUnits) = UnitCount /\ IsFiniteSet(GraphUnits)
  <2>1. IsFiniteSet(GraphUnits) /\ Cardinality(GraphUnits) = UnitCount
    BY ProjectionConstants, FS_Interval DEF GraphUnits
  <2> QED BY <1>6, <2>1, FS_Subset
<1>8. /\ Sorted(left) \in Seq(left) /\ Len(Sorted(left)) = Cardinality(left)
      /\ IsInjective(Sorted(left)) /\ Range(Sorted(left)) = left
  BY <1>6, SortedLists
<1>9. /\ r \in Seq(GraphUnits) /\ IsInjective(r) /\ Range(r) = GraphUnits
      /\ Len(r) = m + Cardinality(left)
      /\ \A i \in 1 .. m : i \in DOMAIN r /\ r[i] = topoOrder[i]
  <2> HIDE DEF left, done, m
  <2> DEFINE t == Sorted(left)
  <2>1. t \in Seq(GraphUnits) /\ IsInjective(t) /\ Range(t) = left /\ Len(t) = Cardinality(left)
    BY <1>6, <1>8
  <2> HIDE DEF t
  <2>2. Range(topoOrder) \cap Range(t) = {} /\ Range(topoOrder) \cup Range(t) = GraphUnits
    BY <1>6, <2>1 DEF done
  <2>3. /\ topoOrder \o t \in Seq(GraphUnits) /\ IsInjective(topoOrder \o t)
        /\ Range(topoOrder \o t) = Range(topoOrder) \cup Range(t)
        /\ Len(topoOrder \o t) = Len(topoOrder) + Len(t)
        /\ \A i \in DOMAIN topoOrder : i \in DOMAIN (topoOrder \o t) /\ (topoOrder \o t)[i] = topoOrder[i]
    <3> DEFINE s == topoOrder
    <3>1. s \in Seq(GraphUnits) /\ IsInjective(s)
      BY <1>3
    <3>2. Range(s) \cap Range(t) = {}
      BY <2>2
    <3> HIDE DEF s
    <3>3. /\ s \o t \in Seq(GraphUnits) /\ IsInjective(s \o t)
          /\ Range(s \o t) = Range(s) \cup Range(t)
          /\ Len(s \o t) = Len(s) + Len(t)
      BY <2>1, <3>1, <3>2, JoinedInjective
    <3>4. \A i \in DOMAIN s : i \in DOMAIN (s \o t) /\ (s \o t)[i] = s[i]
      BY <2>1, <3>1, <3>2
    <3> QED BY <3>3, <3>4 DEF s
  <2> QED BY <1>4, <2>1, <2>2, <2>3 DEF t, m
<1> HIDE DEF r, left, done, m
<1>10. Len(r) = UnitCount
  <2>1. DOMAIN r = 1 .. Len(r) /\ Len(r) \in Nat
    BY <1>9
  <2>2. r \in Bijection(1 .. Len(r), GraphUnits)
    <3>1. r \in [1 .. Len(r) -> GraphUnits] /\ \A u \in GraphUnits : \E i \in 1 .. Len(r) : r[i] = u
      BY <1>9, <2>1 DEF Range
    <3> QED BY <1>9, <2>1, <3>1 DEF Bijection, Injection, Surjection, IsInjective
  <2>3. IsFiniteSet(1 .. Len(r)) /\ Cardinality(1 .. Len(r)) = Len(r)
    <3>1. \A n \in Nat : IsFiniteSet(1 .. n) /\ Cardinality(1 .. n) = n
      BY FS_Interval
    <3> QED BY <2>1, <3>1
  <2>4. Cardinality(GraphUnits) = Cardinality(1 .. Len(r))
    <3> DEFINE I == 1 .. Len(r)
    <3>1. IsFiniteSet(I) /\ r \in Bijection(I, GraphUnits)
      BY <2>2, <2>3
    <3> HIDE DEF I
    <3>2. Cardinality(GraphUnits) = Cardinality(I)
      BY <3>1, FS_Bijection DEF ExistsBijection
    <3> QED BY <3>2 DEF I
  <2> QED BY <1>7, <2>3, <2>4
<1>11. m # UnitCount <=> left # {}
  <2>1. Cardinality(left) \in Nat /\ (Cardinality(left) = 0 <=> left = {})
    BY <1>7, FS_CardinalityType, FS_EmptySet
  <2> QED BY <1>4, <1>9, <1>10, <2>1
<1>12. ExecutionEdges' = ExecutionEdges /\ Cyclic' = Cyclic /\ HeldBack' = HeldBack
  <2>1. ExecutionEdges' = ExecutionEdges
    BY <1>1 DEF ExecutionEdges
  <2>2. \A u : Downstream(u)' = Downstream(u)
    BY <2>1 DEF Downstream
  <2> QED BY <2>1, <2>2 DEF Cyclic, HeldBack
<1>13. ASSUME NEW i \in 1 .. m, NEW v, topoOrder[i] = v PROVE Place(v)' = i
  <2>1. i \in DOMAIN r /\ r[i] = v
    BY <1>9, <1>13
  <2>2. \A j \in DOMAIN r : r[j] = v => j = i
    BY <1>9, <2>1 DEF IsInjective
  <2>3. (CHOOSE j \in DOMAIN r : r[j] = v) = i
    BY <2>1, <2>2
  <2> QED BY <1>1, <2>3 DEF Place
<1>14. ASSUME NEW e \in ExecutionEdges, e.target \notin HeldBack
       PROVE  Place(e.source)' < Place(e.target)'
  <2>1. e.target \in done
    BY <1>3, <1>5, <1>14 DEF ExecutionEdges, left
  <2>2. PICK j \in 1 .. m : topoOrder[j] = e.target
    BY <1>4, <2>1 DEF done, Range
  <2>3. PICK i \in 1 .. j - 1 : topoOrder[i] = e.source
    BY <1>3, <1>4, <2>2 DEF SourcesFirst
  <2>4. i \in 1 .. m /\ i < j
    BY <1>4, <2>3
  <2>5. Place(e.source)' = i /\ Place(e.target)' = j
    BY <1>13, <2>2, <2>3, <2>4
  <2> QED BY <1>4, <2>4, <2>5
<1>15. ContextSuffices'
  BY <1>1, <1>3 DEF ContextSuffices
<1>16. OrderRespectsEdges'
  BY <1>1, <1>5, <1>9, <1>10, <1>11, <1>12, <1>14, <1>15 DEF OrderRespectsEdges
<1> QED BY <1>1, <1>2, <1>16 DEF ProjectionInv

\* Projections put every unit after what feeds it, unless a cycle holds it back.
THEOREM FeedersGoFirst == ProjectionSpec => []OrderRespectsEdges
<1>1. ProjectionInit => ProjectionInv
  <2>1. IsFiniteSet({})
    BY FS_EmptySet
  <2> QED BY <2>1 DEF ProjectionInit, ProjectionInv, OrderRespectsEdges
<1>2. ProjectionInv /\ [ProjectionNext]_projectionVars => ProjectionInv'
  <2>1. SUFFICES ASSUME ProjectionInv, [ProjectionNext]_projectionVars PROVE ProjectionInv'
    OBVIOUS
  <2>2. ASSUME NEW source, NEW target, NEW type, AddEdge(source, target, type)
        PROVE  ProjectionInv'
    <3> DEFINE e == [source |-> source, target |-> target, type |-> type]
    <3>1. projecting' = "authoring" /\ topoOrder' = <<>> /\ wires' = wires \cup {e}
      BY <2>1, <2>2 DEF AddEdge, ProjectionInv
    <3>2. IsFiniteSet(wires')
      <4> HIDE DEF e
      <4> QED BY <2>1, <3>1, FS_AddElement DEF ProjectionInv
    <3> QED BY <3>1, <3>2 DEF ProjectionInv, OrderRespectsEdges
  <2>3. ASSUME NEW demands, NEW context, RefuseProjection(demands, context)
        PROVE  ProjectionInv'
    BY <2>1, <2>3 DEF RefuseProjection, ProjectionInv, OrderRespectsEdges
  <2>4. CASE UNCHANGED projectionVars
    <3>1. /\ wires' = wires /\ demanded' = demanded /\ deployed' = deployed
          /\ projecting' = projecting /\ inDegree' = inDegree /\ waiting' = waiting
          /\ topoOrder' = topoOrder /\ warned' = warned
      BY <2>4 DEF projectionVars
    <3>2. ExecutionEdges' = ExecutionEdges /\ Cyclic' = Cyclic /\ HeldBack' = HeldBack
      <4>1. ExecutionEdges' = ExecutionEdges
        BY <3>1 DEF ExecutionEdges
      <4>2. \A u : Downstream(u)' = Downstream(u)
        BY <4>1 DEF Downstream
      <4> QED BY <4>1, <4>2 DEF Cyclic, HeldBack
    <3>3. ContextSuffices' <=> ContextSuffices
      BY <3>1 DEF ContextSuffices
    <3>4. OrderRespectsEdges'
      BY <2>1, <3>1, <3>2, <3>3 DEF ProjectionInv, OrderRespectsEdges, Place
    <3>5. SortingInv => SortingInv'
      BY <3>1, <3>2, <3>3 DEF SortingInv, QueueFollowsDegrees, SourcesFirst, EdgesInto
    <3> QED BY <2>1, <3>1, <3>4, <3>5 DEF ProjectionInv
  <2> QED BY <2>1, <2>2, <2>3, <2>4, StartKeeps, TakeKeeps, FinishKeeps DEF ProjectionNext
<1>3. ProjectionInv => OrderRespectsEdges
  BY DEF ProjectionInv
<1> QED BY <1>1, <1>2, <1>3, PTL DEF ProjectionSpec

----------------------------------------------------------------------------
(* ControlLoop: planning *)

GoalStep(p, goals, c) == IF c \in p THEN Append(goals, c) ELSE goals
SelectStep(p, r, goal) ==
  LET t == Best(goal, r.remaining)
  IN  [chosen |-> Append(r.chosen, t),
       remaining |-> r.remaining - IF t = NoType THEN 0 ELSE Weight[t]]

Naming == INSTANCE FoldTheorems WITH Step <- GoalStep
Selecting == INSTANCE FoldTheorems WITH Step <- SelectStep

\* The goals of a task, and the choice of modules for them, as folds of the
\* fold theorems.
LEMMA GoalsIsRun ==
  \A task : Goals(task) = LET known == Naming!Run(CapabilityMap, <<>>, task)
                          IN  IF known = <<>> THEN <<AnyCapability>> ELSE known
BY DEF Goals, GoalStep, FoldLeft, MapThenFoldSet, Max,
       Naming!Run, Naming!FoldLeft, Naming!MapThenFoldSet, Naming!Max

LEMMA SelectIsRun ==
  \A goals : Select(goals) = Selecting!Run({}, [chosen |-> <<>>, remaining |-> Budget], goals)
BY DEF Select, SelectStep, FoldLeft, MapThenFoldSet, Max,
       Selecting!Run, Selecting!FoldLeft, Selecting!MapThenFoldSet, Selecting!Max

\* No more goals than tokens, or the one that any module satisfies.
LEMMA GoalsAre ==
  ASSUME NEW task \in Tasks \cup {ReplanTask}
  PROVE  /\ \E S : Goals(task) \in Seq(S)
         /\ \A i \in DOMAIN Goals(task) : i - 1 \in Positions
<1> DEFINE known == Naming!Run(CapabilityMap, <<>>, task)
           A == [k \in Nat |-> {g \in Seq(Range(task)) : Len(g) <= k}]
<1>1. task \in Seq(Range(task)) /\ Len(task) \in Nat /\ DOMAIN task = 1 .. Len(task)
  <2>1. <<ReplanTask[1]>> \in Seq(Range(<<ReplanTask[1]>>))
    BY DEF Range
  <2>2. task \in Seq(Range(task))
    BY <2>1, TaskAssumption
  <2> QED BY <2>2
<1>2. <<>> \in A[0]
  OBVIOUS
<1>3. ASSUME NEW k \in 1 .. Len(task), NEW g \in A[k - 1]
      PROVE  GoalStep(CapabilityMap, g, task[k]) \in A[k]
  <2>1. g \in {h \in Seq(Range(task)) : Len(h) <= k - 1}
    BY <1>1, <1>3
  <2>2. A[k] = {h \in Seq(Range(task)) : Len(h) <= k}
    BY <1>1
  <2> HIDE DEF A
  <2>3. task[k] \in Range(task) /\ Len(g) \in Nat
    BY <1>1, <2>1 DEF Range
  <2>4. Append(g, task[k]) \in Seq(Range(task)) /\ Len(Append(g, task[k])) = Len(g) + 1
    BY <2>1, <2>3
  <2>5. GoalStep(CapabilityMap, g, task[k]) \in {h \in Seq(Range(task)) : Len(h) <= k}
    <3>1. CASE task[k] \in CapabilityMap
      BY <1>1, <2>1, <2>3, <2>4, <3>1 DEF GoalStep
    <3>2. CASE task[k] \notin CapabilityMap
      BY <1>1, <2>1, <2>3, <3>2 DEF GoalStep
    <3> QED BY <3>1, <3>2
  <2> QED BY <2>2, <2>5
<1>4. known \in A[Len(task)]
  <2> HIDE DEF A
  <2> QED BY <1>1, <1>2, <1>3, Naming!RunAdvances
<1>5. Goals(task) = IF known = <<>> THEN <<AnyCapability>> ELSE known
  BY GoalsIsRun
<1> HIDE DEF known
<1>6. known \in Seq(Range(task)) /\ Len(known) <= Len(task)
  BY <1>1, <1>4
<1>7. \A i \in 1 .. Len(task) : i - 1 \in Positions
  BY <1>1 DEF Positions
<1>8. 0 \in Positions
  BY DEF Positions
<1>9. CASE known = <<>>
  <2>1. <<AnyCapability>> \in Seq({AnyCapability}) /\ \A i \in DOMAIN <<AnyCapability>> : i - 1 = 0
    OBVIOUS
  <2> QED BY <1>5, <1>8, <1>9, <2>1
<1>10. CASE known # <<>>
  <2>1. \A i \in DOMAIN known : i \in 1 .. Len(task)
    BY <1>1, <1>6
  <2> QED BY <1>5, <1>6, <1>7, <1>10, <2>1
<1> QED BY <1>9, <1>10

\* Among the modules that fit there is one dearest and first: the one with the
\* least of what it leaves.
LEMMA BestExists ==
  ASSUME registry \in Seq(Types), NEW r \in Nat, NEW fit \in SUBSET DOMAIN registry, fit # {},
         \A i \in fit : Weight[registry[i]] <= r
  PROVE  \E i \in fit : \A j \in fit : Better(i, j)
<1> DEFINE w(i) == Weight[registry[i]]
           left == {r - w(i) : i \in fit}
<1>1. \A i \in fit : w(i) \in Nat /\ i \in Nat
  BY WeightAssumption
<1>2. left \in SUBSET Nat /\ left # {}
  BY <1>1
<1>3. PICK l \in left : \A x \in left : l <= x
  <2> HIDE DEF left
  <2> QED BY <1>2, NatLeast
<1>4. PICK i \in fit : l = r - w(i)
  BY <1>3
<1>5. ASSUME NEW j \in fit PROVE w(j) <= w(i)
  <2>1. r - w(j) \in left
    OBVIOUS
  <2>2. r - w(i) <= r - w(j)
    BY <1>3, <1>4, <2>1
  <2>3. w(i) \in Nat /\ w(j) \in Nat
    BY <1>1
  <2> HIDE DEF w
  <2> QED BY <2>2, <2>3
<1> DEFINE T == {j \in fit : w(j) = w(i)}
<1>6. T \in SUBSET Nat /\ T # {} /\ i \in T
  BY <1>1
<1>7. PICK first \in T : \A k \in T : first <= k
  <2> HIDE DEF T
  <2> QED BY <1>6, NatLeast
<1>8. first \in fit /\ w(first) = w(i)
  BY <1>7
<1>9. ASSUME NEW j \in fit PROVE Better(first, j)
  <2>1. CASE w(j) = w(i)
    BY <1>7, <1>8, <2>1 DEF Better
  <2>2. CASE w(j) # w(i)
    <3>1. w(first) > w(j)
      <4>1. w(j) <= w(i) /\ w(i) \in Nat /\ w(j) \in Nat
        BY <1>1, <1>5
      <4> HIDE DEF w
      <4> QED BY <1>8, <2>2, <4>1
    <3> QED BY <3>1 DEF Better
  <2> QED BY <2>1, <2>2
<1> QED BY <1>8, <1>9

\* Of two that are best among the same, each is the other.
LEMMA BestIsOne ==
  ASSUME registry \in Seq(Types), NEW i \in DOMAIN registry, NEW j \in DOMAIN registry,
         Better(i, j), Better(j, i)
  PROVE  i = j
BY WeightAssumption DEF Better

\* What is chosen for a goal.
LEMMA BestIs ==
  ASSUME registry \in Seq(Types), NEW goal, NEW r \in Nat
  PROVE  IF Fit(goal, r) = {} THEN Best(goal, r) = NoType
         ELSE \E i \in Fit(goal, r) :
                Best(goal, r) = registry[i] /\ \A j \in Fit(goal, r) : Better(i, j)
<1> DEFINE fit == Fit(goal, r)
<1>1. fit \in SUBSET DOMAIN registry /\ \A i \in fit : Weight[registry[i]] <= r
  BY DEF Fit
<1>2. Best(goal, r) = IF fit = {} THEN NoType
                      ELSE registry[CHOOSE i \in fit : \A j \in fit : Better(i, j)]
  BY DEF Best
<1> HIDE DEF fit
<1>3. CASE fit = {}
  BY <1>2, <1>3 DEF fit
<1>4. CASE fit # {}
  <2>1. \E i \in fit : \A j \in fit : Better(i, j)
    BY <1>1, <1>4, BestExists
  <2> DEFINE i == CHOOSE i \in fit : \A j \in fit : Better(i, j)
  <2>2. i \in fit /\ \A j \in fit : Better(i, j)
    BY <2>1
  <2>3. Best(goal, r) = registry[i]
    BY <1>2, <1>4
  <2> HIDE DEF i
  <2> QED BY <1>4, <2>2, <2>3 DEF fit
<1> QED BY <1>3, <1>4

\* A selection names, for each goal, a registered module or none.
LEMMA SelectIs ==
  ASSUME registry \in Seq(Types), NEW S, NEW goals \in Seq(S)
  PROVE  /\ Select(goals).chosen \in Seq(Range(registry) \cup {NoType})
         /\ Len(Select(goals).chosen) = Len(goals)
<1> DEFINE T == Range(registry) \cup {NoType}
           A == [k \in Nat |-> {r \in [chosen : Seq(T), remaining : Nat] : Len(r.chosen) = k}]
           base == [chosen |-> <<>>, remaining |-> Budget]
<1>1. goals \in Seq(S) /\ Len(goals) \in Nat /\ DOMAIN goals = 1 .. Len(goals)
  OBVIOUS
<1>2. base \in A[0]
  BY BoundsAssumption
<1>3. ASSUME NEW k \in 1 .. Len(goals), NEW r \in A[k - 1]
      PROVE  SelectStep({}, r, goals[k]) \in A[k]
  <2>1. r \in {q \in [chosen : Seq(T), remaining : Nat] : Len(q.chosen) = k - 1}
    BY <1>1, <1>3
  <2>2. A[k] = {q \in [chosen : Seq(T), remaining : Nat] : Len(q.chosen) = k}
    BY <1>1
  <2> HIDE DEF A
  <2> DEFINE t == Best(goals[k], r.remaining)
  <2>3. r.chosen \in Seq(T) /\ r.remaining \in Nat /\ Len(r.chosen) = k - 1
    BY <2>1
  <2>4. t \in T /\ (t # NoType => Weight[t] \in Nat /\ Weight[t] <= r.remaining)
    <3>1. CASE Fit(goals[k], r.remaining) = {}
      BY <2>3, <3>1, BestIs
    <3>2. CASE Fit(goals[k], r.remaining) # {}
      <4>1. PICK i \in Fit(goals[k], r.remaining) : t = registry[i]
        BY <2>3, <3>2, BestIs
      <4>2. i \in DOMAIN registry /\ Weight[registry[i]] <= r.remaining
        BY DEF Fit
      <4> HIDE DEF t
      <4> QED BY <4>1, <4>2, WeightAssumption DEF Range
    <3> QED BY <3>1, <3>2
  <2>5. SelectStep({}, r, goals[k]) =
          [chosen |-> Append(r.chosen, t),
           remaining |-> r.remaining - IF t = NoType THEN 0 ELSE Weight[t]]
    BY DEF SelectStep
  <2> HIDE DEF t, T
  <2>6. Append(r.chosen, t) \in Seq(T) /\ Len(Append(r.chosen, t)) = k
    BY <1>1, <2>3, <2>4
  <2> DEFINE rest == r.remaining - IF t = NoType THEN 0 ELSE Weight[t]
             more == Append(r.chosen, t)
  <2>7. rest \in Nat
    BY <2>3, <2>4
  <2>8. SelectStep({}, r, goals[k]) = [chosen |-> more, remaining |-> rest]
    BY <2>5
  <2>9. more \in Seq(T) /\ Len(more) = k
    BY <2>6
  <2> HIDE DEF rest, more
  <2>10. [chosen |-> more, remaining |-> rest] \in
           {q \in [chosen : Seq(T), remaining : Nat] : Len(q.chosen) = k}
    BY <2>7, <2>9
  <2> QED BY <2>2, <2>8, <2>10
<1>4. Selecting!Run({}, base, goals) \in A[Len(goals)]
  <2> HIDE DEF A, base
  <2> QED BY <1>1, <1>2, <1>3, Selecting!RunAdvances
<1> QED BY <1>1, <1>4, SelectIsRun

\* A plan's nodes are of registered types, at positions of its goals.
LEMMA PlanIs ==
  ASSUME registry \in Seq(Types), NEW task \in Tasks \cup {ReplanTask}
  PROVE  /\ IsPlan(Plan(task))
         /\ \A n \in Plan(task).nodes : n \in Nodes /\ \E j \in DOMAIN registry : registry[j] = n[1]
<1> DEFINE chosen == Select(Goals(task)).chosen
           node(i) == <<chosen[i], i - 1>>
           kept == {i \in DOMAIN chosen : chosen[i] # NoType}
           g == Build(chosen)
<1>1. PICK S : Goals(task) \in Seq(S)
  BY GoalsAre
<1>2. chosen \in Seq(Range(registry) \cup {NoType}) /\ Len(chosen) = Len(Goals(task))
  BY <1>1, SelectIs
<1>3. DOMAIN chosen = DOMAIN Goals(task) /\ DOMAIN chosen = 1 .. Len(chosen) /\ Len(chosen) \in Nat
  BY <1>1, <1>2
<1>4. \A i \in DOMAIN chosen : i - 1 \in Positions
  BY <1>3, GoalsAre
<1>5. g = [nodes |-> {node(i) : i \in kept},
           edges |-> {<<node(i - 1), node(i)>> : i \in {j \in kept : j - 1 \in kept}}]
  BY DEF Build
<1>6. Plan(task) = g \/ Plan(task) = NoGraph
  BY DEF Plan
<1> HIDE DEF chosen, g
<1>7. \A i \in kept : chosen[i] \in Range(registry) /\ chosen[i] \in Types
  BY <1>2 DEF Range
<1>8. \A n \in g.nodes : n \in Nodes /\ \E j \in DOMAIN registry : registry[j] = n[1]
  <2>1. SUFFICES ASSUME NEW i \in kept
                 PROVE  node(i) \in Nodes /\ \E j \in DOMAIN registry : registry[j] = node(i)[1]
    BY <1>5
  <2>2. node(i)[1] = chosen[i] /\ node(i) \in Nodes
    BY <1>4, <1>7 DEF Nodes
  <2> QED BY <1>7, <2>2 DEF Range
<1>9. IsFiniteSet(g.nodes)
  <2>1. IsFiniteSet(kept)
    <3>1. IsFiniteSet(1 .. Len(chosen))
      BY <1>3, FS_Interval
    <3>2. kept \subseteq 1 .. Len(chosen)
      BY <1>3
    <3> HIDE DEF kept
    <3> QED BY <3>1, <3>2, FS_Subset
  <2>2. IsFiniteSet({node(i) : i \in kept})
    <3> HIDE DEF kept, node
    <3> DEFINE f == [i \in kept |-> node(i)]
    <3>1. f \in Surjection(kept, {node(i) : i \in kept})
      BY DEF Surjection
    <3> HIDE DEF f
    <3> QED BY <2>1, <3>1, FS_Surjection
  <2> QED BY <1>5, <2>2
<1>10. g.edges \subseteq g.nodes \X g.nodes
  BY <1>5
<1>11. g \in PlanGraph
  <2>1. g.nodes \in SUBSET Nodes /\ g.edges \in SUBSET (Nodes \X Nodes)
    BY <1>8, <1>10
  <2>2. g = [nodes |-> g.nodes, edges |-> g.edges]
    BY <1>5
  <2> QED BY <2>1, <2>2 DEF PlanGraph
<1>12. IsPlan(NoGraph)
  BY FS_EmptySet DEF IsPlan, PlanGraph, NoGraph
<1>13. NoGraph.nodes = {}
  BY DEF NoGraph
<1> QED BY <1>6, <1>8, <1>9, <1>10, <1>11, <1>12, <1>13 DEF IsPlan

\* The one goal of a replan.
LEMMA ReplanGoalIs ==
  ASSUME registry \in Seq(Types)
  PROVE  Goals(ReplanTask) = <<ReplanGoal(Len(registry))>>
<1> DEFINE x == ReplanTask[1]
           known == Naming!Run(CapabilityMap, <<>>, ReplanTask)
<1>1. ReplanTask = Append(<<>>, x) /\ <<>> \in Seq({x})
  BY TaskAssumption
<1>2. Naming!Run(CapabilityMap, <<>>, <<>>) = <<>>
  BY Naming!RunEmpty
<1>3. Naming!Run(CapabilityMap, <<>>, Append(<<>>, x)) = GoalStep(CapabilityMap, <<>>, x)
  <2> DEFINE e == <<>>
  <2>1. e \in Seq({x})
    BY <1>1
  <2> HIDE DEF x, e
  <2>2. Naming!Run(CapabilityMap, <<>>, Append(e, x))
          = GoalStep(CapabilityMap, Naming!Run(CapabilityMap, <<>>, e), x)
    BY <2>1, Naming!RunAppend
  <2> QED BY <1>2, <2>2 DEF e
<1>4. known = IF x \in CapabilityMap THEN <<x>> ELSE <<>>
  BY <1>1, <1>3 DEF GoalStep
<1>5. x \in CapabilityMap <=> \E i \in 1 .. Len(registry) : x \in Caps[registry[i]]
  BY DEF CapabilityMap
<1>6. Goals(ReplanTask) = IF known = <<>> THEN <<AnyCapability>> ELSE known
  BY GoalsIsRun
<1> QED BY <1>4, <1>5, <1>6 DEF ReplanGoal

\* A replan chooses one module.
LEMMA ReplanPlanIs ==
  ASSUME registry \in Seq(Types), Plan(ReplanTask) # NoGraph
  PROVE  \E i \in DOMAIN registry :
           /\ ReplanChose(i, Len(registry))
           /\ Plan(ReplanTask) = [nodes |-> {<<registry[i], 0>>}, edges |-> {}]
<1> DEFINE goal == ReplanGoal(Len(registry))
           base == [chosen |-> <<>>, remaining |-> Budget]
           t == Best(goal, Budget)
           g == Build(<<t>>)
<1>1. Select(<<goal>>).chosen = <<t>>
  <2>1. <<goal>> = Append(<<>>, goal) /\ <<>> \in Seq({goal})
    OBVIOUS
  <2>2. Selecting!Run({}, base, <<>>) = base
    BY Selecting!RunEmpty
  <2>3. Selecting!Run({}, base, Append(<<>>, goal)) = SelectStep({}, base, goal)
    <3> DEFINE e == <<>>
    <3>1. e \in Seq({goal})
      BY <2>1
    <3> HIDE DEF goal, base, e
    <3>2. Selecting!Run({}, base, Append(e, goal))
            = SelectStep({}, Selecting!Run({}, base, e), goal)
      BY <3>1, Selecting!RunAppend
    <3> QED BY <2>2, <3>2 DEF e
  <2>4. Select(<<goal>>) = SelectStep({}, base, goal)
    BY <2>1, <2>3, SelectIsRun
  <2> QED BY <2>4 DEF SelectStep
<1>2. Plan(ReplanTask) = IF g.nodes = {} \/ TotalCost(g) > Budget THEN NoGraph ELSE g
  BY <1>1, ReplanGoalIs DEF Plan
<1>3. Plan(ReplanTask) = g /\ g.nodes # {}
  <2> HIDE DEF g
  <2> QED BY <1>2
<1>4. g = [nodes |-> IF t = NoType THEN {} ELSE {<<t, 0>>}, edges |-> {}]
  <2> HIDE DEF t
  <2> DEFINE kept == {i \in DOMAIN <<t>> : <<t>>[i] # NoType}
             node(i) == <<<<t>>[i], i - 1>>
  <2>1. g = [nodes |-> {node(i) : i \in kept},
             edges |-> {<<node(i - 1), node(i)>> : i \in {j \in kept : j - 1 \in kept}}]
    BY DEF Build
  <2>2. DOMAIN <<t>> = {1} /\ <<t>>[1] = t
    OBVIOUS
  <2>3. kept = IF t = NoType THEN {} ELSE {1}
    BY <2>2
  <2>4. {j \in kept : j - 1 \in kept} = {}
    BY <2>3
  <2>5. node(1) = <<t, 0>>
    BY <2>2
  <2> HIDE DEF kept, node
  <2>6. {node(i) : i \in kept} = IF t = NoType THEN {} ELSE {<<t, 0>>}
    BY <2>3, <2>5
  <2>7. {<<node(i - 1), node(i)>> : i \in {j \in kept : j - 1 \in kept}} = {}
    BY <2>4
  <2> HIDE DEF g
  <2> QED BY <2>1, <2>6, <2>7
<1> HIDE DEF g, t, goal
<1>5. t # NoType
  BY <1>3, <1>4
<1>6. PICK i \in Fit(goal, Budget) : t = registry[i] /\ \A j \in Fit(goal, Budget) : Better(i, j)
  BY <1>5, BestIs, BoundsAssumption DEF t
<1>7. Fit(goal, Budget) = Fit(goal, Budget) \cap 1 .. Len(registry) /\ i \in DOMAIN registry
  BY DEF Fit
<1>8. ReplanChose(i, Len(registry))
  BY <1>6, <1>7 DEF ReplanChose, goal
<1> QED BY <1>3, <1>4, <1>5, <1>6, <1>7, <1>8

\* A step acts only while the execution runs and may replan.
LEMMA DecideIs ==
  ASSUME replans \in Nat, NEW a, Decide(a) # "TERMINATE"
  PROVE  state = "RUNNING" /\ replans < MaxReplans
<1>1. state = "RUNNING"
  BY DEF Decide
<1>2. replans >= MaxReplans \/ replans < MaxReplans
  BY BoundsAssumption
<1>3. ~ (replans >= MaxReplans)
  <2>1. ASSUME replans >= MaxReplans PROVE Decide(a) = "TERMINATE"
    BY <1>1, <2>1, BoundsAssumption DEF Decide
  <2> QED BY <2>1
<1> QED BY <1>1, <1>2, <1>3

----------------------------------------------------------------------------
(* ControlLoop: every step keeps the invariant *)

\* A module registered later changes nothing about those registered before.
LEMMA RegisterSame ==
  ASSUME registry \in Seq(Types), NEW t, registry' = Append(registry, t)
  PROVE  /\ Len(registry) \in Nat /\ DOMAIN registry = 1 .. Len(registry)
         /\ DOMAIN registry' = 1 .. Len(registry) + 1
         /\ \A i \in DOMAIN registry : registry'[i] = registry[i]
         /\ \A k \in DOMAIN registry : \A i \in 1 .. k : ReplanChose(i, k) => ReplanChose(i, k)'
<1>1. /\ Len(registry) \in Nat /\ DOMAIN registry = 1 .. Len(registry)
      /\ DOMAIN registry' = 1 .. Len(registry) + 1
      /\ \A i \in DOMAIN registry : registry'[i] = registry[i]
  OBVIOUS
<1>2. ASSUME NEW k \in DOMAIN registry, NEW i \in 1 .. k, ReplanChose(i, k)
      PROVE  ReplanChose(i, k)'
  <2>1. k \in Nat /\ \A j \in 1 .. k : j \in DOMAIN registry /\ j \in DOMAIN registry' /\ registry'[j] = registry[j]
    BY <1>1
  <2>2. ReplanGoal(k)' = ReplanGoal(k)
    BY <2>1 DEF ReplanGoal
  <2>3. \A goal : Fit(goal, Budget)' \cap 1 .. k = Fit(goal, Budget) \cap 1 .. k
    BY <2>1 DEF Fit
  <2>4. \A j \in 1 .. k : Better(i, j)' <=> Better(i, j)
    BY <2>1 DEF Better
  <2> QED BY <1>2, <2>2, <2>3, <2>4 DEF ReplanChose
<1> QED BY <1>1, <1>2

\* What a plan, a replan and a rollback rely on.
LEMMA RegisterKeeps ==
  ASSUME LoopInv, NEW t \in Types, RegisterModule(t)
  PROVE  LoopInv'
<1>1. registry \in Seq(Types) /\ registry' = Append(registry, t) /\ registry' \in Seq(Types)
  BY DEF LoopInv, LoopTypeOK, RegisterModule
<1>2. UNCHANGED <<state, replans, current, memory, graph, step, budget, checkpoints, raised, executions>>
  BY DEF RegisterModule, esVars
<1>3. IsInjective(registry')
  <2>1. \A i \in DOMAIN registry : registry[i] # t
    BY DEF RegisterModule, Range
  <2>2. registry'[Len(registry) + 1] = t
    BY <1>1
  <2>3. \A i, j \in DOMAIN registry : registry[i] = registry[j] => i = j
    BY DEF LoopInv, IsInjective
  <2> QED BY <1>1, <2>1, <2>2, <2>3, RegisterSame DEF IsInjective
<1>4. \A m : HeldRegistered(m) => HeldRegistered(m)'
  BY <1>1, RegisterSame DEF HeldRegistered
<1>5. \A m : PlannedLast(m) => PlannedLast(m)'
  <2>1. SUFFICES ASSUME NEW m, PlannedLast(m) PROVE PlannedLast(m)'
    OBVIOUS
  <2> DEFINE kept == {n \in Nodes : m[n] # "absent"}
  <2>2. CASE kept \subseteq current.nodes
    BY <1>2, <2>2 DEF PlannedLast
  <2>3. CASE ~ (kept \subseteq current.nodes)
    <3>1. PICK k \in DOMAIN registry :
            /\ \A n \in kept : \E j \in 1 .. k : registry[j] = n[1]
            /\ \E i \in 1 .. k : ReplanChose(i, k) /\ current.nodes = {<<registry[i], 0>>}
      BY <2>1, <2>3 DEF PlannedLast
    <3>2. k \in DOMAIN registry' /\ \A j \in 1 .. k : registry'[j] = registry[j]
      BY <1>1, RegisterSame
    <3>3. \A n \in kept : \E j \in 1 .. k : registry'[j] = n[1]
      BY <3>1, <3>2
    <3>4. \E i \in 1 .. k : ReplanChose(i, k)' /\ current'.nodes = {<<registry'[i], 0>>}
      BY <1>1, <1>2, <3>1, <3>2, RegisterSame
    <3> QED BY <3>2, <3>3, <3>4 DEF PlannedLast
  <2> QED BY <2>2, <2>3
<1>6. \A m, g : Consistent(m, g) => Consistent(m, g)'
  BY DEF Consistent, IsPlan
<1>7. \A m, g : Restorable(m, g) => Restorable(m, g)'
  BY <1>4, <1>5, <1>6 DEF Restorable
<1>8. LoopTypeOK' /\ NeverRaises' /\ IsPlan(current)'
  BY <1>1, <1>2 DEF LoopInv, LoopTypeOK, NeverRaises, IsPlan
<1> QED BY <1>2, <1>3, <1>7, <1>8 DEF LoopInv

\* What a checkpoint must be to be restored depends on the modules and on the runtime's graph only.
LEMMA RestorableSame ==
  ASSUME UNCHANGED <<registry, current>>
  PROVE  \A m, g : Restorable(m, g) <=> Restorable(m, g)'
<1>1. \A goal, r : Fit(goal, r)' = Fit(goal, r)
  BY DEF Fit
<1>2. \A i, j : Better(i, j)' <=> Better(i, j)
  BY DEF Better
<1>3. \A k : ReplanGoal(k)' = ReplanGoal(k)
  BY DEF ReplanGoal
<1>4. \A i, k : ReplanChose(i, k)' <=> ReplanChose(i, k)
  BY <1>1, <1>2, <1>3 DEF ReplanChose
<1>5. \A m : PlannedLast(m)' <=> PlannedLast(m)
  BY <1>4 DEF PlannedLast
<1>6. \A m : HeldRegistered(m)' <=> HeldRegistered(m)
  BY DEF HeldRegistered
<1>7. \A m, g : Consistent(m, g)' <=> Consistent(m, g)
  BY DEF Consistent, IsPlan
<1> QED BY <1>5, <1>6, <1>7 DEF Restorable

\* and, of its memory, on the buffers it has only.
LEMMA BuffersSame ==
  ASSUME NEW m, NEW o, \A n \in Nodes : m[n] = "absent" <=> o[n] = "absent"
  PROVE  (PlannedLast(m) => PlannedLast(o)) /\ (HeldRegistered(m) => HeldRegistered(o))
<1>1. {n \in Nodes : m[n] # "absent"} = {n \in Nodes : o[n] # "absent"}
  OBVIOUS
<1>2. PlannedLast(m) => PlannedLast(o)
  BY <1>1 DEF PlannedLast
<1> QED BY <1>2 DEF HeldRegistered

\* Resuming, pausing and ending change the runtime's state only.
LEMMA LoopQuiet ==
  ASSUME LoopInv, UNCHANGED <<registry, replans, current, esVars, raised, executions>>,
         state' \in {"RUNNING", "IDLE", "TERMINATED"}
  PROVE  LoopInv'
<1>1. UNCHANGED <<registry, replans, current, memory, graph, step, budget, checkpoints, raised, executions>>
  BY DEF esVars
<1>2. LoopTypeOK' /\ NeverRaises' /\ IsPlan(current)' /\ IsInjective(registry)'
  BY <1>1 DEF LoopInv, LoopTypeOK, NeverRaises, IsPlan
<1> QED BY <1>1, <1>2, RestorableSame DEF LoopInv

\* A new execution starts with the buffers of its own graph.
LEMMA InitiateKeeps ==
  ASSUME LoopInv, NEW task \in Tasks, Initiate(task)
  PROVE  LoopInv'
<1> DEFINE g == Plan(task)
<1>1. registry \in Seq(Types) /\ UNCHANGED <<registry, replans, raised>> /\ executions' \in Nat
  BY DEF LoopInv, LoopTypeOK, Initiate
<1>2. IsPlan(g) /\ \A n \in g.nodes : n \in Nodes /\ \E j \in DOMAIN registry : registry[j] = n[1]
  BY <1>1, PlanIs
<1>3. /\ graph' = g /\ checkpoints' = <<>> /\ step' = 0 /\ budget' = Budget
      /\ IF g = NoGraph
         THEN state' = "FAILED" /\ memory' = EmptyMemory /\ current' = current
         ELSE /\ state' = "RUNNING" /\ current' = g
              /\ memory' = [n \in Nodes |-> IF n \in g.nodes THEN "unbound" ELSE "absent"]
  BY DEF Initiate
<1> HIDE DEF g
<1>4. memory' = [n \in Nodes |-> IF n \in g.nodes THEN "unbound" ELSE "absent"]
  <2>1. NoGraph.nodes = {}
    BY DEF NoGraph
  <2> QED BY <1>3, <2>1 DEF EmptyMemory
<1>5. IsPlan(current)'
  BY <1>2, <1>3 DEF LoopInv, IsPlan
<1>6. Consistent(memory, graph)'
  BY <1>2, <1>3, <1>4 DEF Consistent, IsPlan, BufferState, PlanGraph
<1>7. HeldRegistered(memory)'
  BY <1>1, <1>2, <1>4 DEF HeldRegistered
<1>8. PlannedLast(memory)'
  <2>1. {n \in Nodes : memory'[n] # "absent"} \subseteq current'.nodes
    BY <1>3, <1>4 DEF NoGraph
  <2> QED BY <2>1 DEF PlannedLast
<1>9. LoopTypeOK'
  BY <1>1, <1>2, <1>3, <1>5, <1>6, BoundsAssumption
     DEF LoopInv, LoopTypeOK, Consistent, IsPlan, PlanGraph
<1>10. NeverRaises' /\ IsInjective(registry)' /\ Restorable(memory, graph)'
  BY <1>1, <1>6, <1>7, <1>8 DEF LoopInv, NeverRaises, Restorable
<1> QED BY <1>3, <1>5, <1>9, <1>10 DEF LoopInv

\* What runs has its inputs, and what has run keeps them.
LEMMA DispatchKeeps ==
  ASSUME LoopInv, NEW finished \in SUBSET Runnable, NEW pending \in SUBSET Runnable,
         Dispatch(finished, pending)
  PROVE  LoopInv' /\ \A n \in Nodes : memory[n] = "done" => memory'[n] = "done"
<1> DEFINE ran == finished \cup pending
<1>1. /\ UNCHANGED <<registry, state, replans, current, graph, budget, checkpoints, raised, executions>>
      /\ step' = step + Cardinality(ran)
      /\ memory' = [n \in Nodes |-> IF n \in finished THEN "done"
                                    ELSE IF n \in pending THEN "pending" ELSE memory[n]]
  BY DEF Dispatch
<1>2. LoopTypeOK /\ Restorable(memory, graph) /\ Consistent(memory, graph) /\ IsPlan(graph)
  BY DEF LoopInv, Restorable, Consistent
<1>3. ran \subseteq graph.nodes /\ graph.nodes \subseteq Nodes /\ IsFiniteSet(graph.nodes)
  BY <1>2 DEF Runnable, IsPlan, PlanGraph
<1>4. Cardinality(ran) \in Nat
  BY <1>3, FS_Subset, FS_CardinalityType
<1>5. \A n \in ran : /\ memory[n] # "done" /\ memory[n] # "absent"
                     /\ \A e \in graph.edges : e[2] = n => memory[e[1]] = "done"
  BY <1>2, <1>3 DEF Runnable, Consistent
<1>6. \A n \in Nodes : memory[n] = "absent" <=> memory'[n] = "absent"
  BY <1>1, <1>3, <1>5
<1>7. \A n \in Nodes : memory[n] = "done" => memory'[n] = "done"
  BY <1>1, <1>3, <1>5
<1>8. Consistent(memory', graph')
  <2>1. memory' \in [Nodes -> BufferState]
    BY <1>1, <1>2 DEF LoopTypeOK, BufferState
  <2>2. \A n \in graph.nodes : memory'[n] # "absent"
    BY <1>2, <1>3, <1>6 DEF Consistent
  <2>3. ASSUME NEW e \in graph.edges, memory'[e[2]] \in {"pending", "done"}
        PROVE  memory'[e[1]] = "done"
    <3>1. e[1] \in Nodes /\ e[2] \in Nodes
      BY <1>2 DEF IsPlan, PlanGraph
    <3>2. CASE e[2] \in ran
      BY <1>5, <1>7, <3>1, <3>2
    <3>3. CASE e[2] \notin ran
      <4>1. memory'[e[2]] = memory[e[2]]
        BY <1>1, <3>1, <3>3
      <4>2. memory[e[1]] = "done"
        BY <1>2, <2>3, <4>1 DEF Consistent
      <4> QED BY <1>7, <3>1, <4>2
    <3> QED BY <3>2, <3>3
  <2> QED BY <1>1, <1>2, <2>1, <2>2, <2>3 DEF Consistent
<1>9. PlannedLast(memory') /\ HeldRegistered(memory')
  BY <1>2, <1>6, BuffersSame DEF Restorable
<1>10. Restorable(memory, graph)'
  BY <1>1, <1>8, <1>9, RestorableSame DEF Restorable
<1>11. LoopTypeOK'
  <2>1. step' \in Nat /\ step <= step'
    BY <1>1, <1>2, <1>4 DEF LoopTypeOK
  <2> HIDE DEF ran
  <2> QED BY <1>1, <1>2, <1>8, <2>1 DEF LoopTypeOK, Consistent
<1>12. NeverRaises' /\ IsInjective(registry)' /\ IsPlan(current)'
  BY <1>1 DEF LoopInv, NeverRaises, IsPlan
<1> QED BY <1>1, <1>7, <1>10, <1>11, <1>12, RestorableSame DEF LoopInv

\* A replan that names a module with a buffer names the one that the graph
\* before it named: no module registered since is better.
LEMMA ReplanRegistersOnce ==
  ASSUME LoopInv, Plan(ReplanTask) # NoGraph, NEW n \in NewOnly(current, Plan(ReplanTask))
  PROVE  memory[n] = "absent"
<1> SUFFICES ASSUME memory[n] # "absent" PROVE FALSE
  OBVIOUS
<1>1. registry \in Seq(Types) /\ IsInjective(registry) /\ PlannedLast(memory)
  BY DEF LoopInv, LoopTypeOK, Restorable
<1>2. PICK i \in DOMAIN registry :
        ReplanChose(i, Len(registry)) /\ Plan(ReplanTask).nodes = {<<registry[i], 0>>}
  BY <1>1, ReplanPlanIs
<1>3. n = <<registry[i], 0>> /\ n \notin current.nodes
  BY <1>2 DEF NewOnly
<1>4. n \in Nodes
  BY <1>1, <1>3 DEF Nodes, Positions
<1>5. PICK k \in DOMAIN registry :
        /\ \A h \in {o \in Nodes : memory[o] # "absent"} : \E j \in 1 .. k : registry[j] = h[1]
        /\ \E j \in 1 .. k : ReplanChose(j, k) /\ current.nodes = {<<registry[j], 0>>}
  BY <1>1, <1>3, <1>4 DEF PlannedLast
<1>6. DOMAIN registry = 1 .. Len(registry) /\ Len(registry) \in Nat /\ k \in Nat
  BY <1>1
<1>7. i \in 1 .. k
  <2>1. PICK j \in 1 .. k : registry[j] = n[1]
    BY <1>4, <1>5
  <2>2. j = i
    BY <1>1, <1>3, <1>6, <2>1 DEF IsInjective
  <2> QED BY <2>1, <2>2
<1>8. ReplanGoal(Len(registry)) = ReplanGoal(k)
  <2>1. \A j \in 1 .. k : j \in 1 .. Len(registry)
    BY <1>6
  <2>2. CASE \E j \in 1 .. k : ReplanTask[1] \in Caps[registry[j]]
    BY <2>1, <2>2 DEF ReplanGoal
  <2>3. CASE ~ \E j \in 1 .. k : ReplanTask[1] \in Caps[registry[j]]
    <3>1. i \in Fit(ReplanGoal(Len(registry)), Budget)
      BY <1>2 DEF ReplanChose
    <3>2. ReplanGoal(Len(registry)) # ReplanTask[1]
      BY <1>7, <2>3, <3>1, TaskAssumption DEF Fit
    <3> QED BY <2>3, <3>2 DEF ReplanGoal
  <2> QED BY <2>2, <2>3
<1>9. PICK j \in 1 .. k : ReplanChose(j, k) /\ current.nodes = {<<registry[j], 0>>}
  BY <1>5
<1>10. ReplanChose(i, k)
  BY <1>2, <1>6, <1>7, <1>8 DEF ReplanChose
<1>11. i = j
  <2>1. Better(i, j) /\ Better(j, i)
    BY <1>9, <1>10 DEF ReplanChose
  <2> QED BY <1>1, <1>6, <1>7, <2>1, BestIsOne
<1> QED BY <1>3, <1>9, <1>11

\* After a replan every memory is older than the graph.
LEMMA ReplanRestorable ==
  ASSUME registry \in Seq(Types), Plan(ReplanTask) # NoGraph, UNCHANGED registry,
         current' = Plan(ReplanTask)
  PROVE  \A m : HeldRegistered(m) => (PlannedLast(m) /\ HeldRegistered(m))'
<1> SUFFICES ASSUME NEW m, HeldRegistered(m) PROVE (PlannedLast(m) /\ HeldRegistered(m))'
  OBVIOUS
<1>1. PICK k \in Nat : k = Len(registry)
  OBVIOUS
<1>2. PICK i \in DOMAIN registry : ReplanChose(i, k) /\ current'.nodes = {<<registry[i], 0>>}
  BY <1>1, ReplanPlanIs
<1>3. k \in DOMAIN registry' /\ DOMAIN registry = 1 .. k
  BY <1>1
<1>4. ReplanChose(i, k)'
  BY <1>2 DEF ReplanChose, ReplanGoal, Fit, Better
<1>5. \A n \in {o \in Nodes : m[o] # "absent"} : \E j \in 1 .. k : registry'[j] = n[1]
  BY <1>3 DEF HeldRegistered
<1>6. \E j \in 1 .. k : ReplanChose(j, k)' /\ current'.nodes = {<<registry'[j], 0>>}
  BY <1>2, <1>3, <1>4
<1>7. PlannedLast(m)'
  BY <1>3, <1>5, <1>6 DEF PlannedLast
<1> QED BY <1>7 DEF HeldRegistered

\* A replan that finds no plan leaves the checkpoint it took; one that does
\* gives the new module a buffer and keeps what the others have produced.
LEMMA ReplanKeeps ==
  ASSUME LoopInv, Replan
  PROVE  LoopInv' /\ \A n \in Nodes : memory[n] = "done" => memory'[n] = "done"
<1> DEFINE g == Plan(ReplanTask)
           ck == [memory |-> memory, graph |-> graph, step |-> step]
           new == NewOnly(current, g)
<1>1. /\ UNCHANGED <<registry, state, budget, executions>>
      /\ replans' = replans + 1 /\ checkpoints' = Append(checkpoints, ck)
      /\ registry \in Seq(Types) /\ LoopTypeOK /\ Restorable(memory, graph)
      /\ Decide("REPLAN") = "REPLAN"
  BY DEF LoopInv, LoopTypeOK, Replan, WithCheckpoint
<1>2. replans \in Nat /\ replans' \in 0 .. MaxReplans
  <2>1. replans \in Nat /\ replans < MaxReplans
    BY <1>1, DecideIs DEF LoopTypeOK
  <2> QED BY <1>1, <2>1, BoundsAssumption
<1>3. g # NoGraph => \A n \in new : memory[n] = "absent"
  BY ReplanRegistersOnce
<1>4. \/ g = NoGraph /\ UNCHANGED <<current, memory, graph, step, raised>>
      \/ /\ g # NoGraph /\ graph' = g /\ current' = g /\ step' = step + 1 /\ raised' = raised
         /\ memory' = [n \in Nodes |-> IF n \in new THEN "unbound" ELSE memory[n]]
  <2>1. CASE g = NoGraph
    BY <2>1 DEF Replan
  <2>2. CASE g # NoGraph
    BY <1>3, <2>2 DEF Replan
  <2> QED BY <2>1, <2>2
<1>5. IsPlan(g) /\ \A n \in g.nodes : n \in Nodes /\ \E j \in DOMAIN registry : registry[j] = n[1]
  BY <1>1, PlanIs
<1>6. new \subseteq g.nodes /\ (g.nodes \ new) \subseteq {n \in current.nodes : memory[n] # "absent"}
  BY DEF NewOnly
<1>7. g # NoGraph => g.edges = {}
  BY <1>1, ReplanPlanIs
<1> HIDE DEF g, new
<1>8. \A m, h : Restorable(m, h) => (PlannedLast(m) /\ HeldRegistered(m) /\ Consistent(m, h))'
  <2>1. \A m, h : Consistent(m, h) => Consistent(m, h)'
    BY DEF Consistent, IsPlan
  <2>2. CASE g = NoGraph
    BY <1>1, <1>4, <2>2, RestorableSame DEF Restorable
  <2>3. CASE g # NoGraph
    <3>1. \A m : HeldRegistered(m) => (PlannedLast(m) /\ HeldRegistered(m))'
      BY <1>1, <1>4, <2>3, ReplanRestorable DEF g
    <3> QED BY <2>1, <3>1 DEF Restorable
  <2> QED BY <2>2, <2>3
<1>9. \A n \in Nodes : memory[n] = "done" => memory'[n] = "done"
  BY <1>3, <1>4
<1>10. Restorable(memory, graph)' /\ IsPlan(current)' /\ memory' \in [Nodes -> BufferState]
  <2>1. CASE g = NoGraph
    BY <1>1, <1>4, <1>8, <2>1 DEF Restorable, LoopInv, IsPlan, Consistent
  <2>2. CASE g # NoGraph
    <3>1. memory' = [n \in Nodes |-> IF n \in new THEN "unbound" ELSE memory[n]]
          /\ graph' = g /\ current' = g
      BY <1>4, <2>2
    <3>2. memory' \in [Nodes -> BufferState]
      BY <1>1, <3>1 DEF LoopTypeOK, BufferState
    <3>3. \A n \in g.nodes : memory'[n] # "absent"
      BY <1>5, <1>6, <3>1
    <3>4. Consistent(memory, graph)'
      BY <1>5, <1>7, <2>2, <3>1, <3>2, <3>3 DEF Consistent, IsPlan
    <3>5. HeldRegistered(memory')
      <4>1. HeldRegistered(memory)
        BY <1>1 DEF Restorable
      <4>2. ASSUME NEW n \in Nodes, memory'[n] # "absent"
            PROVE  \E j \in DOMAIN registry : registry[j] = n[1]
        BY <1>5, <1>6, <3>1, <4>1, <4>2 DEF HeldRegistered
      <4> QED BY <4>2 DEF HeldRegistered
    <3>6. (PlannedLast(memory) /\ HeldRegistered(memory))'
      BY <1>1, <1>4, <2>2, <3>5, ReplanRestorable DEF g
    <3> QED BY <1>5, <3>1, <3>2, <3>4, <3>6 DEF Restorable, IsPlan
  <2> QED BY <2>1, <2>2
<1>11. \A m, h : Restorable(m, h) => Restorable(m, h)'
  BY <1>8 DEF Restorable
<1>12. checkpoints' \in Seq([memory : [Nodes -> BufferState], graph : PlanGraph, step : Nat])
  <2>1. ck \in [memory : [Nodes -> BufferState], graph : PlanGraph, step : Nat]
    BY <1>1 DEF Restorable, Consistent, IsPlan, LoopTypeOK
  <2> HIDE DEF ck
  <2> QED BY <1>1, <2>1 DEF LoopInv
<1>13. /\ Len(checkpoints) \in Nat /\ DOMAIN checkpoints = 1 .. Len(checkpoints)
       /\ Len(checkpoints') = Len(checkpoints) + 1
       /\ DOMAIN checkpoints' = 1 .. Len(checkpoints) + 1
       /\ \A i \in DOMAIN checkpoints : checkpoints'[i] = checkpoints[i]
       /\ checkpoints'[Len(checkpoints) + 1] = ck
  <2>1. Len(checkpoints) \in Nat /\ checkpoints \in Seq([memory : [Nodes -> BufferState], graph : PlanGraph, step : Nat])
    BY DEF LoopInv
  <2> HIDE DEF ck
  <2> QED BY <1>1, <2>1
<1>14. step \in Nat /\ step' \in Nat /\ step <= step' /\ \A i \in DOMAIN checkpoints' : checkpoints'[i].step \in 0 .. step
  <2>1. step \in Nat /\ step' \in Nat /\ step <= step'
    BY <1>1, <1>4 DEF LoopTypeOK
  <2>2. \A i \in DOMAIN checkpoints : checkpoints[i].step \in 0 .. step
    BY <1>1 DEF LoopTypeOK
  <2>3. ck.step \in 0 .. step
    BY <2>1
  <2> HIDE DEF ck
  <2> QED BY <1>13, <2>1, <2>2, <2>3
<1>15. ASSUME NEW i \in DOMAIN checkpoints'
       PROVE  /\ Restorable(checkpoints[i].memory, checkpoints[i].graph)'
              /\ \A j \in DOMAIN checkpoints' : i <= j => checkpoints'[i].step <= checkpoints'[j].step
  <2>1. CASE i \in DOMAIN checkpoints
    <3>1. checkpoints'[i] = checkpoints[i] /\ Restorable(checkpoints[i].memory, checkpoints[i].graph)
      BY <1>13, <2>1 DEF LoopInv
    <3>2. ASSUME NEW j \in DOMAIN checkpoints', i <= j
          PROVE  checkpoints'[i].step <= checkpoints'[j].step
      <4>1. CASE j \in DOMAIN checkpoints
        BY <1>13, <2>1, <3>2, <4>1 DEF LoopInv
      <4>2. CASE j = Len(checkpoints) + 1
        <5>1. checkpoints'[j].step = step
          BY <1>13, <4>2
        <5> QED BY <1>14, <5>1
      <4> QED BY <1>13, <4>1, <4>2
    <3> QED BY <1>11, <3>1, <3>2
  <2>2. CASE i = Len(checkpoints) + 1
    <3>1. checkpoints'[i].memory = memory /\ checkpoints'[i].graph = graph
      BY <1>13, <2>2
    <3>2. \A j \in DOMAIN checkpoints' : i <= j => j = i
      BY <1>13, <2>2
    <3> QED BY <1>1, <1>11, <1>14, <3>1, <3>2
  <2> QED BY <1>13, <2>1, <2>2
<1>16. LoopTypeOK'
  <2>1. budget' \in Nat /\ raised' \in BOOLEAN /\ registry' \in Seq(Types) /\ executions' \in Nat
        /\ state' \in {"INIT", "RUNNING", "IDLE", "TERMINATED", "FAILED"}
    BY <1>1, <1>4 DEF LoopTypeOK
  <2>2. Len(checkpoints') <= replans'
    BY <1>1, <1>2, <1>13 DEF LoopTypeOK
  <2>3. \A h : h \in PlanGraph /\ h.edges \subseteq h.nodes \X h.nodes
                 => h.nodes \subseteq Nodes /\ h.edges \subseteq h.nodes \X h.nodes
    BY DEF PlanGraph
  <2>4. /\ current'.nodes \subseteq Nodes /\ current'.edges \subseteq current'.nodes \X current'.nodes
        /\ graph'.nodes \subseteq Nodes /\ graph'.edges \subseteq graph'.nodes \X graph'.nodes
    BY <1>10, <2>3 DEF Restorable, Consistent, IsPlan
  <2>5. ASSUME NEW i \in DOMAIN checkpoints'
        PROVE  /\ checkpoints'[i].memory \in [Nodes -> BufferState]
               /\ checkpoints'[i].graph.nodes \subseteq Nodes
               /\ checkpoints'[i].graph.edges \subseteq checkpoints'[i].graph.nodes \X checkpoints'[i].graph.nodes
               /\ checkpoints'[i].step \in 0 .. step'
    BY <1>14, <1>15, <2>3, <2>5 DEF Restorable, Consistent, IsPlan
  <2> QED BY <1>2, <1>10, <1>14, <2>1, <2>2, <2>4, <2>5 DEF LoopTypeOK
<1>17. NeverRaises' /\ IsInjective(registry)'
  BY <1>1, <1>4 DEF LoopInv, NeverRaises
<1> QED BY <1>9, <1>10, <1>12, <1>15, <1>16, <1>17 DEF LoopInv

\* A rollback restores what one checkpoint holds and forgets that checkpoint.
LEMMA RollbackKeeps ==
  ASSUME LoopInv, Rollback
  PROVE  LoopInv' /\ Len(checkpoints') < Len(checkpoints)
<1> DEFINE n == Len(checkpoints)
           Checkpoint == [memory : [Nodes -> BufferState], graph : PlanGraph, step : Nat]
<1>1. /\ UNCHANGED <<registry, state, replans, current, raised, executions>>
      /\ checkpoints \in Seq(Checkpoint) /\ checkpoints # <<>>
      /\ memory' = checkpoints[n].memory /\ graph' = checkpoints[n].graph
      /\ step' = checkpoints[n].step /\ budget' = DefaultBudget
      /\ checkpoints' = Front(checkpoints)
  BY DEF LoopInv, Rollback, Last
<1>2. n \in Nat \ {0} /\ DOMAIN checkpoints = 1 .. n
  BY <1>1
<1>3. /\ checkpoints' \in Seq(Checkpoint) /\ Len(checkpoints') = n - 1
      /\ DOMAIN checkpoints' = 1 .. n - 1
      /\ \A i \in 1 .. n - 1 : checkpoints'[i] = checkpoints[i]
  <2> HIDE DEF Checkpoint
  <2> QED BY <1>1, <1>2, SubSeqProperties DEF Front
<1>4. checkpoints[n] \in Checkpoint
  <2> HIDE DEF Checkpoint, n
  <2> QED BY <1>1, <1>2
<1>5. \A m, h : Restorable(m, h) => Restorable(m, h)'
  BY <1>1, RestorableSame
<1>6. \A i \in 1 .. n : /\ Restorable(checkpoints[i].memory, checkpoints[i].graph)
                       /\ \A j \in 1 .. n : i <= j => checkpoints[i].step <= checkpoints[j].step
  BY <1>2 DEF LoopInv
<1>7. Restorable(memory, graph)'
  BY <1>1, <1>2, <1>5, <1>6
<1>8. ASSUME NEW i \in DOMAIN checkpoints'
      PROVE  /\ Restorable(checkpoints[i].memory, checkpoints[i].graph)'
             /\ \A j \in DOMAIN checkpoints' : i <= j => checkpoints'[i].step <= checkpoints'[j].step
             /\ checkpoints'[i].step <= step'
  <2>1. i \in 1 .. n /\ n \in 1 .. n /\ i <= n /\ \A j \in DOMAIN checkpoints' : j \in 1 .. n
    BY <1>2, <1>3
  <2> HIDE DEF n
  <2> QED BY <1>1, <1>3, <1>5, <1>6, <2>1
<1>9. LoopTypeOK'
  <2>1. LoopTypeOK
    BY DEF LoopInv
  <2>2. \A i \in 1 .. n : /\ checkpoints[i].memory \in [Nodes -> BufferState]
                         /\ checkpoints[i].graph.nodes \subseteq Nodes
                         /\ checkpoints[i].graph.edges \subseteq checkpoints[i].graph.nodes \X checkpoints[i].graph.nodes
                         /\ checkpoints[i].step \in Nat
    BY <1>2, <2>1 DEF LoopTypeOK
  <2>3. n \in 1 .. n /\ n <= replans
    BY <1>2, <2>1 DEF LoopTypeOK
  <2>4. ASSUME NEW i \in DOMAIN checkpoints'
        PROVE  /\ checkpoints'[i].memory \in [Nodes -> BufferState]
               /\ checkpoints'[i].graph.nodes \subseteq Nodes
               /\ checkpoints'[i].graph.edges \subseteq checkpoints'[i].graph.nodes \X checkpoints'[i].graph.nodes
               /\ checkpoints'[i].step \in 0 .. step'
    <3>1. i \in 1 .. n /\ checkpoints'[i] = checkpoints[i]
      BY <1>2, <1>3
    <3>2. step' \in Nat
      BY <1>1, <2>2, <2>3
    <3> HIDE DEF n
    <3> QED BY <1>8, <2>2, <3>1, <3>2
  <2>5. Len(checkpoints') <= replans'
    BY <1>1, <1>2, <1>3, <2>1, <2>3 DEF LoopTypeOK
  <2>6. budget' \in Nat
    BY <1>1 DEF DefaultBudget
  <2> HIDE DEF n, Checkpoint
  <2> QED BY <1>1, <2>1, <2>2, <2>3, <2>4, <2>5, <2>6 DEF LoopTypeOK
<1>10. NeverRaises' /\ IsInjective(registry)' /\ IsPlan(current)'
  BY <1>1 DEF LoopInv, NeverRaises, IsPlan
<1> QED BY <1>2, <1>3, <1>7, <1>8, <1>9, <1>10 DEF LoopInv

\* No module, no graph and no buffer.
LEMMA LoopStart == LoopInit => LoopInv
<1> SUFFICES ASSUME LoopInit PROVE LoopInv
  OBVIOUS
<1>1. NoGraph \in PlanGraph /\ IsFiniteSet(NoGraph.nodes) /\ NoGraph.nodes = {} /\ NoGraph.edges = {}
  BY FS_EmptySet DEF NoGraph, PlanGraph
<1>2. EmptyMemory \in [Nodes -> BufferState] /\ \A n \in Nodes : EmptyMemory[n] = "absent"
  BY DEF EmptyMemory, BufferState
<1>3. LoopTypeOK /\ NeverRaises
  <2>1. registry \in Seq(Types) /\ checkpoints = <<>> /\ Len(checkpoints) = 0 /\ DOMAIN checkpoints = {}
    BY DEF LoopInit
  <2>2. replans \in 0 .. MaxReplans /\ budget \in Nat /\ step \in Nat /\ replans = 0 /\ executions \in Nat
    BY BoundsAssumption DEF LoopInit, DefaultBudget
  <2>3. memory \in [Nodes -> BufferState] /\ state \in {"INIT", "RUNNING", "IDLE", "TERMINATED", "FAILED"}
    BY <1>2 DEF LoopInit
  <2>4. raised \in BOOLEAN /\ ~raised
    BY DEF LoopInit
  <2>5. current = NoGraph /\ graph = NoGraph
    BY DEF LoopInit
  <2>6. /\ current.nodes \subseteq Nodes /\ current.edges \subseteq current.nodes \X current.nodes
        /\ graph.nodes \subseteq Nodes /\ graph.edges \subseteq graph.nodes \X graph.nodes
    BY <1>1, <2>5
  <2>7. LoopTypeOK
    BY <2>1, <2>2, <2>3, <2>4, <2>6 DEF LoopTypeOK
  <2> QED BY <2>4, <2>7 DEF NeverRaises
<1>4. IsPlan(current) /\ Consistent(memory, graph)
  BY <1>1, <1>2 DEF LoopInit, Consistent, IsPlan
<1>5. HeldRegistered(memory) /\ PlannedLast(memory)
  BY <1>2 DEF LoopInit, HeldRegistered, PlannedLast
<1>6. IsInjective(registry) /\ checkpoints = <<>>
  BY DEF LoopInit, IsInjective
<1> QED BY <1>3, <1>4, <1>5, <1>6 DEF LoopInv, Restorable

\* Every step keeps the invariant, and no step but a rollback or a new
\* execution takes back an output.
LEMMA LoopStep ==
  ASSUME LoopInv, [LoopNext]_loopVars
  PROVE  /\ LoopInv'
         /\ \/ executions' # executions
            \/ Len(checkpoints') < Len(checkpoints)
            \/ \A n \in Nodes : memory[n] = "done" => memory'[n] = "done"
<1>1. CASE \E t \in Types : RegisterModule(t)
  BY <1>1, RegisterKeeps DEF RegisterModule, esVars
<1>2. CASE \E task \in Tasks : Initiate(task)
  <2>1. executions \in Nat
    BY DEF LoopInv, LoopTypeOK
  <2> QED BY <1>2, <2>1, InitiateKeeps DEF Initiate
<1>3. CASE Resume
  BY <1>3, LoopQuiet DEF Resume, esVars
<1>4. CASE \E answer \in Answers : Terminate(answer)
  BY <1>4, LoopQuiet DEF Terminate, esVars
<1>5. CASE Pause
  BY <1>5, LoopQuiet DEF Pause, esVars
<1>6. CASE \E finished, pending \in SUBSET Runnable : Dispatch(finished, pending)
  BY <1>6, DispatchKeeps
<1>7. CASE Replan
  BY <1>7, ReplanKeeps
<1>8. CASE Rollback
  BY <1>8, RollbackKeeps
<1>9. CASE UNCHANGED loopVars
  <2>1. UNCHANGED <<registry, state, replans, current, memory, graph, step, budget, checkpoints, raised, executions>>
    BY <1>9 DEF loopVars
  <2>2. LoopTypeOK' /\ NeverRaises' /\ IsPlan(current)' /\ IsInjective(registry)'
    BY <2>1 DEF LoopInv, LoopTypeOK, NeverRaises, IsPlan
  <2> QED BY <2>1, <2>2, RestorableSame DEF LoopInv
<1> QED BY <1>1, <1>2, <1>3, <1>4, <1>5, <1>6, <1>7, <1>8, <1>9 DEF LoopNext

\* In every state of an execution every node of the running graph has a
\* buffer, no step has raised, no module ran before its inputs, and no step
\* but a rollback or a new execution takes back an output, whatever the policy
\* answers and whatever is registered meanwhile (Runtime.step, replan, rollback).
THEOREM LoopIsSafe == LoopSpec => LoopSafety
<1>1. LoopSpec => []LoopInv
  <2>1. LoopInv /\ [LoopNext]_loopVars => LoopInv'
    BY LoopStep
  <2> QED BY <2>1, LoopStart, PTL DEF LoopSpec
<1>2. LoopInv => LoopTypeOK /\ NodesRegistered /\ NeverRaises /\ DependencyOrder
  BY DEF LoopInv, Restorable, Consistent, NodesRegistered, DependencyOrder
<1>3. LoopInv /\ [LoopNext]_loopVars =>
        [ \/ executions' # executions
          \/ Len(checkpoints') < Len(checkpoints)
          \/ \A n \in Nodes : memory[n] = "done" => memory'[n] = "done" ]_loopVars
  BY LoopStep
<1> QED BY <1>1, <1>2, <1>3, PTL DEF LoopSpec, LoopSafety, OutputsKept

----------------------------------------------------------------------------
(* TraceReplay *)

ReadyStep(done, ready, n) ==
  IF n \notin done /\ \A e \in PlanEdges : e[2] = n => e[1] \in done
  THEN Append(ready, n) ELSE ready
InvokedStep(p, all, r) == all \o r.invoked
TypesStep(p, all, r) == all \o [i \in DOMAIN r.invoked |-> r.invoked[i].type]

Scheduling == INSTANCE FoldTheorems WITH Step <- ReadyStep
Gathering == INSTANCE FoldTheorems WITH Step <- InvokedStep
Listing == INSTANCE FoldTheorems WITH Step <- TypesStep

\* What is ready, what was invoked and the types of it are folds of the fold
\* theorems.
LEMMA ReadyIsRun == \A done : ReadyAfter(done) = Scheduling!Run(done, <<>>, PlanNodes)
BY DEF ReadyAfter, ReadyStep, FoldLeft, MapThenFoldSet, Max,
       Scheduling!Run, Scheduling!FoldLeft, Scheduling!MapThenFoldSet, Scheduling!Max

LEMMA InvocationsIsRun == Invocations = Gathering!Run({}, <<>>, record)
BY DEF Invocations, InvokedStep, FoldLeft, MapThenFoldSet, Max,
       Gathering!Run, Gathering!FoldLeft, Gathering!MapThenFoldSet, Gathering!Max

LEMMA ModulesIsRun ==
  \A rec, k : ModulesIn(rec, k) = Listing!Run({}, <<>>, SubSeq(rec, 1, k))
BY DEF ModulesIn, TypesStep, FoldLeft, MapThenFoldSet, Max,
       Listing!Run, Listing!FoldLeft, Listing!MapThenFoldSet, Listing!Max

\* What is ready are nodes of the plan, not done.
LEMMA ReadyAre ==
  ASSUME NEW done
  PROVE  /\ ReadyAfter(done) \in Seq(ToSet(PlanNodes))
         /\ ToSet(ReadyAfter(done)) \subseteq ToSet(PlanNodes)
<1> DEFINE N == ToSet(PlanNodes)
<1>1. PlanNodes \in Seq(N) /\ \A k \in DOMAIN PlanNodes : PlanNodes[k] \in N
  BY TraceConstants DEF ToSet
<1> HIDE DEF N
<1>2. \A k \in DOMAIN PlanNodes : \A a \in Seq(N) : ReadyStep(done, a, PlanNodes[k]) \in Seq(N)
  BY <1>1 DEF ReadyStep
<1>3. <<>> \in Seq(N)
  OBVIOUS
<1>4. Scheduling!Run(done, <<>>, PlanNodes) \in Seq(N)
  <2> DEFINE A == Seq(N)
  <2> HIDE DEF A
  <2> QED BY <1>1, <1>2, <1>3, Scheduling!RunStays DEF A
<1>5. ReadyAfter(done) \in Seq(N)
  BY <1>4, ReadyIsRun
<1>6. ToSet(ReadyAfter(done)) \subseteq N
  BY <1>5 DEF ToSet
<1> QED BY <1>5, <1>6 DEF N

\* What is invoked is what the steps of the record invoked.
LEMMA InvocationsAre ==
  ASSUME record \in Seq(TraceRecord)
  PROVE  Invocations \in Seq(Invocation)
<1> DEFINE A == Seq(Invocation)
<1>1. <<>> \in A
  OBVIOUS
<1>2. \A k \in DOMAIN record : \A a \in A : InvokedStep({}, a, record[k]) \in A
  <2>1. SUFFICES ASSUME NEW k \in DOMAIN record, NEW a \in A
                 PROVE  InvokedStep({}, a, record[k]) \in A
    OBVIOUS
  <2>2. record[k] \in TraceRecord
    BY <2>1
  <2>3. record[k].invoked \in Seq(Invocation)
    BY <2>2 DEF TraceRecord
  <2> QED BY <2>1, <2>3 DEF InvokedStep
<1> HIDE DEF A
<1>3. Gathering!Run({}, <<>>, record) \in A
  BY <1>1, <1>2, Gathering!RunStays
<1> QED BY <1>3, InvocationsIsRun DEF A

\* A recorded response is an output that was recorded.
LEMMA ResponsesAre ==
  ASSUME record \in Seq(TraceRecord), NEW t \in DOMAIN ResponseMap
  PROVE  ResponseMap[t] \in ModuleOutputs
<1> DEFINE inv == Invocations
           n == Len(inv)
           at == {i \in DOMAIN inv : inv[i].type = t}
           back == {n - i : i \in at}
<1>1. inv \in Seq(Invocation) /\ n \in Nat /\ DOMAIN inv = 1 .. n
  BY InvocationsAre
<1>2. at # {} /\ ResponseMap[t] =
        inv[CHOOSE i \in DOMAIN inv : inv[i].type = t /\ \A j \in DOMAIN inv : inv[j].type = t => j <= i].output
  BY DEF ResponseMap
<1> HIDE DEF inv
<1>3. back \in SUBSET Nat /\ back # {}
  <2>1. \A i \in at : i \in 1 .. n
    BY <1>1
  <2> HIDE DEF at, n
  <2>2. \A i \in at : n - i \in Nat
    BY <1>1, <2>1 DEF n
  <2> QED BY <1>2, <2>2
<1>4. PICK b \in back : \A x \in back : b <= x
  <2> HIDE DEF back
  <2> QED BY <1>3, NatLeast
<1>5. PICK i \in at : b = n - i
  BY <1>4
<1>6. \A j \in DOMAIN inv : inv[j].type = t => j <= i
  <2>1. SUFFICES ASSUME NEW j \in DOMAIN inv, inv[j].type = t PROVE j <= i
    OBVIOUS
  <2>2. n - j \in back
    BY <2>1
  <2>3. n - i <= n - j
    BY <1>4, <1>5, <2>2
  <2> HIDE DEF back
  <2> QED BY <1>1, <1>5, <2>3
<1> DEFINE last == CHOOSE l \in DOMAIN inv : inv[l].type = t /\ \A j \in DOMAIN inv : inv[j].type = t => j <= l
<1>7. last \in DOMAIN inv
  BY <1>5, <1>6
<1>8. ResponseMap[t] = inv[last].output
  BY <1>2
<1> HIDE DEF last
<1>9. inv[last] \in Invocation
  BY <1>1, <1>7
<1> QED BY <1>8, <1>9 DEF Invocation

\* Acting makes complete what is ready.
LEMMA ActCompletes ==
  ASSUME NEW out \in Memories, NEW ready \in Seq(ToSet(PlanNodes)), NEW given,
         \A n \in ToSet(ready) : given[n] \in ModuleOutputs
  PROVE  /\ ActOn(out, ready, given) \in Memories
         /\ Complete(ActOn(out, ready, given)) = Complete(out) \cup ToSet(ready)
<1>1. ToSet(ready) \subseteq ToSet(PlanNodes)
  BY DEF ToSet
<1>2. DOMAIN out = ToSet(PlanNodes) /\ NoOutput \notin ModuleOutputs
  BY TraceConstants DEF Memories
<1>3. ActOn(out, ready, given) = [n \in ToSet(PlanNodes) |-> IF n \in ToSet(ready) THEN given[n] ELSE out[n]]
  BY <1>2 DEF ActOn
<1>4. ActOn(out, ready, given) \in Memories
  BY <1>2, <1>3 DEF Memories
<1> QED BY <1>1, <1>2, <1>3, <1>4 DEF Complete

\* What was done by a step is what was done before it and what it invoked.
LEMMA DoneNext ==
  ASSUME NEW rec, NEW k \in Nat \ {0}
  PROVE  DoneIn(rec, k) = DoneIn(rec, k - 1) \cup {rec[k].invoked[j].node : j \in DOMAIN rec[k].invoked}
<1>1. 1 .. k = (1 .. k - 1) \cup {k}
  OBVIOUS
<1> QED BY <1>1 DEF DoneIn

LEMMA DoneSame ==
  ASSUME NEW rec, NEW new, NEW k \in Nat, \A i \in 1 .. k : new[i].invoked = rec[i].invoked
  PROVE  DoneIn(new, k) = DoneIn(rec, k)
BY DEF DoneIn

LEMMA DoneNone == \A rec : DoneIn(rec, 0) = {}
<1>1. 1 .. 0 = {}
  OBVIOUS
<1> QED BY <1>1 DEF DoneIn

\* A longer record, of what was ready and the decision for it, is still one of
\* the plan.
LEMMA RecordGrows ==
  ASSUME NEW rec \in Seq(TraceRecord), NEW changed \in SUBSET DOMAIN rec, RecordOfPlan(rec, changed),
         NEW r \in TraceRecord, NEW done, done = DoneIn(rec, Len(rec)),
         DOMAIN r.invoked = DOMAIN ReadyAfter(done), r.decision = Verdict(done),
         \A j \in DOMAIN ReadyAfter(done) : /\ r.invoked[j].node = ReadyAfter(done)[j]
                                          /\ r.invoked[j].type = ModuleType[ReadyAfter(done)[j]]
  PROVE  /\ RecordOfPlan(Append(rec, r), changed)
         /\ DoneIn(Append(rec, r), Len(rec) + 1) = done \cup ToSet(ReadyAfter(done))
<1> DEFINE new == Append(rec, r)
           n == Len(rec)
<1>1. /\ n \in Nat /\ DOMAIN rec = 1 .. n /\ DOMAIN new = 1 .. n + 1
      /\ new[n + 1] = r /\ \A i \in 1 .. n : new[i] = rec[i]
  OBVIOUS
<1> HIDE DEF new, n
<1>2. \A k \in 0 .. n : DoneIn(new, k) = DoneIn(rec, k)
  BY <1>1, DoneSame
<1>3. (n + 1) - 1 = n /\ n + 1 \in Nat \ {0} /\ n \in 0 .. n
  BY <1>1
<1>4. DoneIn(new, n) = done
  BY <1>1, <1>2, <1>3 DEF n
<1>5. ASSUME NEW i \in DOMAIN new
      PROVE  LET ready == ReadyAfter(DoneIn(new, i - 1))
             IN  /\ DOMAIN new[i].invoked = DOMAIN ready
                 /\ \A j \in DOMAIN ready :
                      new[i].invoked[j].node = ready[j] /\ new[i].invoked[j].type = ModuleType[ready[j]]
                 /\ i \in changed <=> new[i].decision # Verdict(DoneIn(new, i - 1))
  <2>1. CASE i \in 1 .. n
    <3>1. DoneIn(new, i - 1) = DoneIn(rec, i - 1)
      BY <1>1, <1>2, <2>1
    <3> QED BY <1>1, <2>1, <3>1 DEF RecordOfPlan
  <2>2. CASE i = n + 1
    <3>1. i \notin changed
      BY <1>1, <2>2
    <3> QED BY <1>1, <1>3, <1>4, <2>2, <3>1
  <2> QED BY <1>1, <2>1, <2>2
<1>6. RecordOfPlan(new, changed)
  BY <1>5 DEF RecordOfPlan
<1>7. DoneIn(new, n + 1) = done \cup {new[n + 1].invoked[j].node : j \in DOMAIN new[n + 1].invoked}
  BY <1>3, <1>4, DoneNext
<1>8. {new[n + 1].invoked[j].node : j \in DOMAIN new[n + 1].invoked} = ToSet(ReadyAfter(done))
  BY <1>1 DEF ToSet
<1> QED BY <1>6, <1>7, <1>8 DEF new, n

\* The list of what ran grows by what the next step ran.
LEMMA ModulesGrow ==
  ASSUME NEW rec \in Seq(TraceRecord), NEW k \in 1 .. Len(rec)
  PROVE  ModulesIn(rec, k) = ModulesIn(rec, k - 1) \o
           [i \in DOMAIN rec[k].invoked |-> rec[k].invoked[i].type]
<1>1. rec[k] \in TraceRecord /\ k \in Nat \ {0} /\ k <= Len(rec) /\ Len(rec) \in Nat
  OBVIOUS
<1> DEFINE first == SubSeq(rec, 1, k - 1)
<1>2. first \in Seq(TraceRecord) /\ SubSeq(rec, 1, k) = Append(first, rec[k])
  <2>1. /\ first \in Seq(TraceRecord) /\ SubSeq(rec, 1, k) \in Seq(TraceRecord)
        /\ Len(first) = k - 1 /\ Len(SubSeq(rec, 1, k)) = k
        /\ \A i \in 1 .. k - 1 : first[i] = rec[i]
        /\ \A i \in 1 .. k : SubSeq(rec, 1, k)[i] = rec[i]
    BY <1>1, SubSeqProperties
  <2>2. /\ Append(first, rec[k]) \in Seq(TraceRecord) /\ Len(Append(first, rec[k])) = k
        /\ \A i \in 1 .. k : Append(first, rec[k])[i] = rec[i]
    BY <1>1, <2>1
  <2> HIDE DEF first
  <2> QED BY <1>1, <2>1, <2>2, SeqEqual
<1> HIDE DEF first
<1>3. Listing!Run({}, <<>>, Append(first, rec[k])) = TypesStep({}, Listing!Run({}, <<>>, first), rec[k])
  BY <1>2, Listing!RunAppend
<1> QED BY <1>2, <1>3, ModulesIsRun DEF TypesStep, first

LEMMA ModulesNone == \A rec \in Seq(TraceRecord) : ModulesIn(rec, 0) = <<>>
<1> SUFFICES ASSUME NEW rec \in Seq(TraceRecord) PROVE ModulesIn(rec, 0) = <<>>
  OBVIOUS
<1>1. SubSeq(rec, 1, 0) = <<>>
  OBVIOUS
<1>2. Listing!Run({}, <<>>, <<>>) = <<>>
  BY Listing!RunEmpty
<1> QED BY <1>1, <1>2, ModulesIsRun

\* A step records what it ran and the decision it took, whatever its batch gave.
LEMMA RunStepKeeps ==
  ASSUME TraceInv, NEW given \in Given, RunStep(given)
  PROVE  TraceInv'
<1> DEFINE decision == DecideStep(output, runState)
           ready == IF decision = "CONTINUE" THEN Ready(output) ELSE <<>>
           invoked == Invoked(ready, given)
           r == StepRecord(decision, invoked)
<1>1. /\ output \in Memories /\ runState \in {"RUNNING", "TERMINATED"}
      /\ record \in Seq(TraceRecord) /\ lost \in Seq(ToSet(PlanNodes))
      /\ altered \subseteq DOMAIN record
  BY DEF TraceInv, TraceTypeOK
<1>2. /\ output' = ActOn(output, ready, given) /\ record' = Append(record, r)
      /\ runState' = IF decision = "TERMINATE" THEN "TERMINATED" ELSE runState
      /\ UNCHANGED <<lost, altered, replayed>> /\ replayed = NoReplay
  BY DEF RunStep
<1>3. decision \in {"CONTINUE", "TERMINATE"}
  BY DEF DecideStep
<1>4. ready \in Seq(ToSet(PlanNodes)) /\ ToSet(ready) \subseteq ToSet(PlanNodes)
  <2>1. Ready(output) \in Seq(ToSet(PlanNodes)) /\ ToSet(Ready(output)) \subseteq ToSet(PlanNodes)
    BY ReadyAre DEF Ready
  <2>2. <<>> \in Seq(ToSet(PlanNodes)) /\ ToSet(<<>>) \subseteq ToSet(PlanNodes)
    BY DEF ToSet
  <2> HIDE DEF decision
  <2> QED BY <2>1, <2>2
<1> HIDE DEF ready, decision
<1>5. output' \in Memories /\ Complete(output') = Complete(output) \cup ToSet(ready)
  <2>1. \A n \in ToSet(ready) : given[n] \in ModuleOutputs
    BY <1>4 DEF Given
  <2> QED BY <1>1, <1>2, <1>4, <2>1, ActCompletes
<1>6. /\ invoked \in Seq(Invocation) /\ DOMAIN invoked = DOMAIN ready
      /\ \A j \in DOMAIN ready : invoked[j].node = ready[j] /\ invoked[j].type = ModuleType[ready[j]]
  <2>1. invoked = [i \in 1 .. Len(ready) |->
                     [type |-> ModuleType[ready[i]], node |-> ready[i], output |-> given[ready[i]]]]
        /\ DOMAIN ready = 1 .. Len(ready) /\ Len(ready) \in Nat
    BY <1>4 DEF Invoked
  <2>2. ASSUME NEW i \in 1 .. Len(ready)
        PROVE  [type |-> ModuleType[ready[i]], node |-> ready[i], output |-> given[ready[i]]] \in Invocation
    <3>1. ready[i] \in ToSet(PlanNodes)
      BY <1>4, <2>1
    <3> QED BY <3>1 DEF Invocation, TypesOf, Given
  <2> QED BY <2>1, <2>2
<1>7. r \in TraceRecord /\ r.decision = decision /\ r.invoked = invoked
  BY <1>3, <1>6 DEF TraceRecord, StepRecord
<1> HIDE DEF invoked, r
<1>8. TraceTypeOK'
  <2>1. record' \in Seq(TraceRecord) /\ DOMAIN record \subseteq DOMAIN record'
    BY <1>1, <1>2, <1>7
  <2>2. runState' \in {"RUNNING", "TERMINATED"}
    BY <1>1, <1>2
  <2> QED BY <1>1, <1>2, <1>5, <2>1, <2>2 DEF TraceTypeOK, Memories, Replay, TypesOf, NoReplay
<1>9. ASSUME lost' = <<>>
      PROVE  ExecutionRecorded'
  <2>1. ExecutionRecorded
    BY <1>2, <1>9 DEF TraceInv
  <2>2. Complete(output) = DoneIn(record, Len(record)) /\ RecordOfPlan(record, altered)
    BY <2>1 DEF ExecutionRecorded
  <2>3. ready = ReadyAfter(Complete(output)) /\ decision = Verdict(Complete(output))
    <3>1. CASE Ready(output) = <<>>
      BY <3>1 DEF Ready, Verdict, DecideStep, decision, ready
    <3>2. CASE Ready(output) # <<>>
      <4>1. runState = "RUNNING"
        BY <1>1, <2>1, <3>2 DEF ExecutionRecorded
      <4> QED BY <3>2, <4>1 DEF Ready, Verdict, DecideStep, decision, ready
    <3> QED BY <3>1, <3>2
  <2>4. /\ RecordOfPlan(record', altered)
        /\ DoneIn(record', Len(record) + 1) = Complete(output) \cup ToSet(ready)
    <3>1. /\ DOMAIN r.invoked = DOMAIN ReadyAfter(Complete(output))
          /\ r.decision = Verdict(Complete(output))
          /\ \A j \in DOMAIN ReadyAfter(Complete(output)) :
               /\ r.invoked[j].node = ReadyAfter(Complete(output))[j]
               /\ r.invoked[j].type = ModuleType[ReadyAfter(Complete(output))[j]]
      BY <1>6, <1>7, <2>3
    <3>2. altered \in SUBSET DOMAIN record
      BY <1>1
    <3>3. /\ RecordOfPlan(Append(record, r), altered)
          /\ DoneIn(Append(record, r), Len(record) + 1)
               = Complete(output) \cup ToSet(ReadyAfter(Complete(output)))
      BY <1>1, <1>7, <2>2, <3>1, <3>2, RecordGrows
    <3> QED BY <1>2, <2>3, <3>3
  <2>5. Len(record') = Len(record) + 1
    BY <1>1, <1>2
  <2>6. runState' = "TERMINATED" => Ready(output') = <<>>
    <3>1. CASE decision = "TERMINATE"
      <4>1. ready = <<>>
        BY <3>1 DEF ready
      <4>2. ToSet(ready) = {}
        BY <4>1 DEF ToSet
      <4>3. Complete(output') = Complete(output)
        BY <1>5, <4>2
      <4> QED BY <2>3, <4>1, <4>3 DEF Ready
    <3>2. CASE decision # "TERMINATE"
      <4>1. runState = "RUNNING"
        BY <1>1, <3>2 DEF decision, DecideStep
      <4> QED BY <1>2, <3>2, <4>1
    <3> QED BY <3>1, <3>2
  <2> QED BY <1>2, <1>5, <2>4, <2>5, <2>6 DEF ExecutionRecorded, Complete, Ready, RecordOfPlan, DoneIn, Verdict
<1> QED BY <1>2, <1>8, <1>9 DEF TraceInv, NoReplay

\* A step that raises after some of its batch leaves a gap in the record.
LEMMA RaisingStepKeeps ==
  ASSUME TraceInv, NEW given \in Given, NEW n \in 0 .. Len(PlanNodes), RaisingStep(given, n)
  PROVE  TraceInv'
<1> DEFINE ready == Ready(output)
           done == SubSeq(ready, 1, n)
<1>1. /\ output \in Memories /\ runState \in {"RUNNING", "TERMINATED"}
      /\ record \in Seq(TraceRecord) /\ lost \in Seq(ToSet(PlanNodes))
      /\ altered \subseteq DOMAIN record
  BY DEF TraceInv, TraceTypeOK
<1>2. /\ output' = ActOn(output, done, given) /\ lost' = lost \o done /\ n < Len(ready)
      /\ UNCHANGED <<runState, record, altered, replayed>> /\ replayed = NoReplay
  BY DEF RaisingStep
<1>3. ready \in Seq(ToSet(PlanNodes)) /\ n \in Nat
  BY ReadyAre, TraceConstants DEF Ready
<1> HIDE DEF ready
<1>4. done \in Seq(ToSet(PlanNodes)) /\ Len(done) = n /\ ToSet(done) \subseteq ToSet(PlanNodes)
  <2>1. \A i \in 1 .. n : ready[i] \in ToSet(PlanNodes)
    BY <1>2, <1>3
  <2>2. done \in Seq(ToSet(PlanNodes)) /\ Len(done) = n
    BY <1>2, <1>3, <2>1, SubSeqProperties
  <2> HIDE DEF done
  <2> QED BY <2>2 DEF ToSet
<1> HIDE DEF done
<1>5. output' \in Memories /\ Complete(output') = Complete(output) \cup ToSet(done)
  <2>1. \A m \in ToSet(done) : given[m] \in ModuleOutputs
    BY <1>4 DEF Given
  <2> QED BY <1>1, <1>2, <1>4, <2>1, ActCompletes
<1>6. TraceTypeOK'
  BY <1>1, <1>2, <1>4, <1>5 DEF TraceTypeOK, Memories, Replay, TypesOf, NoReplay
<1>7. ASSUME lost' = <<>>
      PROVE  ExecutionRecorded'
  <2>1. lost = <<>> /\ done = <<>>
    <3>1. lost \o done = <<>>
      BY <1>2, <1>7
    <3>2. lost \in Seq(ToSet(PlanNodes)) /\ done \in Seq(ToSet(PlanNodes))
      BY <1>1, <1>4
    <3> QED BY <3>1, <3>2, ConcatEqualIffEmpty
  <2>2. Complete(output') = Complete(output)
    BY <1>5, <2>1 DEF ToSet
  <2> QED BY <1>2, <2>1, <2>2 DEF TraceInv, ExecutionRecorded, Ready
<1> QED BY <1>2, <1>6, <1>7 DEF TraceInv, NoReplay

\* A decision changed in the stored trace differs from the one that was taken.
LEMMA AlterKeepsRecord ==
  ASSUME TraceInv, NEW i \in DOMAIN record, Alter(i)
  PROVE  TraceInv'
<1>1. record \in Seq(TraceRecord) /\ altered \subseteq DOMAIN record
  BY DEF TraceInv, TraceTypeOK
<1>2. /\ record' = [record EXCEPT ![i].decision = IF @ = "CONTINUE" THEN "TERMINATE" ELSE "CONTINUE"]
      /\ altered' = altered \cup {i} /\ i \notin altered
      /\ UNCHANGED <<output, runState, lost, replayed>> /\ replayed = NoReplay
  BY DEF Alter
<1> DEFINE other == IF record[i].decision = "CONTINUE" THEN "TERMINATE" ELSE "CONTINUE"
           flipped == [record[i] EXCEPT !.decision = other]
<1>3. record' = [record EXCEPT ![i] = flipped]
  BY <1>2
<1>4. /\ record[i].decision \in {"CONTINUE", "TERMINATE"}
      /\ flipped \in TraceRecord /\ flipped.invoked = record[i].invoked /\ flipped.decision = other
  <2>1. record[i] \in TraceRecord
    BY <1>1
  <2> QED BY <2>1 DEF TraceRecord
<1> HIDE DEF flipped
<1>5. DOMAIN record' = DOMAIN record /\ Len(record') = Len(record) /\ record' \in Seq(TraceRecord)
  BY <1>1, <1>3, <1>4
<1>6. \A k \in DOMAIN record : record'[k] = IF k = i THEN flipped ELSE record[k]
  BY <1>1, <1>3
<1>7. \A k \in DOMAIN record : record'[k].invoked = record[k].invoked
  BY <1>4, <1>6
<1>8. TraceTypeOK'
  BY <1>1, <1>2, <1>5 DEF TraceInv, TraceTypeOK, NoReplay
<1>9. ASSUME lost' = <<>>
      PROVE  ExecutionRecorded'
  <2>1. ExecutionRecorded /\ Len(record) \in Nat /\ DOMAIN record = 1 .. Len(record)
    BY <1>1, <1>2, <1>9 DEF TraceInv
  <2>2. ASSUME NEW k \in 0 .. Len(record) PROVE DoneIn(record', k) = DoneIn(record, k)
    <3>1. k \in Nat /\ \A j \in 1 .. k : record'[j].invoked = record[j].invoked
      BY <1>7, <2>1
    <3> QED BY <3>1, DoneSame
  <2>3. ASSUME NEW k \in DOMAIN record'
        PROVE  LET ready == ReadyAfter(DoneIn(record', k - 1))
               IN  /\ DOMAIN record'[k].invoked = DOMAIN ready
                   /\ \A j \in DOMAIN ready : /\ record'[k].invoked[j].node = ready[j]
                                            /\ record'[k].invoked[j].type = ModuleType[ready[j]]
                   /\ k \in altered' <=> record'[k].decision # Verdict(DoneIn(record', k - 1))
    <3> DEFINE ready == ReadyAfter(DoneIn(record, k - 1))
               verdict == Verdict(DoneIn(record, k - 1))
    <3>1. DoneIn(record', k - 1) = DoneIn(record, k - 1) /\ k \in DOMAIN record
      BY <1>5, <2>1, <2>2
    <3>2. /\ DOMAIN record[k].invoked = DOMAIN ready
          /\ \A j \in DOMAIN ready : /\ record[k].invoked[j].node = ready[j]
                                   /\ record[k].invoked[j].type = ModuleType[ready[j]]
          /\ k \in altered <=> record[k].decision # verdict
      BY <2>1, <3>1 DEF ExecutionRecorded, RecordOfPlan
    <3>3. record'[k].invoked = record[k].invoked
      BY <1>7, <3>1
    <3>4. verdict \in {"CONTINUE", "TERMINATE"}
      BY DEF Verdict
    <3>5. ready = ReadyAfter(DoneIn(record', k - 1)) /\ verdict = Verdict(DoneIn(record', k - 1))
      BY <3>1
    <3> HIDE DEF ready, verdict
    <3>6. k \in altered' <=> record'[k].decision # verdict
      <4>1. CASE k = i
        BY <1>2, <1>4, <1>6, <3>1, <3>2, <3>4, <4>1
      <4>2. CASE k # i
        BY <1>2, <1>6, <3>1, <3>2, <4>2
      <4> QED BY <4>1, <4>2
    <3> QED BY <3>2, <3>3, <3>5, <3>6
  <2>4. RecordOfPlan(record', altered')
    BY <2>3 DEF RecordOfPlan
  <2>5. DoneIn(record', Len(record')) = DoneIn(record, Len(record))
    BY <1>5, <2>1, <2>2
  <2> QED BY <1>2, <2>1, <2>4, <2>5 DEF ExecutionRecorded, Complete, Ready
<1> QED BY <1>2, <1>8, <1>9 DEF TraceInv, NoReplay

\* A replay begins with nothing done and nothing compared.
LEMMA StartReplayKeeps ==
  ASSUME TraceInv, NEW limit \in StepLimits, StartReplay(limit)
  PROVE  TraceInv'
<1>1. TraceTypeOK /\ record \in Seq(TraceRecord)
  BY DEF TraceInv, TraceTypeOK
<1>2. /\ UNCHANGED <<output, runState, record, lost, altered>>
      /\ replayed' = [state |-> "RUNNING", limit |-> limit, at |-> 0, matched |-> <<>>,
                      output |-> Idle(ToSet(PlanNodes)), modules |-> <<>>]
  BY DEF StartReplay
<1>3. Idle(ToSet(PlanNodes)) \in Memories /\ Complete(Idle(ToSet(PlanNodes))) = {}
  BY DEF Idle, Memories, Complete
<1>4. replayed' \in Replay
  <2>1. <<>> \in Seq(BOOLEAN) /\ <<>> \in Seq(TypesOf) /\ limit \in Nat
    BY TraceConstants
  <2> QED BY <1>2, <1>3, <2>1 DEF Replay
<1>5. TraceTypeOK'
  BY <1>1, <1>2, <1>4 DEF TraceTypeOK
<1>6. ReplayFollows'
  <2>1. /\ replayed'.state = "RUNNING" /\ replayed'.at = 0 /\ replayed'.matched = <<>>
        /\ replayed'.output = Idle(ToSet(PlanNodes)) /\ replayed'.modules = <<>>
    BY <1>2
  <2>2. 1 .. 0 = {} /\ Len(record) \in Nat /\ Len(<<>>) = 0
    BY <1>1
  <2>3. DoneIn(record, 0) = {} /\ ModulesIn(record, 0) = <<>>
    BY <1>1, DoneNone, ModulesNone
  <2>5. Complete(replayed'.output) = {}
    BY <1>3, <2>1
  <2> QED BY <1>2, <2>1, <2>2, <2>3, <2>5 DEF ReplayFollows
<1> QED BY <1>2, <1>5, <1>6 DEF TraceInv, ExecutionRecorded, Ready, Complete

\* One step of the replay takes the decision recorded, unless that was changed,
\* and then runs what was recorded.
LEMMA ReplayStepKeeps ==
  ASSUME TraceInv, ReplayStep
  PROVE  TraceInv'
<1> DEFINE fresh == FreshDecision
           k == replayed.at + 1
           same == fresh = record[k].decision
           ready == IF fresh = "CONTINUE" THEN Ready(replayed.output) ELSE <<>>
           types == [i \in DOMAIN ready |-> ModuleType[ready[i]]]
           given == [n \in ToSet(ready) |-> ResponseMap[ModuleType[n]]]
           compared == [replayed EXCEPT !.at = @ + 1, !.matched = Append(@, same)]
           acted == ActOn(replayed.output, ready, given)
           ran == replayed.modules \o types
           ended == [compared EXCEPT !.state = "ENDED"]
           stuck == [compared EXCEPT !.state = "RAISED"]
           went == [compared EXCEPT !.output = acted, !.modules = ran,
                                    !.state = IF fresh = "TERMINATE" THEN "ENDED" ELSE @]
<1>1. TraceTypeOK /\ record \in Seq(TraceRecord)
  BY DEF TraceInv, TraceTypeOK
<1>2. /\ replayed.state = "RUNNING" /\ replayed.at < Len(record)
      /\ UNCHANGED <<output, runState, record, lost, altered>>
      /\ \/ ~same /\ replayed' = ended
         \/ same /\ replayed' = stuck
         \/ /\ same /\ replayed' = went
            /\ \A i \in DOMAIN ready : types[i] \in DOMAIN ResponseMap
  BY DEF ReplayStep
<1>3. replayed \in Replay /\ replayed # NoReplay
  BY <1>1, <1>2 DEF TraceTypeOK, NoReplay
<1>4. ready \in Seq(ToSet(PlanNodes)) /\ ToSet(ready) \subseteq ToSet(PlanNodes)
  <2>1. Ready(replayed.output) \in Seq(ToSet(PlanNodes)) /\ ToSet(Ready(replayed.output)) \subseteq ToSet(PlanNodes)
    BY ReadyAre DEF Ready
  <2>2. <<>> \in Seq(ToSet(PlanNodes)) /\ ToSet(<<>>) \subseteq ToSet(PlanNodes)
    BY DEF ToSet
  <2> HIDE DEF fresh
  <2> QED BY <2>1, <2>2
<1> HIDE DEF ready
<1>5. types \in Seq(TypesOf) /\ DOMAIN types = DOMAIN ready /\ \A i \in DOMAIN ready : types[i] = ModuleType[ready[i]]
  BY <1>4 DEF TypesOf
<1> HIDE DEF types
<1>6. ASSUME \A i \in DOMAIN ready : types[i] \in DOMAIN ResponseMap
      PROVE  acted \in Memories /\ Complete(acted) = Complete(replayed.output) \cup ToSet(ready)
  <2>1. \A n \in ToSet(ready) : given[n] \in ModuleOutputs
    <3>1. SUFFICES ASSUME NEW n \in ToSet(ready) PROVE given[n] \in ModuleOutputs
      OBVIOUS
    <3>2. PICK i \in DOMAIN ready : n = ready[i]
      BY DEF ToSet
    <3>3. ModuleType[n] \in DOMAIN ResponseMap
      BY <1>5, <1>6, <3>2
    <3> QED BY <1>1, <3>3, ResponsesAre
  <2>2. replayed.output \in Memories
    BY <1>3 DEF Replay
  <2> HIDE DEF given
  <2> QED BY <1>4, <2>1, <2>2, ActCompletes
<1> HIDE DEF acted, ran, fresh
<1>7. same \in BOOLEAN /\ replayed.at \in Nat /\ k \in Nat /\ replayed.modules \in Seq(TypesOf)
      /\ replayed.matched \in Seq(BOOLEAN)
  BY <1>3 DEF Replay
<1> DEFINE now == Append(replayed.matched, same)
<1>8. now \in Seq(BOOLEAN) /\ ran \in Seq(TypesOf)
  BY <1>5, <1>7 DEF ran
<1> HIDE DEF same, now
<1>9. /\ compared \in Replay /\ compared.state = "RUNNING" /\ compared.at = k /\ compared.matched = now
      /\ compared.output = replayed.output /\ compared.modules = replayed.modules
  BY <1>2, <1>3, <1>7, <1>8 DEF Replay, now
<1> HIDE DEF compared, k
<1>10. /\ ended \in Replay /\ ended.state = "ENDED" /\ ended.at = k /\ ended.matched = now
       /\ stuck \in Replay /\ stuck.state = "RAISED" /\ stuck.at = k /\ stuck.matched = now
  BY <1>9 DEF Replay
<1>11. acted \in Memories =>
         /\ went \in Replay /\ went.state \in {"RUNNING", "ENDED"} /\ went.at = k /\ went.matched = now
         /\ went.output = acted /\ went.modules = ran
  BY <1>8, <1>9 DEF Replay
<1> HIDE DEF ended, stuck, went
<1>12. TraceTypeOK' /\ replayed' \in Replay /\ replayed'.at = k /\ replayed'.matched = now
  BY <1>1, <1>2, <1>6, <1>10, <1>11 DEF TraceTypeOK
<1>13. ASSUME lost = <<>> PROVE ReplayFollows'
  <2>1. ExecutionRecorded /\ ReplayFollows
    BY <1>3, <1>13 DEF TraceInv
  <2>2. /\ k \in 1 .. Len(record) /\ k - 1 = replayed.at /\ k \in Nat \ {0} /\ k \in DOMAIN record
        /\ k - 1 \in Nat /\ Len(record) \in Nat
    BY <1>1, <1>2, <1>7 DEF k
  <2>3. /\ Len(replayed.matched) = replayed.at
        /\ \A i \in 1 .. replayed.at : replayed.matched[i] /\ i \notin altered
        /\ Complete(replayed.output) = DoneIn(record, k - 1)
        /\ replayed.modules = ModulesIn(record, k - 1)
    BY <1>2, <2>1, <2>2 DEF ReplayFollows
  <2>4. fresh = Verdict(DoneIn(record, k - 1)) /\ ready = ReadyAfter(DoneIn(record, k - 1))
    BY <2>3 DEF fresh, ready, FreshDecision, DecideStep, Verdict, Ready
  <2>5. same <=> k \notin altered
    BY <2>1, <2>2, <2>4 DEF same, ExecutionRecorded, RecordOfPlan, k
  <2>6. /\ DOMAIN record[k].invoked = DOMAIN ready
        /\ \A j \in DOMAIN ready : record[k].invoked[j].node = ready[j] /\ record[k].invoked[j].type = ModuleType[ready[j]]
    BY <2>1, <2>2, <2>4 DEF ExecutionRecorded, RecordOfPlan
  <2>7. DoneIn(record, k) = Complete(replayed.output) \cup ToSet(ready)
    <3>1. {record[k].invoked[j].node : j \in DOMAIN record[k].invoked} = ToSet(ready)
      BY <2>6 DEF ToSet
    <3>2. DoneIn(record, k) = DoneIn(record, k - 1) \cup
                                {record[k].invoked[j].node : j \in DOMAIN record[k].invoked}
      BY <2>2, DoneNext
    <3> QED BY <2>3, <3>1, <3>2
  <2>8. ModulesIn(record, k) = ran
    <3>1. types = [i \in DOMAIN record[k].invoked |-> record[k].invoked[i].type]
      BY <1>5, <2>6
    <3> QED BY <1>1, <2>2, <2>3, <3>1, ModulesGrow DEF ran
  <2>9. /\ Len(now) = k /\ now[k] = same /\ \A i \in 1 .. replayed.at : now[i] = replayed.matched[i]
    BY <1>7, <2>2, <2>3 DEF now
  <2>10. \A i \in 1 .. k : now[i] <=> i \notin altered
    <3>1. \A i \in 1 .. k : i \in 1 .. replayed.at \/ i = k
      BY <2>2
    <3> QED BY <2>3, <2>5, <2>9, <3>1
  <2>11. \A i \in 1 .. k : i \in 1 .. replayed.at \/ i = k
    BY <2>2
  <2>12. (\A i \in 1 .. k : now[i]) <=> same
    BY <2>2, <2>3, <2>9, <2>11
  <2>13. replayed'.state = "RUNNING" =>
           (\A i \in 1 .. k : now[i]) /\ Complete(replayed'.output) = DoneIn(record, k)
    BY <1>2, <1>6, <1>10, <1>11, <2>7, <2>12
  <2>14. replayed'.state # "RAISED" /\ (\A i \in 1 .. k : now[i]) => replayed'.modules = ModulesIn(record, k)
    BY <1>2, <1>6, <1>10, <1>11, <2>8, <2>12
  <2> QED BY <1>2, <1>12, <2>2, <2>9, <2>10, <2>13, <2>14 DEF ReplayFollows
<1> QED BY <1>2, <1>3, <1>12, <1>13 DEF TraceInv, ExecutionRecorded, Ready, Complete

\* A replay that has run out of steps ends as it is.
LEMMA EndReplayKeeps ==
  ASSUME TraceInv, EndReplay
  PROVE  TraceInv'
<1>1. TraceTypeOK /\ replayed.state = "RUNNING" /\ replayed' = [replayed EXCEPT !.state = "ENDED"]
      /\ UNCHANGED <<output, runState, record, lost, altered>>
  BY DEF TraceInv, EndReplay
<1>2. replayed \in Replay /\ replayed # NoReplay
  BY <1>1 DEF TraceTypeOK, NoReplay
<1>3. /\ replayed' \in Replay /\ replayed'.state = "ENDED"
      /\ replayed'.at = replayed.at /\ replayed'.matched = replayed.matched
      /\ replayed'.output = replayed.output /\ replayed'.modules = replayed.modules
  BY <1>1, <1>2 DEF Replay
<1>4. TraceTypeOK'
  BY <1>1, <1>3 DEF TraceTypeOK
<1>5. ReplayFollows => ReplayFollows'
  BY <1>1, <1>3 DEF ReplayFollows
<1> QED BY <1>1, <1>2, <1>4, <1>5 DEF TraceInv, ExecutionRecorded, Ready, Complete

\* Nothing is done and nothing recorded.
LEMMA TraceStart == TraceInit => TraceInv
<1> SUFFICES ASSUME TraceInit PROVE TraceInv
  OBVIOUS
<1>1. Idle(ToSet(PlanNodes)) \in Memories /\ Complete(Idle(ToSet(PlanNodes))) = {}
  BY DEF Idle, Memories, Complete
<1>2. TraceTypeOK
  BY <1>1 DEF TraceInit, TraceTypeOK
<1>3. ExecutionRecorded
  BY <1>1, DoneNone DEF TraceInit, ExecutionRecorded, RecordOfPlan
<1> QED BY <1>2, <1>3 DEF TraceInit, TraceInv

\* Every step keeps the invariant.
LEMMA TraceStep == TraceInv /\ [TraceNext]_traceVars => TraceInv'
<1> SUFFICES ASSUME TraceInv, [TraceNext]_traceVars PROVE TraceInv'
  OBVIOUS
<1>1. CASE \E given \in Given : RunStep(given)
  BY <1>1, RunStepKeeps
<1>2. CASE \E given \in Given : \E n \in 0 .. Len(PlanNodes) : RaisingStep(given, n)
  BY <1>2, RaisingStepKeeps
<1>3. CASE \E i \in DOMAIN record : Alter(i)
  BY <1>3, AlterKeepsRecord
<1>4. CASE \E limit \in StepLimits : StartReplay(limit)
  BY <1>4, StartReplayKeeps
<1>5. CASE ReplayStep
  BY <1>5, ReplayStepKeeps
<1>6. CASE EndReplay
  BY <1>6, EndReplayKeeps
<1>7. CASE UNCHANGED traceVars
  BY <1>7 DEF traceVars, TraceInv, TraceTypeOK, ExecutionRecorded, ReplayFollows, Ready, Complete
<1> QED BY <1>1, <1>2, <1>3, <1>4, <1>5, <1>6, <1>7 DEF TraceNext

\* A replay of a trace without a gap is identical just when no decision of the
\* steps it went through was changed, and then it ran the modules recorded, in
\* their order (ReplayEngine.replay).
THEOREM AlterationsAreFound == TraceSpec => []AlterationFound
<1>1. TraceInv => AlterationFound
  <2> SUFFICES ASSUME TraceInv, replayed.state = "ENDED", lost = <<>>
               PROVE  /\ IsIdentical <=> altered \cap 1 .. replayed.at = {}
                      /\ IsIdentical => replayed.modules = ModulesIn(record, replayed.at)
    BY DEF AlterationFound
  <2>1. replayed \in Replay /\ replayed # NoReplay
    BY DEF TraceInv, TraceTypeOK, NoReplay
  <2>2. ReplayFollows
    BY <2>1 DEF TraceInv
  <2>3. DOMAIN replayed.matched = 1 .. replayed.at
    BY <2>1, <2>2 DEF ReplayFollows, Replay
  <2>4. IsIdentical <=> \A i \in 1 .. replayed.at : replayed.matched[i]
    BY <2>3 DEF IsIdentical
  <2> QED BY <2>2, <2>4 DEF ReplayFollows
<1> QED BY <1>1, TraceStart, TraceStep, PTL DEF TraceSpec
============================================================================
