--------------------------- MODULE EventDelivery ---------------------------
(***************************************************************************)
(* EventRepository of dnc.persistence.repository: writers append events    *)
(* under optimistic concurrency together with the messages of the event,   *)
(* a publisher empties the outbox, and a consumer takes each message once. *)
(*                                                                         *)
(* The transport delivers at least once and in any order: a copy in flight *)
(* may be received again and again.  A publisher may stop between sending  *)
(* a message and marking it published, and then sends it again.  A restore *)
(* takes events, outbox and inbox back; what the consumer did in the world *)
(* stays done.                                                             *)
(***************************************************************************)
EXTENDS Integers, Sequences, SequencesExt, FiniteSets

CONSTANTS
  Writers,
  EventIds,       \* event ids; an event brings one message, of the same name
  Aggregate,      \* the aggregate each event is of
  NoVersion,      \* nothing read
  MaxDeliveries,  \* bound: times the consumer does the work of one message
  MaxRestores     \* bound: restores of a snapshot

ASSUME DeliveryConstants == MaxDeliveries \in Nat /\ MaxRestores \in Nat

VARIABLES
  eventLog,    \* _events: for each aggregate, the events in order
  readAs,      \* the version of each aggregate a writer has read
  basedOn,     \* history: the version its writer had read, for each event
  outbox,      \* _outbox: "PENDING" or "PUBLISHED" for each message
  inFlight,    \* copies the transport holds
  inbox,       \* _inbox: the idempotency keys recorded
  worked,      \* history: how often each message was acted on
  backup,      \* the snapshot
  restores     \* how often it was restored

repositoryVars == <<eventLog, outbox, inbox>>
deliveryVars == <<repositoryVars, readAs, basedOn, inFlight, worked, backup, restores>>

Aggregates == {Aggregate[e] : e \in EventIds}
Saved == [log |-> eventLog, outbox |-> outbox, inbox |-> inbox]

DeliveryInit ==
  /\ eventLog = [a \in Aggregates |-> <<>>]
  /\ readAs = [w \in Writers |-> [a \in Aggregates |-> NoVersion]]
  /\ basedOn = [e \in EventIds |-> NoVersion]
  /\ outbox = [e \in {} |-> "PENDING"] /\ inFlight = {} /\ inbox = {}
  /\ worked = [e \in EventIds |-> 0]
  /\ backup = Saved /\ restores = 0

----------------------------------------------------------------------------
\* load: a writer rebuilds the aggregate and keeps its version.
ReadAggregate(w, a) ==
  /\ readAs' = [readAs EXCEPT ![w][a] = Len(eventLog[a])]
  /\ UNCHANGED <<repositoryVars, basedOn, inFlight, worked, backup, restores>>

\* The version expected is the current one.
ExpectedVersion(e, version) == Len(eventLog[Aggregate[e]]) = version

Recorded == UNION {ToSet(eventLog[a]) : a \in Aggregates}

\* append: raises, and changes nothing, when another writer was first, when the
\* event is there already or when the outbox has its message.
AppendEvent(w, e) ==
  LET version == readAs[w][Aggregate[e]]
  IN  /\ version # NoVersion
      /\ ExpectedVersion(e, version)
      /\ e \notin Recorded /\ e \notin DOMAIN outbox
      /\ eventLog' = [eventLog EXCEPT ![Aggregate[e]] = Append(@, e)]
      /\ outbox' = [m \in DOMAIN outbox \cup {e} |-> IF m = e THEN "PENDING" ELSE outbox[m]]
      /\ basedOn' = [basedOn EXCEPT ![e] = version]
      /\ UNCHANGED <<readAs, inFlight, inbox, worked, backup, restores>>

PendingOutbox == {m \in DOMAIN outbox : outbox[m] = "PENDING"}

\* The publisher takes a message from pending_outbox and sends it.
SendMessage(m) ==
  /\ m \in PendingOutbox
  /\ inFlight' = inFlight \cup {m}
  /\ UNCHANGED <<repositoryVars, readAs, basedOn, worked, backup, restores>>

MarkUnsent(m) ==
  /\ m \in PendingOutbox
  /\ outbox' = [outbox EXCEPT ![m] = "PUBLISHED"]
  /\ UNCHANGED <<eventLog, inbox, readAs, basedOn, inFlight, worked, backup, restores>>

\* mark_published, once it has been sent.
MarkPublished(m) ==
  /\ m \in inFlight /\ m \in PendingOutbox
  /\ outbox' = [outbox EXCEPT ![m] = "PUBLISHED"]
  /\ UNCHANGED <<eventLog, inbox, readAs, basedOn, inFlight, worked, backup, restores>>

ReceiveAlways(m) == TRUE

\* receive_once is true the first time the key is seen.
ReceiveOnce(m) == m \notin inbox

\* A copy arrives: the consumer acts on it if it is the first.
ReceiveMessage(m) ==
  /\ m \in inFlight
  /\ worked[m] < MaxDeliveries
  /\ IF ReceiveOnce(m)
     THEN inbox' = inbox \cup {m} /\ worked' = [worked EXCEPT ![m] = @ + 1]
     ELSE UNCHANGED <<inbox, worked>>
  /\ UNCHANGED <<eventLog, outbox, readAs, basedOn, inFlight, backup, restores>>

TakeSnapshot ==
  /\ backup' = Saved
  /\ UNCHANGED <<repositoryVars, readAs, basedOn, inFlight, worked, restores>>

RestoreRepository ==
  /\ restores < MaxRestores /\ restores' = restores + 1
  /\ eventLog' = backup.log /\ outbox' = backup.outbox /\ inbox' = backup.inbox
  /\ UNCHANGED <<readAs, basedOn, inFlight, worked, backup>>

DeliveryNext ==
  \/ \E w \in Writers : \/ \E a \in Aggregates : ReadAggregate(w, a)
                        \/ \E e \in EventIds : AppendEvent(w, e)
  \/ \E m \in EventIds : SendMessage(m) \/ MarkPublished(m) \/ ReceiveMessage(m)
  \/ TakeSnapshot \/ RestoreRepository

\* The publisher goes on until the outbox is empty, and the transport delivers
\* what it holds.
DeliveryFairness ==
  \A m \in EventIds : /\ WF_deliveryVars(SendMessage(m))
                      /\ WF_deliveryVars(ReceiveMessage(m))

DeliverySpec == DeliveryInit /\ [][DeliveryNext]_deliveryVars /\ DeliveryFairness

----------------------------------------------------------------------------
(* Properties *)

DeliveryTypeOK ==
  /\ eventLog \in [Aggregates -> Seq(EventIds)]
  /\ DOMAIN outbox \subseteq EventIds /\ inbox \subseteq EventIds /\ inFlight \subseteq EventIds
  /\ worked \in [EventIds -> 0 .. MaxDeliveries]

\* However writers, publisher and transport interleave, a message is acted on
\* once, and once more for each restore at most; it is acted on only if it was
\* sent.  Events and messages are stored together or not at all.
EffectivelyOnce ==
  /\ \A m \in EventIds : worked[m] <= 1 + restores
  /\ \A m \in EventIds : worked[m] > 0 => m \in inFlight
  /\ DOMAIN outbox = Recorded

\* No update is lost: an event was decided on by a writer that had read all the
\* events before it.  A restore forgets events that writers have read.
NoLostUpdate ==
  restores = 0 => \A a \in Aggregates : \A i \in DOMAIN eventLog[a] : basedOn[eventLog[a][i]] = i - 1

\* What is stored with an event is done in the end, unless a restore takes the
\* event away.
MessagesAreDelivered ==
  \A m \in EventIds : m \in DOMAIN outbox ~> (worked[m] > 0 \/ m \notin DOMAIN outbox)

\* Of a repository used by several writers, a publisher and a consumer: the
\* work of a message is done once between restores, and no event is appended
\* on a version its writer had not read.
DeliveryInvariant == DeliveryTypeOK /\ EffectivelyOnce /\ NoLostUpdate

----------------------------------------------------------------------------
(* What the proofs need besides. *)

\* The work of a message whose key is not on file was done before a restore.
WorkOnFile == \A m \in EventIds \ inbox : worked[m] <= restores

\* A snapshot is a repository like any other.
BackupSound ==
  /\ backup.log \in [Aggregates -> Seq(EventIds)]
  /\ DOMAIN backup.outbox = UNION {ToSet(backup.log[a]) : a \in Aggregates}
  /\ backup.inbox \subseteq EventIds

HistoryTypeOK ==
  /\ readAs \in [Writers -> [Aggregates -> Nat \cup {NoVersion}]]
  /\ basedOn \in [EventIds -> Nat \cup {NoVersion}]
  /\ restores \in Nat

DeliveryInv == DeliveryInvariant /\ WorkOnFile /\ BackupSound /\ HistoryTypeOK
============================================================================
