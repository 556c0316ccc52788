------------------------------ MODULE Handoff ------------------------------
(***************************************************************************)
(* dnc.distributed.protocol: nodes hand execution state to each other.     *)
(* Every node has a DistributedCoordinator and an IdempotentReceiver.  The *)
(* network, outside the package, delivers a message it was given any       *)
(* number of times, in any order, at any time; a retry is the same message *)
(* again.  Whoever drives a handoff sends one COMMIT or one ABORT for it.  *)
(* Handoff and message ids are fresh uuids, so a message is named by its   *)
(* type and its handoff.                                                   *)
(***************************************************************************)
EXTENDS Naturals, Sequences, Functions

CONSTANTS
  Peers,
  Handoffs,
  Sender, Receiver,   \* Sender[h], Receiver[h]: the two nodes of a handoff
  WindowSize          \* window_size of every IdempotentReceiver

ASSUME RoutesAssumption == Sender \in [Handoffs -> Peers] /\ Receiver \in [Handoffs -> Peers]
ASSUME WindowAssumption == WindowSize \in Nat \ {0}

MessageTypes == {"STATE_TRANSFER", "COMMIT", "ABORT"}
Messages == [type : MessageTypes, handoff : Handoffs]
Statuses == {"PENDING", "COMMITTED", "ABORTED"}
NoRecord == "none"

VARIABLES
  records,  \* records[n][h]: the status in n's _handoff_records
  held,     \* held[n]: the handoffs with an entry in n's _participant_states
  seen,     \* seen[n]: the deduplication window of n, oldest first
  sent,     \* messages given to the network
  acked     \* messages acknowledged at least once

handoffVars == <<records, held, seen, sent, acked>>

HandoffInit ==
  /\ records = [n \in Peers |-> [h \in Handoffs |-> NoRecord]]
  /\ held = [n \in Peers |-> {}]
  /\ seen = [n \in Peers |-> <<>>]
  /\ sent = {}
  /\ acked = {}

InitiateHandoff(h) ==
  LET n == Sender[h]
      m == [type |-> "STATE_TRANSFER", handoff |-> h]
  IN  /\ m \notin sent
      /\ records' = [records EXCEPT ![n][h] = "PENDING"]
      /\ held' = [held EXCEPT ![n] = @ \cup {h}]
      /\ sent' = sent \cup {m}
      /\ UNCHANGED <<seen, acked>>

\* The driver of the handoff settles it.
Settle(m) ==
  /\ m.type \in {"COMMIT", "ABORT"}
  /\ [type |-> "STATE_TRANSFER", handoff |-> m.handoff] \in sent
  /\ \A o \in sent : o.handoff = m.handoff => o.type = "STATE_TRANSFER"
  /\ sent' = sent \cup {m}
  /\ UNCHANGED <<records, held, seen, acked>>

\* Mutant: duplicates are recognised by their handoff.
IsDuplicateByHandoff(n, m) == \E i \in DOMAIN seen[n] : seen[n][i].handoff = m.handoff

IsDuplicate(n, m) == \E i \in DOMAIN seen[n] : seen[n][i] = m

\* The window after recording m: the oldest entry leaves when it is exceeded.
RecordedHandoff(n, m) ==
  LET w == Append(seen[n], m) IN IF Len(w) > WindowSize THEN Tail(w) ELSE w

\* _update_record: only a node that initiated the handoff has a record of it.
Updated(n, h, status) ==
  IF records[n][h] = NoRecord THEN records ELSE [records EXCEPT ![n][h] = status]

\* A message seen in the window is acknowledged and nothing else.
ReceiveDuplicate(m) ==
  LET n == Receiver[m.handoff]
  IN  /\ m \in sent
      /\ IsDuplicate(n, m)
      /\ acked' = acked \cup {m}
      /\ UNCHANGED <<records, held, seen, sent>>

StateTransfer(n, m) ==
  /\ m.type = "STATE_TRANSFER"
  /\ held' = [held EXCEPT ![n] = @ \cup {m.handoff}]
  /\ records' = Updated(n, m.handoff, "COMMITTED")

Commit(n, m) ==
  /\ m.type = "COMMIT"
  /\ records' = Updated(n, m.handoff, "COMMITTED")
  /\ UNCHANGED held

Abort(n, m) ==
  /\ m.type = "ABORT"
  /\ held' = [held EXCEPT ![n] = @ \ {m.handoff}]
  /\ records' = Updated(n, m.handoff, "ABORTED")

\* receive_message() on anything else.  The acknowledgement travels back to the
\* sender, whose own receive_message() does nothing with it.
Receive(m) ==
  LET n == Receiver[m.handoff]
  IN  /\ m \in sent
      /\ ~ IsDuplicate(n, m)
      /\ StateTransfer(n, m) \/ Commit(n, m) \/ Abort(n, m)
      /\ seen' = [seen EXCEPT ![n] = RecordedHandoff(n, m)]
      /\ acked' = acked \cup {m}
      /\ UNCHANGED sent

HandoffNext ==
  \/ \E h \in Handoffs : InitiateHandoff(h)
  \/ \E m \in Messages : Settle(m) \/ ReceiveDuplicate(m) \/ Receive(m)

HandoffSpec == HandoffInit /\ [][HandoffNext]_handoffVars

----------------------------------------------------------------------------
(* Properties. *)

\* What the variables hold; the deduplication window never exceeds its size
\* and never lists a message twice, so every eviction frees one message id.
HandoffTypeOK ==
  /\ records \in [Peers -> [Handoffs -> Statuses \cup {NoRecord}]]
  /\ held \in [Peers -> SUBSET Handoffs]
  /\ sent \subseteq Messages
  /\ acked \subseteq sent
  /\ seen \in [Peers -> Seq(Messages)]
  /\ \A n \in Peers : Len(seen[n]) <= WindowSize /\ IsInjective(seen[n])

\* The record of a handoff and the state kept for it agree on every node and
\* under every order and repetition of deliveries, evicted ids included: a
\* node whose record is PENDING or COMMITTED has the state, and one whose
\* record is ABORTED does not.
RecordMatchesState ==
  \A n \in Peers, h \in Handoffs :
    records[n][h] # NoRecord => (h \in held[n] <=> records[n][h] # "ABORTED")

\* An acknowledged transfer that is never aborted stays with its receiver: no
\* repeated or reordered message of it or of another handoff takes it away.
AcknowledgedTransferKept ==
  \A h \in Handoffs :
    /\ [type |-> "STATE_TRANSFER", handoff |-> h] \in acked
    /\ [type |-> "ABORT", handoff |-> h] \notin sent
    => h \in held[Receiver[h]]

\* INV-DIST-2 as the module's documentation states it: a handoff is transferred
\* or it is not.  Once its abort has been acknowledged, nothing of it is
\* recorded with the receiver.
AbortFinal ==
  \A h \in Handoffs :
    [type |-> "ABORT", handoff |-> h] \in acked => h \notin held[Receiver[h]]

\* Whatever is duplicated, reordered or forgotten by the window: a node's
\* record of a handoff agrees with the state it holds for it, and a transfer
\* the sender saw acknowledged is not lost (HandoffCoordinator).
HandoffInvariant == HandoffTypeOK /\ RecordMatchesState /\ AcknowledgedTransferKept

----------------------------------------------------------------------------
(* What the proofs need besides. *)

\* The driver settles a handoff one way, and nothing is in a window that was
\* not acknowledged.
OneOutcome ==
  \A h \in Handoffs :
    ~ ([type |-> "COMMIT", handoff |-> h] \in sent /\ [type |-> "ABORT", handoff |-> h] \in sent)

AbortedByAbort ==
  \A n \in Peers, h \in Handoffs :
    records[n][h] = "ABORTED" => [type |-> "ABORT", handoff |-> h] \in sent

SeenIsAcknowledged == \A n \in Peers : \A i \in DOMAIN seen[n] : seen[n][i] \in acked

HandoffInv == HandoffInvariant /\ OneOutcome /\ AbortedByAbort /\ SeenIsAcknowledged
============================================================================
