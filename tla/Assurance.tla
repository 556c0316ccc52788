----------------------------- MODULE Assurance -----------------------------
(***************************************************************************)
(* The capability registry and broker (dnc.capabilities), the calibration  *)
(* registry (dnc.assurance) and what DNCSystem does with them: the         *)
(* calibrations listen to the changes of the capabilities, and a           *)
(* confidence is issued only for a model that is available.                *)
(*                                                                         *)
(* A card has the parts selection and calibration tell apart; lifecycle    *)
(* and health are one flag.  An artifact's content never changes, so only  *)
(* its status is state.                                                    *)
(***************************************************************************)
EXTENDS Integers, FiniteSets, FiniteSetsExt, Sequences, SequencesExt

CONSTANTS
  Capabilities,   \* capability ids
  Models,         \* capability fingerprints
  Competence,     \* Competence[c]: of the card of capability c
  Expiries,       \* expires_at_ns values of a card
  Prints,         \* verifier fingerprints
  Artifacts,      \* calibration artifact ids
  About,          \* About[a]: the model and the verifiers of the artifact's key
  Edition,        \* Edition[a]: its version
  HeldOut,        \* artifacts whose split is held out
  NoCard,         \* an id that is not registered
  NoArtifact,     \* None
  MaxNow          \* bound: of the clock

VARIABLES
  cards,       \* _cards of the capability registry
  disabledIds, \* _disabled of the capability registry
  savedCards,  \* the last snapshot_state, or NoCard
  activePrints,\* fingerprints of the verifier registry's active descriptors
  status,      \* _artifacts: the status of each, or "ABSENT"
  outdated,    \* history: artifacts whose model a registration has replaced since
  now          \* time.time_ns()

assuranceVars == <<cards, disabledIds, savedCards, activePrints, status, outdated, now>>
registryVars == <<cards, disabledIds>>
calibrationVars == <<status, outdated>>

Card == [model : Models, up : BOOLEAN, expires : Expiries]

ASSUME AssuranceConstants ==
  HeldOut \subseteq Artifacts /\ Edition \in [Artifacts -> Nat] /\ NoCard \notin Card

Statuses == {"ABSENT", "DRAFT", "CALIBRATED", "SHIFTED", "INVALIDATED"}

AssuranceInit ==
  /\ cards = [c \in Capabilities |-> NoCard]
  /\ disabledIds = {}
  /\ savedCards = NoCard
  /\ activePrints = {}
  /\ status = [a \in Artifacts |-> "ABSENT"]
  /\ outdated = {}
  /\ now = 0

----------------------------------------------------------------------------
(* AssuranceCalibrationRegistry *)

KeyedTo(print) == {a \in Artifacts : print = About[a].model \/ print \in About[a].verifiers}

\* Mutant: registering an id once more replaces what it stands for.
RegisterOver(a, as) ==
  /\ as = "CALIBRATED" => a \in HeldOut
  /\ status' = [status EXCEPT ![a] = as]
  /\ UNCHANGED <<registryVars, savedCards, activePrints, outdated, now>>

\* A calibrated artifact needs a held-out split; an id is never reused for
\* other content, and the status is content.
RegisterArtifact(a, as) ==
  /\ as = "CALIBRATED" => a \in HeldOut
  /\ status[a] \in {"ABSENT", as}
  /\ status' = [status EXCEPT ![a] = as]
  /\ UNCHANGED <<registryVars, savedCards, activePrints, outdated, now>>

InvalidateFingerprint(print) ==
  [a \in Artifacts |-> IF status[a] # "ABSENT" /\ a \in KeyedTo(print)
                       THEN "INVALIDATED" ELSE status[a]]

\* mark_shifted, and assess_shift when the score passes the threshold: any
\* status becomes SHIFTED.
MarkShifted(a) ==
  /\ status[a] # "ABSENT"
  /\ status' = [status EXCEPT ![a] = "SHIFTED"]
  /\ UNCHANGED <<registryVars, savedCards, activePrints, outdated, now>>

\* invalidate_fingerprint, called by an operator.
InvalidateModel(print) ==
  /\ status' = InvalidateFingerprint(print)
  /\ UNCHANGED <<registryVars, savedCards, activePrints, outdated, now>>

Applicable(key) ==
  LET matches == {a \in Artifacts : About[a] = key /\ status[a] = "CALIBRATED"}
  IN  IF matches = {} THEN NoArtifact
      ELSE CHOOSE a \in matches : \A b \in matches : Edition[a] >= Edition[b]

----------------------------------------------------------------------------
(* CapabilityRegistry *)

Replaces(c, card) == cards[c] # NoCard /\ cards[c].model # card.model

\* The listener of the change event: handle_model_change.
Notified(c, card) ==
  IF Replaces(c, card) THEN InvalidateFingerprint(cards[c].model) ELSE status

\* register: whatever was disabled stays disabled.
RegisterCard(c, card) ==
  /\ cards' = [cards EXCEPT ![c] = card]
  /\ status' = Notified(c, card)
  /\ outdated' = outdated \cup {a \in Artifacts : /\ Replaces(c, card) /\ status[a] # "ABSENT"
                                                  /\ About[a].model = cards[c].model}
  /\ UNCHANGED <<disabledIds, savedCards, activePrints, now>>

\* set_health and set_lifecycle keep the fingerprint and notify nobody.
SetUp(c, up) ==
  /\ cards[c] # NoCard
  /\ cards' = [cards EXCEPT ![c].up = up]
  /\ UNCHANGED <<disabledIds, savedCards, activePrints, calibrationVars, now>>

SetDisabled(c, off) ==
  /\ cards[c] # NoCard
  /\ disabledIds' = IF off THEN disabledIds \cup {c} ELSE disabledIds \ {c}
  /\ UNCHANGED <<cards, savedCards, activePrints, calibrationVars, now>>

SaveRegistry ==
  /\ savedCards' = [cards |-> cards, disabled |-> disabledIds]
  /\ UNCHANGED <<registryVars, activePrints, calibrationVars, now>>

\* restore_state keeps the listeners and calls none of them.
RestoreRegistry ==
  /\ savedCards # NoCard
  /\ cards' = savedCards.cards
  /\ disabledIds' = savedCards.disabled
  /\ UNCHANGED <<savedCards, activePrints, calibrationVars, now>>

Available ==
  {c \in Capabilities \ disabledIds :
     cards[c] # NoCard /\ cards[c].up /\ now < cards[c].expires}

\* CapabilityBroker.match: the most competent card that meets the requirement,
\* here one of at least that competence; then the smallest id.
Match(competence) ==
  LET candidates == {c \in Available : Competence[c] >= competence}
      best == {c \in candidates : \A d \in candidates : Competence[c] >= Competence[d]}
  IN  IF best = {} THEN NoCard ELSE CHOOSE c \in best : \A d \in best : c <= d

----------------------------------------------------------------------------
(* VerifierRegistry: a verifier is registered, replaced, disabled, enabled. *)

VerifiersChange(active) ==
  /\ activePrints' = active
  /\ UNCHANGED <<registryVars, savedCards, calibrationVars, now>>

----------------------------------------------------------------------------
(* DNCSystem.issue_calibrated_confidence *)

Issued(key) ==
  IF /\ key.model \in {cards[c].model : c \in Available}
     /\ key.verifiers \subseteq activePrints
  THEN Applicable(key) ELSE NoArtifact

AssuranceTick == now < MaxNow /\ now' = now + 1
                 /\ UNCHANGED <<registryVars, savedCards, activePrints, calibrationVars>>

AssuranceNext ==
  \/ \E c \in Capabilities :
       \/ \E card \in Card : RegisterCard(c, card)
       \/ \E flag \in BOOLEAN : SetUp(c, flag) \/ SetDisabled(c, flag)
  \/ SaveRegistry \/ RestoreRegistry
  \/ \E active \in SUBSET Prints : VerifiersChange(active)
  \/ \E a \in Artifacts :
       \/ \E as \in {"DRAFT", "CALIBRATED"} : RegisterArtifact(a, as)
       \/ MarkShifted(a)
  \/ \E print \in Models \cup Prints : InvalidateModel(print)
  \/ AssuranceTick

AssuranceSpec == AssuranceInit /\ [][AssuranceNext]_assuranceVars

----------------------------------------------------------------------------
(* Properties *)

Registries ==
  {r \in [cards : [Capabilities -> Card \cup {NoCard}], disabled : SUBSET Capabilities] :
     \A c \in r.disabled : r.cards[c] # NoCard}

AssuranceTypeOK ==
  /\ cards \in [Capabilities -> Card \cup {NoCard}]
  /\ disabledIds \subseteq Capabilities /\ \A c \in disabledIds : cards[c] # NoCard
  /\ savedCards # NoCard => savedCards \in Registries
  /\ activePrints \subseteq Prints
  /\ status \in [Artifacts -> Statuses]

\* What was gathered for a model since replaced is no longer CALIBRATED, and what
\* is was held out.
EvidenceKept ==
  /\ IsFiniteSet({a \in Artifacts : status[a] # "ABSENT"})
  /\ \A a \in outdated : a \in Artifacts /\ status[a] \in {"SHIFTED", "INVALIDATED"}
  /\ \A a \in Artifacts : status[a] = "CALIBRATED" => a \in HeldOut

AssuranceInv == AssuranceTypeOK /\ EvidenceKept

\* The broker may pick any available model, and rolled-back models come back:
\* a confidence issued for it never rests on evidence gathered before that
\* model was replaced, nor on evidence that was withdrawn or has shifted.
ConfidenceCurrent ==
  \A n \in {Competence[c] : c \in Capabilities}, key \in {About[a] : a \in Artifacts} :
    Match(n) # NoCard /\ key.model = cards[Match(n)].model /\ Issued(key) # NoArtifact
      => Issued(key) \notin outdated /\ Issued(key) \in HeldOut

\* An artifact that is withdrawn, shifted or a draft never applies again under
\* its id, whatever is registered or assessed afterwards.
WithdrawnForGood ==
  [][\A a \in Artifacts :
       status[a] \notin {"ABSENT", "CALIBRATED"} => status'[a] # "CALIBRATED"]_assuranceVars

\* Confidence is given only from what is calibrated for the models in use, and
\* an artifact that was withdrawn stays so.
AssuranceSafety == []AssuranceTypeOK /\ []ConfidenceCurrent /\ WithdrawnForGood
============================================================================
