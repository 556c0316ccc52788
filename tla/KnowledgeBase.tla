--------------------------- MODULE KnowledgeBase ---------------------------
(***************************************************************************)
(* dnc.learning.continual: the versioned knowledge base, the protocol that *)
(* verifies and commits an update, the bisection that looks for the        *)
(* version that broke an invariant, the breaker that suspends learning     *)
(* after too many rollbacks.                                               *)
(*                                                                         *)
(* The three dictionaries are one function of their keys.  An update       *)
(* writes over what a key had, so a later version may break an invariant   *)
(* an earlier one kept, or keep one an earlier one broke.                  *)
(***************************************************************************)
EXTENDS Integers, FiniteSets, FiniteSetsExt, Sequences, SequencesExt

CONSTANTS
  Slots,           \* the keys of KB_modules, KB_plans and KB_costs
  Values,          \* what may be stored under a key
  Unset,           \* no entry
  Updates,         \* candidate updates: what each writes under some keys
  Violating,       \* the contents is_violating() answers for
  MaxRollbacks,    \* RollbackCircuitBreaker.MAX_ROLLBACKS
  Window,          \* WINDOW_DURATION_MS, in ticks of the clock
  MaxVersions,     \* bound: versions stored
  MaxKBTime        \* bound: of the clock

Contents == [Slots -> Values \cup {Unset}]

ASSUME KBConstants ==
  /\ \A u \in Updates : \E written \in SUBSET Slots : u \in [written -> Values]
  /\ Violating \subseteq Contents
  /\ {Window, MaxVersions} \subseteq Nat \ {0}

VARIABLES
  kb,          \* kb_version and what the dictionaries hold
  kbVersions,  \* _versions
  searched,    \* history: the last bisection, what it was asked and answered,
               \*   until a commit replaces a version
  rolled,      \* _rollback_times
  suspension,  \* _suspended and _suspension_until
  kbClock      \* time.time()

kbVars == <<kb, kbVersions, searched, rolled, suspension, kbClock>>
kbStore == <<kb, kbVersions>>
breakerVars == <<rolled, suspension>>

NoVersion == 0
NotSearched == [asked |-> <<>>, found |-> NoVersion, at |-> NoVersion]

KBInit ==
  /\ kb = [version |-> 0, holds |-> [s \in Slots |-> Unset]]
  /\ kbVersions = <<>>
  /\ searched = NotSearched
  /\ rolled = <<>>
  /\ suspension = [on |-> FALSE, until |-> 0]
  /\ kbClock = 0

----------------------------------------------------------------------------
(* KnowledgeBase *)

\* A commit stores under the number after the current one, stored or not.
\* Versions are stored from 1 on without a gap.
Commit ==
  /\ kb.version < MaxVersions
  /\ kb' = [kb EXCEPT !.version = @ + 1]
  /\ kbVersions' = IF kb.version + 1 \in DOMAIN kbVersions
                   THEN [kbVersions EXCEPT ![kb.version + 1] = kb.holds]
                   ELSE Append(kbVersions, kb.holds)
  /\ searched' = IF kb.version + 1 \in DOMAIN kbVersions THEN NotSearched ELSE searched
  /\ UNCHANGED <<breakerVars, kbClock>>

At(version) == [version |-> version, holds |-> kbVersions[version]]

RollbackTo(version) ==
  /\ version \in DOMAIN kbVersions
  /\ kb' = At(version)
  /\ UNCHANGED <<kbVersions, searched, breakerVars, kbClock>>

----------------------------------------------------------------------------
(* LearningVerificationProtocol.verify_and_commit and the breaker *)

\* can_commit lifts a suspension that has run out, and only then.
Lifted == suspension.on /\ kbClock > suspension.until

\* _apply_update: each key written takes the new value, the others keep theirs.
Applied(holds, u) == [s \in Slots |-> IF s \in DOMAIN u THEN u[s] ELSE holds[s]]

\* The update is applied in place; the metrics it is compared by are lists,
\* whose difference raises, so the call ends with the update applied and
\* neither committed nor undone.
VerifyRaises(u) ==
  /\ ~suspension.on \/ Lifted
  /\ suspension' = [suspension EXCEPT !.on = FALSE]
  /\ kb' = [kb EXCEPT !.holds = Applied(@, u)]
  /\ UNCHANGED <<kbVersions, searched, rolled, kbClock>>

\* A suspended protocol logs a KB_ROLLBACK event and returns False: a
\* stuttering step here.
RecordRollback ==
  LET recent == SelectSeq(Append(rolled, kbClock), LAMBDA t : t > kbClock - Window)
  IN  /\ Len(rolled) <= MaxRollbacks
      /\ rolled' = recent
      /\ suspension' = IF Len(recent) > MaxRollbacks
                       THEN [on |-> TRUE, until |-> kbClock + Window]
                       ELSE suspension
      /\ UNCHANGED <<kbStore, searched, kbClock>>

KBTick ==
  /\ kbClock < MaxKBTime
  /\ kbClock' = kbClock + 1
  /\ UNCHANGED <<kbStore, searched, breakerVars>>

----------------------------------------------------------------------------
(* RootCauseRollback *)

Breaks(version) == kbVersions[version] \in Violating

Halved(lo, hi) == (lo + hi) \div 2

\* The loop of identify_violating_version over a list of versions: the probe,
\* the last violating version met, and the version the knowledge base is left
\* at by the probe.
Bisection(versions) ==
  LET loop[r \in [lo : 1 .. Len(versions) + 1, hi : 0 .. Len(versions),
                  found : 0 .. MaxVersions, at : 0 .. MaxVersions]] ==
        IF r.lo > r.hi THEN r
        ELSE LET mid == Halved(r.lo, r.hi)
                 v == versions[mid]
             IN  IF Breaks(v)
                 THEN loop[[r EXCEPT !.hi = mid - 1, !.found = v, !.at = v]]
                 ELSE loop[[r EXCEPT !.lo = mid + 1, !.at = v]]
  IN  loop[[lo |-> 1, hi |-> Len(versions), found |-> NoVersion, at |-> kb.version]]

AtCause(found) == found

\* The version before the one found; version 1 has none before it.
BeforeCause(found) == IF found > 1 THEN found - 1 ELSE 1

\* identify_violating_version, and rollback_to_root_cause which goes to the
\* same version and logs the rollback.
IdentifyViolatingVersion(versions) ==
  LET end == Bisection(versions)
      left == IF end.found # NoVersion THEN BeforeCause(end.found) ELSE end.at
  IN  /\ versions # <<>>
      /\ kb' = At(left)
      /\ searched' = [asked |-> versions, found |-> end.found, at |-> left]
      /\ UNCHANGED <<kbVersions, breakerVars, kbClock>>

----------------------------------------------------------------------------
KBNext ==
  \/ Commit
  \/ \E v \in DOMAIN kbVersions : RollbackTo(v)
  \/ \E u \in Updates : VerifyRaises(u)
  \/ RecordRollback
  \/ KBTick
  \/ \E from \in DOMAIN kbVersions :
       IdentifyViolatingVersion([i \in 1 .. Len(kbVersions) - from + 1 |-> from + i - 1])

KBSpec == KBInit /\ [][KBNext]_kbVars

----------------------------------------------------------------------------
(* Properties *)

KBTypeOK ==
  /\ kb \in [version : 0 .. MaxVersions, holds : Contents]
  /\ kbVersions \in Seq(Contents) /\ Len(kbVersions) <= MaxVersions
  /\ kb.version <= Len(kbVersions)

\* INV-CL-13, for whatever the versions hold: a later one may cure what an
\* earlier one broke, and after a rollback the commits write over the versions
\* that follow, so the list may run from one line of descent into another.
\* The bisection answers None only when the last version of the list violates
\* nothing, and leaves the knowledge base there.  Otherwise it blames a version
\* that violates while the one before it in the list does not, and goes back to
\* that one.  The version blamed is the earliest violating one if none after
\* that cures the violation.
RootCauseFound ==
  searched # NotSearched =>
    LET asked == searched.asked
        bad == {i \in DOMAIN asked : Breaks(asked[i])}
    IN  /\ searched.found = NoVersion =>
             Len(asked) \notin bad /\ searched.at = asked[Len(asked)]
        /\ searched.found # NoVersion =>
             \E i \in bad :
               /\ searched.found = asked[i]
               /\ i = 1 \/ (i - 1 \notin bad /\ searched.at = asked[i - 1])
        /\ (\A i \in bad : i .. Len(asked) \subseteq bad) =>
             searched.found = IF bad = {} THEN NoVersion ELSE asked[Min(bad)]

\* What a search is asked is a run of stored versions, and where it crosses
\* from a sound version to a violating one is still to be seen in them.
SearchSound ==
  searched # NotSearched =>
    \E from, to \in DOMAIN kbVersions :
      /\ from <= to /\ searched.asked = [i \in 1 .. to - from + 1 |-> from + i - 1]
      /\ \/ searched.found = NoVersion /\ ~Breaks(to) /\ searched.at = to
         \/ /\ searched.found \in from .. to /\ Breaks(searched.found)
            /\ searched.found # from =>
                 ~Breaks(searched.found - 1) /\ searched.at = searched.found - 1

KBInv == KBTypeOK /\ SearchSound

\* The search for the version to blame, over any versions the knowledge base
\* can come to hold (KnowledgeBase, RootCauseRollback).
KBInvariant == KBTypeOK /\ RootCauseFound
============================================================================
