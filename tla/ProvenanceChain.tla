-------------------------- MODULE ProvenanceChain --------------------------
(***************************************************************************)
(* ProvenanceLog used by threads that share no lock, such as transaction   *)
(* managers of different graphs that were given one log: each append reads *)
(* the hash of the chain, writes the event and its place in the causal     *)
(* index, and sets the hash, while others do the same.                     *)
(*                                                                         *)
(* A step is what one thread does to the shared state before another may   *)
(* run.  Ids and timestamps make every event's data its own, so a hash is  *)
(* the sequence of what was hashed into it.                                *)
(***************************************************************************)
EXTENDS Naturals, Sequences, FiniteSets, SequencesExt, FiniteSetsExt

CONSTANTS
  Appenders,     \* threads
  NoCause,       \* causal_ref None
  MaxAppended    \* bound: events

ASSUME ChainConstants ==
  MaxAppended \in Nat /\ NoCause \notin 1 .. MaxAppended /\ IsFiniteSet(Appenders)

VARIABLES
  chain,         \* _events, and with their ids _event_index
  prevHash,      \* _prev_hash
  causalIndex,   \* _causal_index: a list, and which list it is, by event id
  appender,      \* each thread's place in append() and its locals
  overlapped     \* history: an append began while another was under way

chainVars == <<chain, prevHash, causalIndex, appender, overlapped>>

NotAppending == [at |-> "idle"]
Ids == 1 .. MaxAppended

\* Mutant: an event is hashed without the hash before it.
ComputeHashAlone(before, id, payload) == << <<id, payload>> >>

\* _compute_hash, of an event's own data after the hash before it.
ComputeHash(before, id, payload) == Append(before, <<id, payload>>)

ChainInit ==
  /\ chain = <<>> /\ prevHash = <<>>
  /\ causalIndex = [id \in {} |-> [list |-> 0, effects |-> {}]]
  /\ appender = [t \in Appenders |-> NotAppending]
  /\ overlapped = FALSE

----------------------------------------------------------------------------
(* append() *)

Begun == Len(chain) + Cardinality({t \in Appenders : appender[t].at = "begun"})
Busy == {t \in Appenders : appender[t] # NotAppending}
ChainedIds == {chain[i].id : i \in DOMAIN chain}
TakenIds == ChainedIds \cup {appender[t].id : t \in {u \in Appenders : appender[u].at = "begun"}}

\* The hash of the chain is read and the event is hashed.
BeginAppend(t, cause) ==
  /\ appender[t] = NotAppending /\ Begun < MaxAppended
  /\ LET id == Min(Ids \ TakenIds)
     IN  appender' = [appender EXCEPT ![t] =
           [at |-> "begun", id |-> id, cause |-> cause, list |-> 0,
            hash |-> ComputeHash(prevHash, id, "as appended")]]
  /\ overlapped' = (overlapped \/ Busy # {})
  /\ UNCHANGED <<chain, prevHash, causalIndex>>

WriteEvent(t) ==
  /\ appender[t].at = "begun"
  /\ chain' = Append(chain, [id |-> appender[t].id, cause |-> appender[t].cause,
                             payload |-> "as appended", hash |-> appender[t].hash])
  /\ appender' = [appender EXCEPT ![t].at = IF appender[t].cause = NoCause
                                            THEN "appended" ELSE "looking"]
  /\ UNCHANGED <<prevHash, causalIndex, overlapped>>

\* `if causal_ref not in self._causal_index`
LookForList(t) ==
  /\ appender[t].at = "looking"
  /\ appender' = [appender EXCEPT ![t].at =
                    IF appender[t].cause \in DOMAIN causalIndex THEN "loading" ELSE "creating"]
  /\ UNCHANGED <<chain, prevHash, causalIndex, overlapped>>

\* A new empty list, also where another thread has put one since.
CreateList(t) ==
  LET cause == appender[t].cause
      fresh == IF cause \in DOMAIN causalIndex THEN causalIndex[cause].list + 1 ELSE 1
  IN  /\ appender[t].at = "creating"
      /\ causalIndex' = [c \in DOMAIN causalIndex \cup {cause} |->
                           IF c = cause THEN [list |-> fresh, effects |-> {}] ELSE causalIndex[c]]
      /\ appender' = [appender EXCEPT ![t].at = "loading"]
      /\ UNCHANGED <<chain, prevHash, overlapped>>

LoadList(t) ==
  /\ appender[t].at = "loading"
  /\ appender' = [appender EXCEPT ![t].at = "listing",
                                  ![t].list = causalIndex[appender[t].cause].list]
  /\ UNCHANGED <<chain, prevHash, causalIndex, overlapped>>

\* The list loaded may no longer be the one in the index.
AddEffect(t) ==
  LET cause == appender[t].cause
  IN  /\ appender[t].at = "listing"
      /\ causalIndex' = IF causalIndex[cause].list = appender[t].list
                        THEN [causalIndex EXCEPT ![cause].effects = @ \cup {appender[t].id}]
                        ELSE causalIndex
      /\ appender' = [appender EXCEPT ![t].at = "appended"]
      /\ UNCHANGED <<chain, prevHash, overlapped>>

SetPrevHash(t) ==
  /\ appender[t].at = "appended"
  /\ prevHash' = appender[t].hash
  /\ appender' = [appender EXCEPT ![t] = NotAppending]
  /\ UNCHANGED <<chain, causalIndex, overlapped>>

\* The payload is the caller's own dictionary, which it may change later.
AlterPayload(i) ==
  /\ chain' = [chain EXCEPT ![i].payload = "altered"]
  /\ UNCHANGED <<prevHash, causalIndex, appender, overlapped>>

ChainNext ==
  \/ \E t \in Appenders :
       \/ \E cause \in ChainedIds \cup {NoCause} : BeginAppend(t, cause)
       \/ WriteEvent(t) \/ LookForList(t) \/ CreateList(t) \/ LoadList(t) \/ AddEffect(t)
       \/ SetPrevHash(t)
  \/ \E i \in DOMAIN chain : AlterPayload(i)

ChainSpec == ChainInit /\ [][ChainNext]_chainVars

----------------------------------------------------------------------------
(* Queries *)

\* verify_chain
VerifyChain ==
  \A i \in DOMAIN chain :
    chain[i].hash = ComputeHash(IF i = 1 THEN <<>> ELSE chain[i - 1].hash,
                                chain[i].id, chain[i].payload)

\* What the pairs lead to from S, and all that S leads to in the end.
Following(S, pairs) == {p[2] : p \in {q \in pairs : q[1] \in S}}
Reached(S, pairs) ==
  LET reached[n \in 0 .. MaxAppended] ==
        IF n = 0 THEN S ELSE reached[n - 1] \cup Following(reached[n - 1], pairs)
  IN  reached[MaxAppended]

Causes == {<<chain[i].id, chain[i].cause>> : i \in {j \in DOMAIN chain : chain[j].cause # NoCause}}
Effects == UNION {{c} \X causalIndex[c].effects : c \in DOMAIN causalIndex}

\* query_causal_chain: the event and what caused it, back to an event without
\* a cause.
CausalChain(id) == Reached({id}, Causes)

\* query_effects: what the causal index leads to.
QueryEffects(id) == Reached(Following({id}, Effects), Effects)

----------------------------------------------------------------------------
(* Properties *)

\* Between appends the verdict of verify_chain is exact: it passes when no two
\* appends overlapped and no payload was changed after it was appended, and
\* then only.  So a race that loses an effect from the causal index is never
\* silent: while the chain verifies, an event's effects are just the events
\* whose causal chain contains it (ProvenanceLog, INV-PROV-2 and INV-PROV-4).
ChainTells ==
  Busy = {} =>
    /\ VerifyChain <=> ~overlapped /\ \A i \in DOMAIN chain : chain[i].payload = "as appended"
    /\ VerifyChain => \A e \in ChainedIds : QueryEffects(e) = {f \in ChainedIds \ {e} : e \in CausalChain(f)}

----------------------------------------------------------------------------
(* The inductive invariant. *)

Pending == {t \in Appenders : appender[t].at = "begun"}
Hashes == Seq(Ids \X {"as appended"})
Entries == [id : Ids, cause : Ids \cup {NoCause}, payload : {"as appended", "altered"}, hash : Hashes]
Indexing == {"looking", "creating", "loading", "listing"}
Working == [at : {"begun", "appended"} \cup Indexing, id : Ids, cause : Ids \cup {NoCause},
            list : Nat, hash : Hashes]

EndsWith(hash, id) == hash # <<>> /\ Last(hash) = <<id, "as appended">>

\* Every hash ends with the event it was computed for, as it was appended.
ChainTypeOK ==
  /\ chain \in Seq(Entries) /\ prevHash \in Hashes /\ overlapped \in BOOLEAN
  /\ appender \in [Appenders -> Working \cup {NotAppending}]
  /\ DOMAIN causalIndex \subseteq Ids
  /\ causalIndex \in [DOMAIN causalIndex -> [list : Nat, effects : SUBSET Ids]]
  /\ \A i \in DOMAIN chain : EndsWith(chain[i].hash, chain[i].id)
  /\ \A t \in Appenders :
       /\ appender[t] # NotAppending => EndsWith(appender[t].hash, appender[t].id)
       /\ appender[t].at \in Indexing => appender[t].cause # NoCause
       /\ appender[t].at \in {"loading", "listing"} => appender[t].cause \in DOMAIN causalIndex

\* Once appends have overlapped, two events were hashed onto chains of one length.
Twins ==
  \/ \E i, j \in DOMAIN chain : i # j /\ Len(chain[i].hash) = Len(chain[j].hash)
  \/ \E i \in DOMAIN chain, t \in Pending : Len(chain[i].hash) = Len(appender[t].hash)
  \/ \E t, u \in Pending : t # u /\ Len(appender[t].hash) = Len(appender[u].hash)

HashBefore(i) == IF i = 1 THEN <<>> ELSE chain[i - 1].hash

\* Until then, the chain is what appends one after the other make of it, and one at
\* most is under way, of which the chain, the index and the last hash show so much.
SerialChain ==
  \A i \in DOMAIN chain :
    /\ chain[i].id = i
    /\ chain[i].cause # NoCause => chain[i].cause < i
    /\ chain[i].hash = Append(HashBefore(i), <<i, "as appended">>)

SerialAppend(t) ==
  /\ Busy = {t}
  /\ IF appender[t].at = "begun"
     THEN /\ appender[t].id = Len(chain) + 1 /\ prevHash = HashBefore(Len(chain) + 1)
          /\ appender[t].cause # NoCause => appender[t].cause <= Len(chain)
          /\ appender[t].hash = Append(prevHash, <<appender[t].id, "as appended">>)
     ELSE /\ chain # <<>> /\ appender[t].id = Len(chain) /\ prevHash = HashBefore(Len(chain))
          /\ appender[t].cause = chain[Len(chain)].cause
          /\ appender[t].hash = chain[Len(chain)].hash
  /\ appender[t].at = "creating" => appender[t].cause \notin DOMAIN causalIndex
  /\ appender[t].at = "listing" => appender[t].list = causalIndex[appender[t].cause].list

IndexedUpTo == IF \E t \in Appenders : appender[t].at \in Indexing THEN Len(chain) - 1 ELSE Len(chain)

SerialIndex ==
  \A c \in Ids :
    {i \in 1 .. IndexedUpTo : chain[i].cause = c} =
      IF c \in DOMAIN causalIndex THEN causalIndex[c].effects ELSE {}

ChainInv ==
  /\ ChainTypeOK
  /\ IF overlapped THEN Twins
     ELSE /\ SerialChain /\ SerialIndex
          /\ \/ Busy = {} /\ prevHash = HashBefore(Len(chain) + 1)
             \/ \E t \in Appenders : SerialAppend(t)
============================================================================
