------------------------- MODULE ContentRegistries -------------------------
(***************************************************************************)
(* The artifact and graph registries (registry.py): descriptors over one   *)
(* content-addressed object store shared by the tenants.                   *)
(*                                                                         *)
(* A document is a model value that stands for its bytes and its digest    *)
(* alike; several graphs in memory may serialize to one document.  A       *)
(* stored object is whole or not: damage leaves it under its digest with   *)
(* other bytes.  An execution context is a tenant and the permissions it   *)
(* carries, which stand for every deployment requirement.                  *)
(***************************************************************************)
EXTENDS Naturals, FiniteSets

CONSTANTS
    Tenants,
    Documents,        \* bytes, by digest
    Graphs,           \* graphs in memory
    DocumentOf,       \* graph -> the document it serializes to
    ValidDocuments,   \* documents of graphs the validator passes
    Governed,         \* documents with a unit that requires a context
    Owner,            \* governed document -> the tenant its units name
    MediaTypes        \* descriptors an artifact may be registered with

NoContext == [tenant |-> "none", enough |-> FALSE]
Contexts == {NoContext} \cup [tenant : Tenants, enough : BOOLEAN]
Keys == Tenants \X Documents

VARIABLES
    objects,          \* _objects: key -> whether the bytes are the key's
    descriptors,      \* ArtifactRegistry._records: key -> media type
    graphRecords,     \* GraphRegistry._records: its keys
    handed            \* what the last get or load gave: <<>> or a record

registryVars == <<objects, descriptors, graphRecords, handed>>

Put(f, key, value) ==
    [k \in DOMAIN f \cup {key} |-> IF k = key THEN value ELSE f[k]]

---------------------------------------------------------------------------
(* ContentAddressedObjectStore *)

StorePut(key) == objects' = Put(objects, key, TRUE)

PresentOnly(key) == key \in DOMAIN objects

\* get: the object is there and its bytes hash to its digest
Retrievable(key) == key \in DOMAIN objects /\ objects[key]

\* A storage fault (corrupt_for_test)
Damage ==
    /\ \E key \in DOMAIN objects : objects' = [objects EXCEPT ![key] = FALSE]
    /\ handed' = <<>>
    /\ UNCHANGED <<descriptors, graphRecords>>

\* restore checks every digest of the state it is given and then replaces
\* the whole store; the registries' records stay as they are.
RestoreObjects ==
    /\ \E kept \in SUBSET (DOMAIN descriptors \cup graphRecords) :
          objects' = [key \in kept |-> TRUE]
    /\ handed' = <<>>
    /\ UNCHANGED <<descriptors, graphRecords>>

---------------------------------------------------------------------------
(* ArtifactRegistry *)

\* The object is stored before the descriptor is compared: a conflict raises
\* and leaves the object behind.
RegisterArtifact(t, d, media) ==
    LET key == <<t, d>>
    IN  /\ StorePut(key)
        /\ IF key \in DOMAIN descriptors
           THEN UNCHANGED descriptors
           ELSE descriptors' = Put(descriptors, key, media)
        /\ handed' = <<>>
        /\ UNCHANGED <<graphRecords>>

GetArtifact(t, d) ==
    LET key == <<t, d>>
    IN  /\ key \in DOMAIN descriptors
        /\ Retrievable(key)
        /\ handed' = [key |-> key, context |-> NoContext, graph |-> FALSE,
                      good |-> objects[key]]
        /\ UNCHANGED <<objects, descriptors, graphRecords>>

---------------------------------------------------------------------------
(* GraphRegistry *)

\* validate_execution_context, and the tenant check of the registry
ContextFits(t, context) == context = NoContext \/ context.tenant = t

\* _admit_graph
AdmittedDocument(d, context) ==
    /\ d \in ValidDocuments
    /\ d \in Governed => context /= NoContext
    /\ (context /= NoContext /\ d \in Governed) =>
            context.enough /\ context.tenant = Owner[d]

RegisterGraph(t, g, context) ==
    LET d == DocumentOf[g]
        key == <<t, d>>
    IN  /\ ContextFits(t, context)
        /\ AdmittedDocument(d, context)
        /\ StorePut(key)
        /\ graphRecords' = graphRecords \cup {key}
        /\ handed' = <<>>
        /\ UNCHANGED <<descriptors>>

\* The stored document is parsed, admitted again and compared with its
\* descriptor.
LoadGraph(t, d, context) ==
    LET key == <<t, d>>
    IN  /\ ContextFits(t, context)
        /\ key \in graphRecords
        /\ Retrievable(key)
        /\ AdmittedDocument(d, context)
        /\ handed' = [key |-> key, context |-> context, graph |-> TRUE,
                      good |-> objects[key]]
        /\ UNCHANGED <<objects, descriptors, graphRecords>>

RegistriesInit ==
    /\ objects = <<>>
    /\ descriptors = <<>>
    /\ graphRecords = {}
    /\ handed = <<>>

RegistriesNext ==
    \/ Damage \/ RestoreObjects
    \/ \E t \in Tenants, d \in Documents :
          \/ \E media \in MediaTypes : RegisterArtifact(t, d, media)
          \/ GetArtifact(t, d)
          \/ \E context \in Contexts :
                \/ \E g \in Graphs : RegisterGraph(t, g, context)
                \/ LoadGraph(t, d, context)

RegistriesSpec == RegistriesInit /\ [][RegistriesNext]_registryVars

---------------------------------------------------------------------------
(* Properties *)

\* Whatever damage, restores and conflicting registrations happened before,
\* bytes are handed out only whole and only to a tenant that registered
\* them itself, and a governed graph only to the tenant its units name
\* under a context with the permissions they require
\* (ContentAddressedObjectStore.get, GraphRegistry.load).
HandedOutIntact ==
    handed /= <<>> =>
        /\ handed.good
        /\ handed.key \in DOMAIN descriptors \cup graphRecords
        /\ (handed.graph /\ handed.key[2] \in Governed) =>
              /\ handed.context.enough
              /\ handed.key[1] = Owner[handed.key[2]]

===========================================================================
